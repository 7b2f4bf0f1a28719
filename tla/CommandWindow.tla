---------------------------- MODULE CommandWindow ----------------------------
(***************************************************************************)
(* CommandWindow.cpp: the two threads that admit a user with a card.       *)
(*                                                                         *)
(*   main    LogonUI's thread, inside GetConnectedStatus: it takes the     *)
(*           card of the reader thread, looks it up, has the gateway judge *)
(*           the stored password, or shows the password controls and polls *)
(*           empPWCT until the other thread clears it;                     *)
(*   window  the thread of _ThreadProc: it pumps the messages of the       *)
(*           password controls and runs the Login and Back handlers.       *)
(*                                                                         *)
(* They share, without a lock, empPWCT, boolGetBack, isOK, the connection  *)
(* DbTconn, the request buffer chhttpPOST and BoolHttpback.  Every access  *)
(* to one of these that the other thread could separate is a step of its   *)
(* own.  The user, the reader, the server, the gateway and the machine's   *)
(* restarts are the environment.                                           *)
(***************************************************************************)
EXTENDS MySqlConn, HttpConnect, SerialLine

CONSTANTS
  Inputs,      \* what the user may do to the window, see Posts
  MaxRestarts  \* bound: restarts of the logon process in a behaviour

VARIABLES
  mpc,             \* where main is
  initialization,  \* 1 until the network has been seen
  fConnected,      \* _fConnected
  strlogUser, strlogUserPW,   \* user and stored password of the card
  attempt,         \* history: the card in hand and what the gateway said
  restarts,        \* history: restarts so far
  empPWCT,         \* main waits while it is TRUE
  boolGetBack,     \* Back has been clicked
  isOK,            \* result of the last database call of either thread
  wpc,             \* where the window thread is
  posted,          \* messages posted to the window and not yet handled
  shown,           \* the password controls on the screen
  edit,            \* text of the password box
  getUpw           \* the text the Login handler read

mainVars == <<mpc, initialization, fConnected, strlogUser, strlogUserPW,
              attempt, restarts>>
flagVars == <<empPWCT, boolGetBack, isOK>>
winVars == <<wpc, posted, shown, edit, getUpw>>
vars == <<mainVars, flagVars, winVars, dbVars, httpVars, serialVars>>

(***************************************************************************)
(* What an input makes the window thread receive.  Enter in a control      *)
(* posts BM_CLICK to that control with the Login button as its parameter,  *)
(* which the loop takes for Login whatever the control; a button clicks    *)
(* itself on BM_CLICK as well, and its WM_COMMAND posts a second message.  *)
(***************************************************************************)
Posts ==
  [clickLogin  |-> <<"login">>,
   clickBack   |-> <<"back">>,
   enterEdit   |-> <<"login">>,
   enterWindow |-> <<"login">>,
   enterLogin  |-> <<"login", "login">>,
   enterBack   |-> <<"login", "back">>,
   close       |-> <<"exit">>]

\* The password controls that answer an input: _hWndButton, _hWndEDIT and
\* _hWndButtonBack.  _hWndLab is a text.
Controls == {"button", "edit", "back"}

\* The control an input needs on the screen; the window itself is always there.
ControlsOf ==
  [clickLogin  |-> {"button"},
   clickBack   |-> {"back"},
   enterEdit   |-> {"edit"},
   enterWindow |-> {},
   enterLogin  |-> {"button"},
   enterBack   |-> {"back"},
   close       |-> {}]

\* The inputs of a run are among those, and restarts are bounded by a number.
ASSUME WindowAssumption == Inputs \subseteq DOMAIN Posts /\ MaxRestarts \in Nat

NoAttempt == [card |-> NoCard, verdict |-> "none"]

(***************************************************************************)
(* What the gateway has said in this attempt: "accepted" when it really    *)
(* has taken the password for the user, "assumed" when only socketHttp's   *)
(* reading of the reply says so.  Evaluated in a step that posts.          *)
(***************************************************************************)
Judged(verdict) ==
  IF ~BoolHttpback' THEN verdict
  ELSE IF Accepts(chhttpPOST) /\ session' = chhttpPOST.user THEN "accepted"
  ELSE "assumed"

MainPcs == {"boot", "idle", "loop", "initLogout", "initPrint", "ready",
            "netText", "connect", "query", "prompt", "showEdit", "showBack",
            "showLabel", "arm", "failText", "wait", "back",
            "autoLogout", "autoPost", "autoJudge", "autoOkUi", "autoOk1",
            "autoOk2", "autoFail", "print", "insert", "inserted", "close",
            "welcome", "insertFail", "failUi", "failLog", "clear",
            "reopen", "reopened", "spin", "dead"}

WindowPcs == {"none", "start", "pump", "logoff", "post", "posted", "update",
              "updated", "ok1", "ok2", "ok3", "retry1", "retry2",
              "back1", "back2", "gone", "spin"}

MainTypeOK ==
  /\ mpc \in MainPcs
  /\ initialization \in {0, 1}
  /\ fConnected \in BOOLEAN
  /\ strlogUser \in UserString
  /\ strlogUserPW \in PwString
  /\ attempt \in [card : CardString, verdict : {"none", "assumed", "accepted"}]
  /\ restarts \in 0 .. MaxRestarts

FlagTypeOK == empPWCT \in BOOLEAN /\ boolGetBack \in BOOLEAN /\ isOK \in BOOLEAN

WinTypeOK ==
  /\ wpc \in WindowPcs
  /\ posted \in Seq({"login", "back", "exit"})
  /\ shown \subseteq Controls
  /\ edit \in PwString
  /\ getUpw \in PwString

\* The types of all variables, component by component.
TypeOK ==
  /\ DbTypeOK /\ HttpTypeOK /\ SerialTypeOK
  /\ MainTypeOK /\ FlagTypeOK /\ WinTypeOK

Init ==
  /\ DbInit /\ HttpInit /\ SerialInit
  /\ mpc = "boot"
  /\ initialization = 0
  /\ fConnected = FALSE
  /\ strlogUser = NoUser
  /\ strlogUserPW = NoPw
  /\ attempt = NoAttempt
  /\ restarts = 0
  /\ empPWCT = TRUE
  /\ boolGetBack = FALSE
  /\ isOK = FALSE
  /\ wpc = "none"
  /\ posted = << >>
  /\ shown = {}
  /\ edit = NoPw
  /\ getUpw = NoPw
-----------------------------------------------------------------------------
\* A variant of WinReady in which a call to a window that is gone blocks.
WinReady_LiveOnly == wpc = "pump"

\* The window thread can receive a message that main sends it, or there is no
\* window and sending fails at once; otherwise main's call blocks.
WinReady == wpc \in {"none", "start", "pump", "gone"}

\* Main moves on and leaves the rest of its own variables alone.
Goto(pc) ==
  /\ mpc' = pc
  /\ UNCHANGED <<initialization, fConnected, strlogUser, strlogUserPW, attempt,
                 restarts>>

\* The process ends: its threads, its window and its port are gone.
Die ==
  /\ Goto("dead")
  /\ wpc' = "none"
  /\ posted' = << >>
  /\ shown' = {}
  /\ SerialReset
  /\ UNCHANGED <<flagVars, edit, getUpw, dbVars, httpVars>>

\* CCommandWindow::Initialize, in the provider's SetUsageScenario.
Initialize ==
  /\ mpc = "boot"
  /\ initialization' = 1
  /\ \E ok \in BOOLEAN : InitCOM(ok)
  /\ wpc' = "start"
  /\ mpc' = "idle"
  /\ UNCHANGED <<fConnected, strlogUser, strlogUserPW, attempt, restarts, flagVars,
                 posted, shown, edit, getUpw, dbVars, httpVars>>

\* Without a window thread Initialize fails, and LogonUI drops the provider; the
\* port stays open.
NoWindowThread ==
  /\ mpc = "boot"
  /\ initialization' = 1
  /\ \E ok \in BOOLEAN : InitCOM(ok)
  /\ mpc' = "dead"
  /\ UNCHANGED <<fConnected, strlogUser, strlogUserPW, attempt, restarts, flagVars,
                 winVars, dbVars, httpVars>>

\* Initialize without a readable configuration ends the process.
InitializeFails == mpc = "boot" /\ Die

\* LogonUI calls GetConnectedStatus; once connected it returns at once.
GetConnectedStatus ==
  /\ mpc = "idle"
  /\ ~fConnected
  /\ Goto("loop")
  /\ UNCHANGED <<flagVars, winVars, dbVars, httpVars, serialVars>>

\* One ping of the initialization loop that fails: the window says so, and the
\* loop tries again.
PingFailed ==
  /\ mpc = "loop"
  /\ initialization = 1
  /\ Goto("netText")
  /\ UNCHANGED <<flagVars, winVars, dbVars, httpVars, serialVars>>

NetText ==
  /\ mpc = "netText"
  /\ WinReady
  /\ Goto("loop")
  /\ UNCHANGED <<flagVars, winVars, dbVars, httpVars, serialVars>>

\* One that succeeds.
InitPing ==
  /\ mpc = "loop"
  /\ initialization = 1
  /\ initialization' = 0
  /\ \E ok \in BOOLEAN :
       /\ Connect(ok)
       /\ isOK' = ok
       /\ mpc' = IF ok THEN "initLogout" ELSE "initPrint"
  /\ UNCHANGED <<fConnected, strlogUser, strlogUserPW, attempt, restarts,
                 empPWCT, boolGetBack, winVars, httpVars, serialVars>>

\* The loop ends in `delete cmdstr` on a string's buffer, and AnalysisFile
\* reads a file that may not exist: the build may crash in either.
InitCrash ==
  /\ \/ mpc = "loop" /\ initialization = 1
     \/ mpc = "ready"
  /\ Die

\* A request of either thread reads the result of gethostbyname, which is NULL
\* when the gateway's name has no address: the process ends.
RequestCrash ==
  /\ \/ mpc \in {"initLogout", "autoLogout", "autoPost"}
     \/ wpc \in {"logoff", "post"}
  /\ Die

InitLogout ==
  /\ mpc = "initLogout"
  /\ \E reply \in Replies :
       /\ getData(reply)
       /\ Goto(IF reply = "stuck" THEN "spin" ELSE "initPrint")
  /\ UNCHANGED <<flagVars, winVars, dbVars, serialVars>>

\* user_Print by either caller: the path it takes, or the crash of its pointer.
Publish(from, card, to) ==
  /\ mpc = from
  /\ \E path \in PrintPaths \ {"crash"}, o \in Outcome :
       /\ user_Print(card, path, o)
       /\ isOK' = o.ok
  /\ Goto(to)
  /\ UNCHANGED <<empPWCT, boolGetBack, winVars, httpVars, serialVars>>

PrintCrash == mpc \in {"initPrint", "print"} /\ "crash" \in PrintPaths /\ Die

\* The machine is published as off line.
InitPrint == Publish("initPrint", NoCard, "ready")

Ready ==
  /\ mpc = "ready"
  /\ WinReady
  /\ Goto("loop")
  /\ UNCHANGED <<flagVars, winVars, dbVars, httpVars, serialVars>>

\* A card is waiting: the connection is made anew and the configuration read;
\* when that fails the loop starts over with the card still in Readinfo.
TakeCard ==
  /\ mpc = "loop"
  /\ initialization = 0
  /\ Readinfo # NoCard
  /\ Goto("connect")
  /\ UNCHANGED <<flagVars, winVars, dbVars, httpVars, serialVars>>

ConnectDb ==
  /\ mpc = "connect"
  /\ \E ok \in BOOLEAN :
       /\ Connect(ok)
       /\ isOK' = ok
       /\ Goto(IF ok THEN "query" ELSE "loop")
  /\ UNCHANGED <<empPWCT, boolGetBack, winVars, httpVars, serialVars>>

\* A variant of QueryFound that keeps the user of the card before.
QueryFound_StaleUser ==
  /\ mpc = "query"
  /\ user_query(Readinfo, "found")
  /\ isOK' = TRUE
  /\ attempt' = [card |-> Readinfo, verdict |-> "none"]
  /\ strlogUser' = IF strlogUser = NoUser THEN Owner[Readinfo] ELSE strlogUser
  /\ strlogUserPW' = CarTable[Readinfo]
  /\ mpc' = IF CarTable[Readinfo] = NoPw THEN "prompt" ELSE "autoLogout"
  /\ UNCHANGED <<initialization, fConnected, restarts, empPWCT, boolGetBack,
                 winVars, httpVars, serialVars>>

\* The card is looked up: main prompts for a first password, has the stored one
\* judged, or reports a failure.
QueryFound ==
  /\ mpc = "query"
  /\ user_query(Readinfo, "found")
  /\ isOK' = TRUE
  /\ attempt' = [card |-> Readinfo, verdict |-> "none"]
  /\ strlogUser' = Owner[Readinfo]
  /\ strlogUserPW' = CarTable[Readinfo]
  /\ mpc' = IF CarTable[Readinfo] = NoPw THEN "prompt" ELSE "autoLogout"
  /\ UNCHANGED <<initialization, fConnected, restarts, empPWCT, boolGetBack,
                 winVars, httpVars, serialVars>>

QueryNotFound ==
  /\ mpc = "query"
  /\ \E answer \in {"unknown", "error"} : user_query(Readinfo, answer)
  /\ isOK' = FALSE
  /\ attempt' = [card |-> Readinfo, verdict |-> "none"]
  /\ mpc' = "failUi"
  /\ UNCHANGED <<initialization, fConnected, strlogUser, strlogUserPW, restarts,
                 empPWCT, boolGetBack, winVars, httpVars, serialVars>>

(***************************************************************************)
(* The prompt.  The controls are shown by one ShowWindow each, which sends *)
(* to the window and returns when its thread has taken it, so a handler of *)
(* what is already shown may run, and may be lost, before the next.  Only  *)
(* then is empPWCT set, and after a refusal the window's text after that.  *)
(***************************************************************************)
\* ShowWindow of one control; it is on the screen only if the window exists.
ShowControl(from, control, to) ==
  /\ mpc = from
  /\ WinReady
  /\ shown' = IF wpc = "pump" THEN shown \cup control ELSE shown
  /\ Goto(to)
  /\ UNCHANGED <<wpc, posted, edit, getUpw, flagVars, dbVars, httpVars, serialVars>>

\* The stored password is empty: the window's text, and the Login button.
Prompt == ShowControl("prompt", {"button"}, "showEdit")

\* The stored password is refused: the Login button.
AutoFail == ShowControl("autoFail", {"button"}, "showEdit")

\* On both paths: the EDIT box, the Back button and the label.
ShowEdit == ShowControl("showEdit", {"edit"}, "showBack")
ShowBack == ShowControl("showBack", {"back"}, "showLabel")
ShowLabel == ShowControl("showLabel", {}, "arm")

\* Only the refused branch still has a text to send before it polls.
AfterArm == IF strlogUserPW = NoPw THEN "wait" ELSE "failText"

\* A variant of Arm that relies on the flag's initial value.
Arm_NotSet ==
  /\ mpc = "arm"
  /\ Goto(AfterArm)
  /\ UNCHANGED <<flagVars, winVars, dbVars, httpVars, serialVars>>

Arm ==
  /\ mpc = "arm"
  /\ empPWCT' = TRUE
  /\ Goto(AfterArm)
  /\ UNCHANGED <<boolGetBack, isOK, winVars, dbVars, httpVars, serialVars>>

FailText ==
  /\ mpc = "failText"
  /\ WinReady
  /\ Goto("wait")
  /\ UNCHANGED <<flagVars, winVars, dbVars, httpVars, serialVars>>
-----------------------------------------------------------------------------
\* The stored password: log the machine out and format the body as stored.
AutoLogout ==
  /\ mpc = "autoLogout"
  /\ \E reply \in Replies :
       /\ session' \in SessionsAfter(reply, NoUser)
       /\ IF reply = "stuck"
          THEN Goto("spin") /\ UNCHANGED chhttpPOST
          ELSE /\ Goto("autoPost")
               /\ chhttpPOST' = [user |-> strlogUser, pw |-> strlogUserPW,
                                 escaped |-> FALSE]
  /\ UNCHANGED <<BoolHttpback, flagVars, winVars, dbVars, serialVars>>

AutoPost ==
  /\ mpc = "autoPost"
  /\ \E reply \in Replies :
       /\ postData(reply)
       /\ IF reply = "stuck"
          THEN Goto("spin")
          ELSE /\ mpc' = "autoJudge"
               /\ attempt' = [attempt EXCEPT !.verdict = Judged(@)]
               /\ UNCHANGED <<initialization, fConnected, strlogUser,
                              strlogUserPW, restarts>>
  /\ UNCHANGED <<flagVars, winVars, dbVars, serialVars>>

AutoJudge ==
  /\ mpc = "autoJudge"
  /\ empPWCT' = TRUE
  /\ Goto(IF BoolHttpback THEN "autoOkUi" ELSE "autoFail")
  /\ UNCHANGED <<boolGetBack, isOK, winVars, dbVars, httpVars, serialVars>>

\* Accepted: hide the controls, then let both flags fall, empPWCT first.
AutoOkUi ==
  /\ mpc = "autoOkUi"
  /\ WinReady
  /\ empPWCT' = TRUE
  /\ shown' = {}
  /\ Goto("autoOk1")
  /\ UNCHANGED <<wpc, posted, edit, getUpw, boolGetBack, isOK, dbVars, httpVars,
                 serialVars>>

AutoOk1 ==
  /\ mpc = "autoOk1"
  /\ empPWCT' = FALSE
  /\ Goto("autoOk2")
  /\ UNCHANGED <<boolGetBack, isOK, winVars, dbVars, httpVars, serialVars>>

AutoOk2 ==
  /\ mpc = "autoOk2"
  /\ boolGetBack' = FALSE
  /\ Goto("wait")
  /\ UNCHANGED <<empPWCT, isOK, winVars, dbVars, httpVars, serialVars>>
-----------------------------------------------------------------------------
\* Both polling loops: main leaves when it samples empPWCT as FALSE.
Wake ==
  /\ mpc = "wait"
  /\ ~empPWCT
  /\ Goto("back")
  /\ UNCHANGED <<flagVars, winVars, dbVars, httpVars, serialVars>>

\* boolGetBack is read after the loop: Back drops the card and starts over.
BackClicked ==
  /\ mpc = "back"
  /\ boolGetBack
  /\ Readinfo' = NoCard
  /\ attempt' = NoAttempt
  /\ mpc' = "loop"
  /\ UNCHANGED <<initialization, fConnected, strlogUser, strlogUserPW, restarts,
                 flagVars, winVars, dbVars, httpVars,
                 portOpen, reader, isopenCOM, len, swipes>>

Proceed ==
  /\ mpc = "back"
  /\ ~boolGetBack
  /\ Goto("print")
  /\ UNCHANGED <<flagVars, winVars, dbVars, httpVars, serialVars>>

\* The machine is published as used by the card, before the login is recorded.
PrintUserOn == Publish("print", GetCarNumber, "insert")

\* A variant of Insert that keeps the result of user_Print.
Insert_ResultDropped ==
  /\ mpc = "insert"
  /\ \E o \in Outcome : InsertLogin(o)
  /\ Goto("inserted")
  /\ UNCHANGED <<flagVars, winVars, httpVars, serialVars>>

Insert ==
  /\ mpc = "insert"
  /\ \E o \in Outcome : InsertLogin(o) /\ isOK' = o.ok
  /\ Goto("inserted")
  /\ UNCHANGED <<empPWCT, boolGetBack, winVars, httpVars, serialVars>>

\* isOK is read back from the global.
Inserted ==
  /\ mpc = "inserted"
  /\ Goto(IF isOK THEN "close" ELSE "insertFail")
  /\ UNCHANGED <<flagVars, winVars, dbVars, httpVars, serialVars>>

\* Recorded: close the port, become connected, forget the card.
Close ==
  /\ mpc = "close"
  /\ UninitCOM
  /\ fConnected' = TRUE
  /\ GetCarNumber' = NoCard
  /\ mpc' = "welcome"
  /\ UNCHANGED <<initialization, strlogUser, strlogUserPW, attempt, restarts,
                 flagVars, winVars, httpVars,
                 conn, CarTable, loginTable, loginFTable, PrintUser>>

Welcome ==
  /\ mpc = "welcome"
  /\ WinReady
  /\ Goto("idle")
  /\ UNCHANGED <<flagVars, winVars, dbVars, httpVars, serialVars>>

InsertFail ==
  /\ mpc = "insertFail"
  /\ WinReady
  /\ Goto("clear")
  /\ UNCHANGED <<flagVars, winVars, dbVars, httpVars, serialVars>>

\* Not found: the user is asked to swipe again, and the reader is sent a request.
FailUi ==
  /\ mpc = "failUi"
  /\ WinReady
  /\ ComWrite
  /\ Goto("failLog")
  /\ UNCHANGED <<flagVars, winVars, dbVars, httpVars>>

FailLog ==
  /\ mpc = "failLog"
  /\ \E o \in Outcome : InsertFailure(o) /\ isOK' = o.ok
  /\ Goto("clear")
  /\ UNCHANGED <<empPWCT, boolGetBack, winVars, httpVars, serialVars>>

\* A variant of Clear that leaves the card in Readinfo.
Clear_KeepsCard ==
  /\ mpc = "clear"
  /\ attempt' = NoAttempt
  /\ mpc' = "loop"
  /\ UNCHANGED <<initialization, fConnected, strlogUser, strlogUserPW, restarts,
                 flagVars, winVars, dbVars, httpVars, serialVars>>

\* The end of an attempt clears whatever card is in Readinfo by now.
Clear ==
  /\ mpc = "clear"
  /\ Readinfo' = NoCard
  /\ attempt' = NoAttempt
  /\ mpc' = "loop"
  /\ UNCHANGED <<initialization, fConnected, strlogUser, strlogUserPW, restarts,
                 flagVars, winVars, dbVars, httpVars,
                 portOpen, reader, isopenCOM, len, swipes>>
-----------------------------------------------------------------------------
\* No card, and the reader marked the line: close the port and open it again.
ReopenClose ==
  /\ mpc = "loop"
  /\ initialization = 0
  /\ Readinfo = NoCard
  /\ isopenCOM = 1
  /\ UninitCOM
  /\ Goto("reopen")
  /\ UNCHANGED <<flagVars, winVars, dbVars, httpVars>>

Reopen ==
  /\ mpc = "reopen"
  /\ WinReady
  /\ \E ok \in BOOLEAN : InitCOM(ok) /\ Goto(IF ok THEN "reopened" ELSE "loop")
  /\ UNCHANGED <<flagVars, winVars, dbVars, httpVars>>

Reopened ==
  /\ mpc = "reopened"
  /\ WinReady
  /\ isopenCOM' = 0
  /\ Goto("loop")
  /\ UNCHANGED <<flagVars, winVars, dbVars, httpVars,
                 portOpen, reader, Readinfo, len, swipes>>
-----------------------------------------------------------------------------
\* The window thread moves on and leaves the window as it is.
Turn(pc) == wpc' = pc /\ UNCHANGED <<posted, shown, edit, getUpw>>

\* _ThreadProc creates the window, with its password controls hidden.
InitInstance ==
  /\ wpc = "start"
  /\ \E pc \in {"pump", "gone"} : Turn(pc)
  /\ UNCHANGED <<mainVars, flagVars, dbVars, httpVars, serialVars>>

\* _ProcessNextMessage takes the oldest posted message, when it is m.
Receive(m) ==
  /\ wpc = "pump"
  /\ posted # << >>
  /\ Head(posted) = m
  /\ posted' = Tail(posted)

\* Login: the text of the box is read whatever the controls show, and its
\* length decides.
Login ==
  /\ Receive("login")
  /\ getUpw' = edit
  /\ wpc' = IF edit \in Long THEN "logoff" ELSE "retry1"
  /\ UNCHANGED <<shown, edit, mainVars, flagVars, dbVars, httpVars, serialVars>>

\* Log the machine out and format the body, each '+' as %2b.
LoginLogout ==
  /\ wpc = "logoff"
  /\ \E reply \in Replies :
       /\ session' \in SessionsAfter(reply, NoUser)
       /\ IF reply = "stuck"
          THEN Turn("spin") /\ UNCHANGED chhttpPOST
          ELSE /\ Turn("post")
               /\ chhttpPOST' = [user |-> strlogUser, pw |-> getUpw,
                                 escaped |-> TRUE]
  /\ UNCHANGED <<BoolHttpback, mainVars, flagVars, dbVars, serialVars>>

LoginPost ==
  /\ wpc = "post"
  /\ \E reply \in Replies :
       /\ postData(reply)
       /\ IF reply = "stuck"
          THEN Turn("spin") /\ UNCHANGED attempt
          ELSE /\ Turn("posted")
               /\ attempt' = [attempt EXCEPT !.verdict = Judged(@)]
  /\ UNCHANGED <<mpc, initialization, fConnected, strlogUser, strlogUserPW,
                 restarts, flagVars, dbVars, serialVars>>

\* A variant of LoginPosted that does not look at the answer.
LoginPosted_NoCheck ==
  /\ wpc = "posted"
  /\ Turn("update")
  /\ UNCHANGED <<mainVars, flagVars, dbVars, httpVars, serialVars>>

\* Refused: the box is cleared for another try.
LoginPosted ==
  /\ wpc = "posted"
  /\ wpc' = IF BoolHttpback THEN "update" ELSE "retry1"
  /\ edit' = IF BoolHttpback THEN edit ELSE NoPw
  /\ UNCHANGED <<posted, shown, getUpw, mainVars, flagVars, dbVars, httpVars,
                 serialVars>>

\* Accepted: the password is stored for the card.
LoginUpdate ==
  /\ wpc = "update"
  /\ \E o \in Outcome : user_update(getUpw, o) /\ isOK' = o.ok
  /\ Turn("updated")
  /\ UNCHANGED <<mainVars, empPWCT, boolGetBack, httpVars, serialVars>>

LoginUpdated ==
  /\ wpc = "updated"
  /\ Turn(IF isOK THEN "ok1" ELSE "retry1")
  /\ UNCHANGED <<mainVars, flagVars, dbVars, httpVars, serialVars>>

\* A variant of LoginOk1 that leaves the controls on the screen.
LoginOk1_KeepsControls ==
  /\ wpc = "ok1"
  /\ empPWCT' = TRUE
  /\ Turn("ok2")
  /\ UNCHANGED <<boolGetBack, isOK, mainVars, dbVars, httpVars, serialVars>>

\* Stored: the controls go, then boolGetBack falls, then empPWCT.
LoginOk1 ==
  /\ wpc = "ok1"
  /\ empPWCT' = TRUE
  /\ shown' = {}
  /\ wpc' = "ok2"
  /\ UNCHANGED <<posted, edit, getUpw, boolGetBack, isOK, mainVars, dbVars,
                 httpVars, serialVars>>

LoginOk2 ==
  /\ wpc = "ok2"
  /\ boolGetBack' = FALSE
  /\ Turn("ok3")
  /\ UNCHANGED <<empPWCT, isOK, mainVars, dbVars, httpVars, serialVars>>

LoginOk3 ==
  /\ wpc = "ok3"
  /\ empPWCT' = FALSE
  /\ Turn("pump")
  /\ UNCHANGED <<boolGetBack, isOK, mainVars, dbVars, httpVars, serialVars>>

\* Too short, refused, or not stored: main keeps waiting for another try.
LoginRetry1 ==
  /\ wpc = "retry1"
  /\ boolGetBack' = FALSE
  /\ Turn("retry2")
  /\ UNCHANGED <<empPWCT, isOK, mainVars, dbVars, httpVars, serialVars>>

LoginRetry2 ==
  /\ wpc = "retry2"
  /\ empPWCT' = TRUE
  /\ Turn("pump")
  /\ UNCHANGED <<boolGetBack, isOK, mainVars, dbVars, httpVars, serialVars>>

\* A variant of Back that leaves the text in the box.
Back_KeepsText ==
  /\ Receive("back")
  /\ shown' = {}
  /\ wpc' = "back1"
  /\ UNCHANGED <<edit, getUpw, mainVars, flagVars, dbVars, httpVars, serialVars>>

\* Back: hide and clear the controls, wake main, and only then say it was Back.
Back ==
  /\ Receive("back")
  /\ shown' = {}
  /\ edit' = NoPw
  /\ wpc' = "back1"
  /\ UNCHANGED <<getUpw, mainVars, flagVars, dbVars, httpVars, serialVars>>

Back1 ==
  /\ wpc = "back1"
  /\ empPWCT' = FALSE
  /\ Turn("back2")
  /\ UNCHANGED <<boolGetBack, isOK, mainVars, dbVars, httpVars, serialVars>>

Back2 ==
  /\ wpc = "back2"
  /\ boolGetBack' = TRUE
  /\ Turn("pump")
  /\ UNCHANGED <<empPWCT, isOK, mainVars, dbVars, httpVars, serialVars>>

\* WM_EXIT_THREAD ends the pump, and the window goes with its thread.
ExitThread ==
  /\ Receive("exit")
  /\ wpc' = "gone"
  /\ shown' = {}
  /\ UNCHANGED <<edit, getUpw, mainVars, flagVars, dbVars, httpVars, serialVars>>
-----------------------------------------------------------------------------
\* The user acts on the window while its thread is idle: messages already
\* posted are retrieved before any new input.
Input(i) ==
  /\ wpc = "pump"
  /\ posted = << >>
  /\ ControlsOf[i] \subseteq shown
  /\ posted' = Posts[i]
  /\ shown' = IF i = "close" THEN {} ELSE shown
  /\ UNCHANGED <<wpc, edit, getUpw, mainVars, flagVars, dbVars, httpVars, serialVars>>

TypePassword(pw) ==
  /\ wpc = "pump"
  /\ posted = << >>
  /\ "edit" \in shown
  /\ edit' = pw
  /\ UNCHANGED <<wpc, posted, shown, getUpw, mainVars, flagVars, dbVars, httpVars,
                 serialVars>>

\* The logon process is ended, by the system or with the machine's power, and
\* a new one starts.
Restart ==
  /\ mpc # "boot"
  /\ restarts < MaxRestarts
  /\ restarts' = restarts + 1
  /\ DbReset /\ HttpReset /\ SerialReset
  /\ mpc' = "boot"
  /\ initialization' = 0
  /\ fConnected' = FALSE
  /\ strlogUser' = NoUser
  /\ strlogUserPW' = NoPw
  /\ attempt' = NoAttempt
  /\ empPWCT' = TRUE
  /\ boolGetBack' = FALSE
  /\ isOK' = FALSE
  /\ wpc' = "none"
  /\ posted' = << >>
  /\ shown' = {}
  /\ edit' = NoPw
  /\ getUpw' = NoPw

Reader == OnRecvNext /\ UNCHANGED <<mainVars, flagVars, winVars, dbVars, httpVars>>
-----------------------------------------------------------------------------
MainNext ==
  \/ Initialize \/ NoWindowThread \/ InitializeFails \/ GetConnectedStatus
  \/ PingFailed \/ NetText \/ InitPing \/ InitCrash \/ InitLogout \/ InitPrint \/ PrintCrash \/ Ready
  \/ TakeCard \/ ConnectDb \/ QueryFound \/ QueryNotFound \/ Prompt
  \/ ShowEdit \/ ShowBack \/ ShowLabel \/ Arm \/ FailText
  \/ AutoLogout \/ AutoPost \/ AutoJudge \/ AutoOkUi \/ AutoOk1 \/ AutoOk2
  \/ AutoFail \/ Wake \/ BackClicked \/ Proceed \/ PrintUserOn \/ Insert
  \/ Inserted \/ Close \/ Welcome \/ InsertFail \/ FailUi \/ FailLog \/ Clear
  \/ ReopenClose \/ Reopen \/ Reopened

WindowNext ==
  \/ InitInstance \/ Login \/ LoginLogout \/ LoginPost \/ LoginPosted
  \/ LoginUpdate \/ LoginUpdated \/ LoginOk1 \/ LoginOk2 \/ LoginOk3
  \/ LoginRetry1 \/ LoginRetry2 \/ Back \/ Back1 \/ Back2 \/ ExitThread

UserNext ==
  \/ \E i \in Inputs : Input(i)
  \/ \E pw \in Passwords : TypePassword(pw)

Next == MainNext \/ WindowNext \/ UserNext \/ RequestCrash \/ Reader \/ Restart

Spec == Init /\ [][Next]_vars

\* Main's steps that depend on nobody else: not LogonUI's calls, and not the
\* ping that has to succeed.
MainProgress ==
  /\ MainNext
  /\ mpc \notin {"boot", "idle"}
  /\ mpc = "loop" => initialization = 0

\* The steps of main that call into the window, each a SendMessage that returns
\* only when the window's thread has taken it.
Sending == {"netText", "ready", "prompt", "autoFail", "showEdit", "showBack",
            "showLabel", "failText", "autoOkUi", "welcome", "insertFail",
            "failUi", "reopen", "reopened"}

\* Both threads of the process are scheduled, and a call ends in one of its
\* modelled ways.  GetMessage takes what another thread has sent before it
\* retrieves a posted message, so a user who goes on clicking does not keep
\* main's message out.  Nothing is assumed of the user or the reader.
FairSpec ==
  /\ Spec
  /\ WF_vars(MainProgress)
  /\ SF_vars(mpc \in Sending /\ MainProgress)
  /\ WF_vars(WindowNext)
-----------------------------------------------------------------------------
(***************************************************************************)
(* Properties.                                                             *)
(***************************************************************************)
\* Main is about to make, or is judging, a call on DbTconn or the gateway.
MainConversing ==
  \/ mpc \in {"initLogout", "initPrint", "connect", "query", "autoLogout",
              "autoPost", "autoJudge", "print", "insert", "inserted", "failLog"}
  \/ mpc = "loop" /\ initialization = 1

\* The Login handler is about to make, or is judging, such a call.
LoginConversing == wpc \in {"logoff", "post", "posted", "update", "updated"}

\* The whole Login handler.
LoginRunning ==
  LoginConversing \/ wpc \in {"ok1", "ok2", "ok3", "retry1", "retry2"}

(***************************************************************************)
(* DbTconn, chhttpPOST, BoolHttpback and isOK are not protected by a lock. *)
(* The two threads never use them at the same time: the Login handler runs *)
(* only while main polls empPWCT.                                          *)
(***************************************************************************)
ExclusiveConversation == ~(MainConversing /\ LoginConversing)

\* Main is between the first control shown and the end of its polling loop.
AtPrompt == {"showEdit", "showBack", "showLabel", "arm", "failText", "wait"}

(***************************************************************************)
(* The invariant behind it: while a login can come from the controls, is   *)
(* posted or is being handled, main is still showing controls or polls,    *)
(* and it cannot leave the loop because empPWCT is TRUE.                   *)
(***************************************************************************)
LoginPossible ==
  \/ shown # {}
  \/ \E i \in 1 .. Len(posted) : posted[i] = "login"
  \/ LoginRunning

PromptInv ==
  /\ LoginPossible => mpc \in AtPrompt
  /\ LoginPossible /\ mpc \in {"failText", "wait"} => empPWCT
  /\ wpc \in {"ok2", "ok3", "back1"} => shown = {}
  /\ wpc # "pump" => posted = << >>
  /\ Len(posted) <= 1
  /\ mpc = "boot" => wpc = "none"

\* The inputs under which it holds: Enter is pressed in the EDIT box only.  With
\* Enter elsewhere the code breaks it, see LoginOnlyFromPrompt.
EnterOnlyInEdit == Inputs \cap {"enterWindow", "enterLogin", "enterBack"} = {}

\* The last row of the attendance table is the card in hand.
Recorded == loginTable # << >> /\ loginTable[Len(loginTable)] = attempt.card

(***************************************************************************)
(* A connected desktop is in the attendance table: when _fConnected is     *)
(* set, the last row of loginTable names the card in hand.  isOK, which    *)
(* decides, is a global that the other thread writes too.                  *)
(***************************************************************************)
LoginRecorded == [][fConnected' /\ ~fConnected => Recorded]_vars

(***************************************************************************)
(* The invariant behind it: DbTconn speaks of the card in hand from the    *)
(* look-up to the insert, and until main has read isOK back it is the      *)
(* insert's result.                                                        *)
(***************************************************************************)
CardInHand ==
  AtPrompt \cup
  {"prompt", "back", "autoLogout", "autoPost", "autoJudge", "autoOkUi",
   "autoOk1", "autoOk2", "autoFail", "print", "insert"}

AttemptInv ==
  /\ mpc \in CardInHand => GetCarNumber = attempt.card
  /\ mpc = "inserted" /\ isOK => Recorded
  /\ mpc = "close" => Recorded

(***************************************************************************)
(* Main leaves the polling loop for the login only when the gateway holds  *)
(* a session for the card's owner, or a reply was read as such, or in the  *)
(* window between the two assignments of the Back handler.                 *)
(***************************************************************************)
ProceedsWithSession ==
  [][mpc = "back" /\ mpc' = "print" =>
       \/ session = Owner[attempt.card]
       \/ attempt.verdict = "assumed"
       \/ wpc = "back2"]_vars

(***************************************************************************)
(* A stored password changes only for the card in hand, to the very text   *)
(* that was posted for its owner and answered with success: none of the    *)
(* globals the handler reads again has moved in the meantime.              *)
(***************************************************************************)
StoredAsPosted ==
  [][\A c \in Known : CarTable'[c] # CarTable[c] =>
       /\ c = attempt.card
       /\ BoolHttpback
       /\ chhttpPOST = [user |-> Owner[c], pw |-> CarTable'[c],
                        escaped |-> TRUE]]_vars

(***************************************************************************)
(* A swipe leaves at most one row in the two login tables, whatever        *)
(* replies are lost, connections retried, logins given up or processes     *)
(* restarted.                                                              *)
(***************************************************************************)
OneRecordPerSwipe == Len(loginTable) + Len(loginFTable) <= swipes

(***************************************************************************)
(* A machine has one row in PrintUser, even when the reply to its insert   *)
(* was lost and the insert looks failed.  (user_Print with a garbage       *)
(* result pointer must crash for this; see PrintPaths.)                    *)
(***************************************************************************)
OneRowPerMachine == Len(PrintUser) <= 1

(***************************************************************************)
(* After a crash or a restart the machine may still be published as used   *)
(* by a card.  When initialization believes it has published it as off     *)
(* line, it is.                                                            *)
(***************************************************************************)
OfflineAfterInit ==
  mpc = "ready" /\ isOK =>
    /\ PrintUser # << >>
    /\ \A i \in 1 .. Len(PrintUser) : PrintUser[i].PrintMark = "off"

(***************************************************************************)
(* Main stands still in a message it sends while the window's thread is in *)
(* the Login handler, which may take minutes, and for good once that is    *)
(* lost in a reply without end.  This happens to main only between the     *)
(* first control shown and its polling loop, where all it can do is wait   *)
(* for the handler anyway; never in the rest of an attempt, when it        *)
(* welcomes its user, or when it reopens the port.                         *)
(***************************************************************************)
HeldAtPromptOnly ==
  mpc \in Sending /\ (LoginRunning \/ wpc = "spin") => mpc \in AtPrompt

(***************************************************************************)
(* An empPWCT that has fallen since main last set it stays down until main *)
(* has read it, although the Login handler assigns TRUE to it on every     *)
(* path: the wakeup is not overwritten.                                    *)
(***************************************************************************)
WakeupKept ==
  [][{mpc, mpc'} \subseteq {"failText", "wait"} /\ ~empPWCT => ~empPWCT']_vars

(***************************************************************************)
(* The EDIT box is cleared by Back and by a refusal, but not by a login    *)
(* that succeeds.  When the controls are about to be shown again, the box  *)
(* holds nothing but a password that a card has stored: never one that was *)
(* typed and given up, refused, or judged but not written.                 *)
(***************************************************************************)
BoxAtPrompt ==
  mpc \in {"prompt", "autoFail"} =>
    edit = NoPw \/ \E c \in Known : CarTable[c] = edit

(***************************************************************************)
(* Once empPWCT has fallen while main polls it, main does leave the loop:  *)
(* the handlers that set it again cannot run before main has seen it.      *)
(***************************************************************************)
WakeupSeen == (mpc = "wait" /\ ~empPWCT) ~> (mpc # "wait")

(***************************************************************************)
(* Nothing but a reply without end holds main for ever: from anywhere in   *)
(* an attempt it comes to wait for a card, for the user or for LogonUI, or *)
(* the process ends, or one of the threads is lost in a reply.  (A Login   *)
(* handler that is lost holds main with it in the next message main sends  *)
(* at the prompt.)                                                         *)
(***************************************************************************)
AttemptComesToRest ==
  mpc # "boot" ~>
    mpc \in {"idle", "loop", "wait", "spin", "dead"} \/ wpc = "spin"
-----------------------------------------------------------------------------
(***************************************************************************)
(* The abstract login that the two threads implement.  An attempt is asked *)
(* about from the look-up on; from the insert on, isOK as main will read   *)
(* it decides whether it is recorded or spent.  A thread that is lost in a *)
(* reply, or a process that has ended, has given its attempt up.           *)
(***************************************************************************)
stage ==
  IF fConnected THEN "connected"
  ELSE IF mpc \in CardInHand \cup {"failUi", "failLog"} THEN "asked"
  ELSE IF mpc = "close" \/ (mpc = "inserted" /\ isOK) THEN "recorded"
  ELSE IF mpc \in {"inserted", "insertFail", "clear"} THEN "spent"
  ELSE "away"

cardAsked == IF stage = "away" THEN NoCard ELSE attempt.card

Log == INSTANCE Attendance WITH
  stage    <- stage,
  card     <- cardAsked,
  password <- CarTable,
  Stored   <- PwString

(***************************************************************************)
(* Every step of either thread is a step of the abstract login or leaves   *)
(* it alone: no interleaving writes a second row for an attempt, connects  *)
(* over a row that was not confirmed, or stores a password for a card that *)
(* is not being asked about.                                               *)
(***************************************************************************)
ImplementsAttendance == Log!Spec
-----------------------------------------------------------------------------
(***************************************************************************)
(* What comments of the source say, and the code does not do.              *)
(***************************************************************************)
\* CommandWindow.cpp:79: clicking Back leaves the loop for the next round; so
\* while its handler is running main does not go on to the login.
BackStartsOver == [][mpc = "back" /\ wpc = "back2" => mpc' # "print"]_vars

\* CommandWindow.cpp:78: empPWCT controls whether main goes on after the user
\* has entered the password; so it goes on once the handler says so.
LoginLetsMainGo == wpc = "ok3" ~> mpc \notin AtPrompt

\* CommandWindow.cpp:930: the key handler answers Enter inside the EDIT box,
\* which is there only while main prompts.
LoginOnlyFromPrompt == LoginRunning => mpc \in AtPrompt

\* HttpConnect.cpp:100: a reply without a refusal means the user is logged in.
OkMeansLoggedIn ==
  [][(mpc = "autoPost" /\ mpc' = "autoJudge") /\ BoolHttpback' =>
       session' = chhttpPOST.user]_vars
=============================================================================
