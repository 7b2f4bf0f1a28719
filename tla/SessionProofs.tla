---------------------------- MODULE SessionProofs ----------------------------
(***************************************************************************)
(* Whose session main goes on with, and whose password is stored: the two  *)
(* action properties that relate the globals filled at the look-up to what *)
(* is posted and answered much later, by either thread.  And what text the *)
(* EDIT box holds when the controls come up again.                         *)
(***************************************************************************)
EXTENDS CommandWindowProofs

\* The gateway has the owner of the card in hand logged in, or a reply of this
\* attempt was read as saying so.
Admitted == session = Owner[attempt.card] \/ attempt.verdict = "assumed"

\* The user main has looked up is the owner of the card in hand.
UserInv ==
  /\ mpc \in CardInHand =>
       attempt.card \in Known /\ strlogUser = Owner[attempt.card]
  /\ mpc = "autoPost" => chhttpPOST.user = strlogUser

\* What the Login handler has posted is what it will store.
PostInv ==
  /\ wpc \in {"post", "posted", "update"} =>
       chhttpPOST = [user |-> strlogUser, pw |-> getUpw, escaped |-> TRUE]
  /\ wpc = "update" => BoolHttpback

\* Where a success has been read, the user is admitted.
JudgedInv ==
  /\ mpc = "autoJudge" /\ BoolHttpback => Admitted
  /\ mpc \in {"autoOkUi", "autoOk1", "autoOk2"} => Admitted
  /\ wpc = "posted" /\ BoolHttpback => Admitted
  /\ wpc \in {"update", "updated", "ok1", "ok2", "ok3"} => Admitted

\* The polling loop ends for an admitted user or for Back.
LeavingInv ==
  mpc = "back" \/ (mpc \in {"failText", "wait"} /\ ~empPWCT) =>
    Admitted \/ boolGetBack \/ wpc = "back2"

SessionInv == UserInv /\ PostInv /\ JudgedInv /\ LeavingInv
-----------------------------------------------------------------------------
\* What admitting depends on, and the rest that posting depends on.
SessionStays == UNCHANGED <<session, attempt>>
PostStays == UNCHANGED <<chhttpPOST, BoolHttpback, strlogUser, getUpw>>

\* While the Login handler runs, main is held.
LEMMA LoginHoldsMain ==
  ASSUME PromptInv, LoginRunning
  PROVE  HeldAtPrompt
BY DEF PromptInv, LoginPossible, HeldAtPrompt

\* Steps of main that touch neither the session nor a post.
LEMMA MainQuietSession ==
  ASSUME SessionInv, SessionStays, PostStays, UNCHANGED <<wpc, boolGetBack>>,
         mpc' \in CardInHand => mpc \in CardInHand,
         mpc' \notin {"autoPost", "autoJudge"},
         mpc' \in {"autoOkUi", "autoOk1", "autoOk2"} =>
           mpc \in {"autoOkUi", "autoOk1", "autoOk2"},
         mpc' = "back" => mpc = "wait" /\ ~empPWCT,
         mpc' \in {"failText", "wait"} =>
           empPWCT' \/ (mpc \in {"failText", "wait"} /\ UNCHANGED empPWCT)
  PROVE  SessionInv'
BY DEF SessionInv, UserInv, PostInv, JudgedInv, LeavingInv, Admitted, SessionStays,
   PostStays

\* Main before the look-up and after the polling loop.
LEMMA MainAwayKeepsSession ==
  ASSUME SessionInv,
         \/ Initialize \/ NoWindowThread \/ InitializeFails \/ GetConnectedStatus
         \/ PingFailed \/ NetText \/ InitPing \/ InitCrash \/ InitPrint
         \/ PrintCrash \/ Ready \/ TakeCard
         \/ ConnectDb \/ Proceed \/ PrintUserOn \/ Insert \/ Inserted \/ Close
         \/ Welcome \/ InsertFail \/ FailUi \/ FailLog \/ ReopenClose \/ Reopen
         \/ Reopened
  PROVE  SessionInv'
<1>1. CASE \/ Initialize \/ InitializeFails \/ InitCrash \/ PrintCrash
  <2>1. /\ SessionStays /\ PostStays /\ UNCHANGED boolGetBack
        /\ mpc' \in {"idle", "dead"} /\ wpc' \in {"none", "start"}
    BY <1>1 DEF Initialize, InitializeFails, InitCrash, PrintCrash, Die, Goto,
       SessionStays, PostStays, flagVars, httpVars
  <2> QED BY <2>1 DEF SessionInv, UserInv, PostInv, JudgedInv, LeavingInv, CardInHand,
                 AtPrompt
<1>2. CASE ~(Initialize \/ InitializeFails \/ InitCrash \/ PrintCrash)
  <2>1. /\ SessionStays /\ PostStays /\ UNCHANGED <<wpc, boolGetBack>>
        /\ mpc' \in {"loop", "initLogout", "initPrint", "ready", "connect", "query",
                     "print", "insert", "inserted", "close", "welcome", "idle",
                     "insertFail", "failUi", "failLog", "clear", "reopen",
                     "reopened", "dead", "netText"}
        /\ mpc' \in {"print", "insert"} => mpc \in {"back", "print"}
    BY <1>2 DEF NoWindowThread, GetConnectedStatus, PingFailed, NetText, InitPing,
       InitPrint, Publish,
       Ready, TakeCard, ConnectDb, Proceed, PrintUserOn, Insert, Inserted, Close,
       Welcome, InsertFail, FailUi, FailLog, ReopenClose, Reopen, Reopened, Goto,
       SessionStays, PostStays, flagVars, winVars, httpVars
  <2> QED BY <2>1, MainQuietSession DEF CardInHand, AtPrompt
<1> QED BY <1>1, <1>2

\* Main's look-up and its steps to the polling loop, without a request.
LEMMA MainPromptKeepsSession ==
  ASSUME SessionInv, PromptInv, TypeOK,
         \/ QueryFound \/ QueryNotFound \/ Prompt \/ ShowEdit \/ ShowBack
         \/ ShowLabel \/ Arm \/ FailText \/ AutoJudge \/ AutoOkUi \/ AutoOk1
         \/ AutoOk2 \/ AutoFail \/ Wake \/ BackClicked \/ Clear \/ InitLogout
  PROVE  SessionInv'
<1>1. CASE QueryFound \/ QueryNotFound \/ BackClicked \/ Clear \/ InitLogout
  <2>1. ~LoginRunning
    BY <1>1, LoginHoldsMain DEF HeldAtPrompt, AtPrompt, QueryFound, QueryNotFound,
       BackClicked, Clear, InitLogout
  <2>2. UNCHANGED wpc
    BY <1>1 DEF QueryFound, QueryNotFound, BackClicked, Clear, InitLogout, winVars
  <2>3. PostInv' /\ JudgedInv' /\ LeavingInv'
    BY <1>1, <2>1, <2>2 DEF QueryFound, QueryNotFound, BackClicked, Clear, InitLogout,
       Goto, LoginRunning, LoginConversing, PostInv, JudgedInv, LeavingInv
  <2>4. UserInv'
    <3>1. CASE QueryFound
      <4>1. Readinfo \in Known
        BY <3>1 DEF QueryFound, user_query
      <4> QED BY <3>1, <4>1 DEF QueryFound, UserInv
    <3>2. CASE ~QueryFound
      BY <1>1, <3>2 DEF QueryNotFound, BackClicked, Clear, InitLogout, Goto, UserInv,
         CardInHand, AtPrompt
    <3> QED BY <3>1, <3>2
  <2> QED BY <2>3, <2>4 DEF SessionInv
<1>2. CASE \/ Prompt \/ AutoFail \/ ShowEdit \/ ShowBack \/ ShowLabel \/ Arm
           \/ FailText \/ Wake
  <2>1. /\ SessionStays /\ PostStays /\ UNCHANGED <<wpc, boolGetBack>>
        /\ mpc \in CardInHand /\ mpc' \in AtPrompt \cup {"back"}
        /\ mpc' = "back" => mpc = "wait" /\ ~empPWCT
        /\ mpc' \in {"failText", "wait"} =>
             empPWCT' \/ (mpc \in {"failText", "wait"} /\ UNCHANGED empPWCT)
    BY <1>2 DEF Prompt, AutoFail, ShowEdit, ShowBack, ShowLabel, ShowControl, Arm,
       AfterArm, FailText, Wake, Goto, SessionStays, PostStays, flagVars, winVars,
       httpVars, CardInHand, AtPrompt
  <2> QED BY <2>1, MainQuietSession DEF AtPrompt
<1>3. CASE AutoJudge
  <2>1. /\ SessionStays /\ PostStays /\ UNCHANGED <<wpc, boolGetBack>>
        /\ mpc = "autoJudge" /\ mpc' = IF BoolHttpback THEN "autoOkUi" ELSE "autoFail"
    BY <1>3 DEF AutoJudge, Goto, SessionStays, PostStays, winVars, httpVars
  <2> QED BY <2>1 DEF SessionInv, UserInv, PostInv, JudgedInv, LeavingInv, Admitted,
             SessionStays, PostStays, CardInHand, AtPrompt
<1>4. CASE AutoOkUi \/ AutoOk1 \/ AutoOk2
  <2>1. /\ SessionStays /\ PostStays /\ UNCHANGED wpc
        /\ mpc \in {"autoOkUi", "autoOk1", "autoOk2"}
        /\ mpc' \in {"autoOk1", "autoOk2", "wait"}
    BY <1>4 DEF AutoOkUi, AutoOk1, AutoOk2, Goto, SessionStays, PostStays, flagVars,
       winVars, httpVars
  <2>2. Admitted
    BY <2>1 DEF SessionInv, JudgedInv
  <2> QED BY <2>1, <2>2 DEF SessionInv, UserInv, PostInv, JudgedInv, LeavingInv,
             Admitted, SessionStays, PostStays, CardInHand, AtPrompt
<1> QED BY <1>1, <1>2, <1>3, <1>4

\* A success that a request has just been given admits the user it was posted
\* for: the gateway has taken it, or the reply was only read so.
LEMMA PostAdmits ==
  ASSUME TypeOK, NEW reply \in Replies, postData(reply), BoolHttpback',
         chhttpPOST.user = Owner[attempt.card],
         attempt' = [attempt EXCEPT !.verdict = Judged(@)]
  PROVE  Admitted'
<1>1. UNCHANGED chhttpPOST
  BY DEF postData
<1>2. /\ attempt'.card = attempt.card
      /\ attempt'.verdict = Judged(attempt.verdict)
  BY DEF TypeOK, MainTypeOK
<1>3. CASE Accepts(chhttpPOST) /\ session' = chhttpPOST.user
  BY <1>2, <1>3 DEF Admitted
<1>4. CASE ~(Accepts(chhttpPOST) /\ session' = chhttpPOST.user)
  <2>1. Judged(attempt.verdict) = "assumed"
    BY <1>4 DEF Judged
  <2> QED BY <1>2, <2>1 DEF Admitted
<1> QED BY <1>3, <1>4

\* Main's two requests with a card in hand.
LEMMA MainRequestKeepsSession ==
  ASSUME SessionInv, PromptInv, TypeOK, AutoLogout \/ AutoPost
  PROVE  SessionInv'
<1>1. /\ ~LoginRunning /\ UNCHANGED <<wpc, strlogUser>>
      /\ mpc \in {"autoLogout", "autoPost"} /\ mpc \in CardInHand
      /\ mpc' \in {"spin", "autoPost", "autoJudge"}
  BY LoginHoldsMain DEF HeldAtPrompt, AtPrompt, AutoLogout, AutoPost, Goto, winVars,
     CardInHand
<1>2. attempt'.card = attempt.card
  BY DEF AutoLogout, AutoPost, Goto, TypeOK, MainTypeOK
<1>3. UserInv'
  <2>1. mpc' = "autoPost" => chhttpPOST'.user = strlogUser
    BY DEF AutoLogout, AutoPost, Goto
  <2> QED BY <1>1, <1>2, <2>1 DEF SessionInv, UserInv
<1>4. PostInv' /\ LeavingInv'
  BY <1>1 DEF LoginRunning, LoginConversing, PostInv, LeavingInv
<1>5. mpc' = "autoJudge" /\ BoolHttpback' => Admitted'
  <2> SUFFICES ASSUME mpc' = "autoJudge", BoolHttpback' PROVE Admitted'
    OBVIOUS
  <2>1. AutoPost
    BY DEF AutoLogout, Goto
  <2>2. PICK reply \in Replies :
          postData(reply) /\ attempt' = [attempt EXCEPT !.verdict = Judged(@)]
    BY <2>1 DEF AutoPost, Goto
  <2>3. chhttpPOST.user = Owner[attempt.card]
    BY <1>1, <2>1 DEF SessionInv, UserInv, AutoPost
  <2> QED BY <2>2, <2>3, PostAdmits
<1>6. JudgedInv'
  BY <1>1, <1>5 DEF LoginRunning, LoginConversing, JudgedInv
<1> QED BY <1>3, <1>4, <1>6 DEF SessionInv
-----------------------------------------------------------------------------
\* The Login handler up to the gateway's answer.
LEMMA LoginRequestKeepsSession ==
  ASSUME SessionInv, PromptInv, TypeOK, LoginLogout \/ LoginPost
  PROVE  SessionInv'
<1>1. mpc \in AtPrompt /\ (mpc \in {"failText", "wait"} => empPWCT)
  BY LoginHoldsMain DEF LoginLogout, LoginPost, LoginRunning, LoginConversing,
     HeldAtPrompt
<1>2. UNCHANGED <<mpc, empPWCT, strlogUser, getUpw>> /\ attempt'.card = attempt.card
  BY DEF LoginLogout, LoginPost, Turn, mainVars, flagVars, TypeOK, MainTypeOK
<1>3. UserInv' /\ LeavingInv'
  BY <1>1, <1>2 DEF SessionInv, UserInv, LeavingInv, CardInHand, AtPrompt
<1>4. CASE LoginLogout
  <2>1. /\ wpc' \in {"spin", "post"}
        /\ wpc' = "post" =>
             chhttpPOST' = [user |-> strlogUser, pw |-> getUpw, escaped |-> TRUE]
    BY <1>4 DEF LoginLogout, Turn
  <2> QED BY <1>1, <1>2, <1>3, <2>1
          DEF SessionInv, PostInv, JudgedInv, AtPrompt
<1>5. CASE LoginPost
  <2>1. wpc = "post" /\ wpc' \in {"spin", "posted"} /\ UNCHANGED chhttpPOST
    BY <1>5 DEF LoginPost, Turn, postData
  <2>2. wpc' = "posted" /\ BoolHttpback' => Admitted'
    <3> SUFFICES ASSUME wpc' = "posted", BoolHttpback' PROVE Admitted'
      OBVIOUS
    <3>1. PICK reply \in Replies :
            postData(reply) /\ attempt' = [attempt EXCEPT !.verdict = Judged(@)]
      BY <1>5 DEF LoginPost, Turn
    <3>2. chhttpPOST.user = strlogUser
      BY <2>1 DEF SessionInv, PostInv
    <3>3. chhttpPOST.user = Owner[attempt.card]
      BY <1>1, <3>2 DEF SessionInv, UserInv, CardInHand
    <3> QED BY <3>1, <3>3, PostAdmits
  <2> QED BY <1>1, <1>2, <1>3, <2>1, <2>2
          DEF SessionInv, PostInv, JudgedInv, AtPrompt
<1> QED BY <1>4, <1>5

\* The rest of the window thread.
LEMMA WindowKeepsSession ==
  ASSUME SessionInv, PromptInv, TypeOK, WindowNext, ~LoginLogout, ~LoginPost
  PROVE  SessionInv'
<1>1. /\ SessionStays /\ UNCHANGED <<mpc, chhttpPOST, BoolHttpback, strlogUser>>
  BY DEF WindowNext, InitInstance, Login, LoginPosted, LoginUpdate, LoginUpdated,
     LoginOk1, LoginOk2, LoginOk3, LoginRetry1, LoginRetry2, Back, Back1, Back2,
     ExitThread, SessionStays, mainVars, httpVars
<1> USE DEF SessionInv, UserInv, PostInv, JudgedInv, LeavingInv, Admitted, SessionStays
<1>2. CASE Login \/ InitInstance \/ ExitThread \/ Back
  <2>1. /\ wpc' \in {"logoff", "retry1", "pump", "gone", "back1"}
        /\ wpc # "back2" /\ UNCHANGED <<empPWCT, boolGetBack>>
    BY <1>2 DEF Login, InitInstance, ExitThread, Back, Receive, Turn, flagVars
  <2> QED BY <1>1, <2>1
<1>3. CASE LoginPosted \/ LoginUpdate \/ LoginUpdated \/ LoginOk1
  <2>1. /\ wpc \in {"posted", "update", "updated", "ok1"}
        /\ wpc' \in {"update", "updated", "ok1", "ok2", "retry1"}
        /\ wpc' = "update" => wpc = "posted" /\ BoolHttpback
        /\ wpc' \in {"updated", "ok1", "ok2"} => wpc # "posted"
        /\ UNCHANGED <<getUpw, boolGetBack>>
        /\ empPWCT => empPWCT'
    BY <1>3 DEF LoginPosted, LoginUpdate, LoginUpdated, LoginOk1, Turn, flagVars
  <2> QED BY <1>1, <2>1
<1>4. CASE LoginOk2 \/ LoginOk3 \/ LoginRetry1 \/ LoginRetry2
  <2>1. /\ wpc \in {"ok2", "ok3", "retry1", "retry2"}
        /\ wpc' \in {"ok3", "retry2", "pump"}
        /\ wpc' = "ok3" => wpc = "ok2"
        /\ UNCHANGED getUpw
        /\ empPWCT' = empPWCT \/ empPWCT' \/ wpc = "ok3"
    BY <1>4 DEF LoginOk2, LoginOk3, LoginRetry1, LoginRetry2, Turn
  <2>2. mpc \in AtPrompt /\ (mpc \in {"failText", "wait"} => empPWCT)
    BY <2>1, LoginHoldsMain DEF LoginRunning, HeldAtPrompt
  <2> QED BY <1>1, <2>1, <2>2 DEF AtPrompt
<1>5. CASE Back1 \/ Back2
  <2>1. /\ wpc' = "back2" \/ (boolGetBack' /\ wpc' = "pump")
        /\ wpc \in {"back1", "back2"}
    BY <1>5 DEF Back1, Back2, Turn
  <2> QED BY <1>1, <2>1
<1> QED BY <1>2, <1>3, <1>4, <1>5 DEF WindowNext

\* The user, the reader and the machine.
LEMMA EnvironmentKeepsSession ==
  ASSUME SessionInv, UserNext \/ RequestCrash \/ Reader \/ Restart
  PROVE  SessionInv'
<1> USE DEF SessionInv, UserInv, PostInv, JudgedInv, LeavingInv, Admitted
<1>1. CASE UserNext \/ Reader
  <2>1. /\ SessionStays /\ PostStays
        /\ UNCHANGED <<mpc, wpc, empPWCT, boolGetBack>>
    BY <1>1 DEF UserNext, Input, TypePassword, Reader, SessionStays, PostStays,
       mainVars, flagVars, winVars, httpVars
  <2> QED BY <2>1 DEF SessionStays, PostStays
<1>2. CASE Restart
  BY <1>2 DEF Restart, CardInHand, AtPrompt
<1>3. CASE RequestCrash
  BY <1>3 DEF RequestCrash, Die, Goto, CardInHand, AtPrompt
<1> QED BY <1>1, <1>2, <1>3

\* The session's invariant holds of every reachable state.
LEMMA SessionAlways ==
  ASSUME EnterOnlyInEdit
  PROVE  Spec => []SessionInv
<1>1. Init => SessionInv
  BY DEF Init, SessionInv, UserInv, PostInv, JudgedInv, LeavingInv, CardInHand,
     AtPrompt
<1>2. TypeOK /\ PromptInv /\ SessionInv /\ [Next]_vars => SessionInv'
  <2> SUFFICES ASSUME TypeOK, PromptInv, SessionInv, [Next]_vars PROVE SessionInv'
    OBVIOUS
  <2>1. CASE MainNext
    BY <2>1, MainAwayKeepsSession, MainPromptKeepsSession, MainRequestKeepsSession
       DEF MainNext
  <2>2. CASE WindowNext
    BY <2>2, LoginRequestKeepsSession, WindowKeepsSession
  <2>3. CASE UserNext \/ RequestCrash \/ Reader \/ Restart
    BY <2>3, EnvironmentKeepsSession
  <2>4. CASE UNCHANGED vars
    BY <2>4 DEF vars, mainVars, flagVars, winVars, httpVars, SessionInv, UserInv,
       PostInv, JudgedInv, LeavingInv, Admitted
  <2> QED BY <2>1, <2>2, <2>3, <2>4 DEF Next
<1> QED BY <1>1, <1>2, TypeCorrect, PromptAlways, PTL DEF Spec

(***************************************************************************)
(* Main goes on past the prompt only with a session of the card's owner, a *)
(* reply read as one, or inside the two assignments of the Back handler:   *)
(* for every interleaving, every ending of a reply and every stored or     *)
(* typed password, as long as Enter is pressed in the EDIT box only.       *)
(***************************************************************************)
THEOREM NobodyElsesSession ==
  ASSUME EnterOnlyInEdit
  PROVE  Spec => ProceedsWithSession
<1>1. SessionInv /\ [Next]_vars =>
        [mpc = "back" /\ mpc' = "print" =>
           \/ session = Owner[attempt.card]
           \/ attempt.verdict = "assumed"
           \/ wpc = "back2"]_vars
  <2> SUFFICES ASSUME SessionInv, Next, mpc = "back", mpc' = "print"
               PROVE  Admitted \/ wpc = "back2"
    BY DEF Admitted
  <2>1. Proceed
    <3>1. MainNext
      BY DEF Next, WindowNext, UserNext, InitInstance, Login, LoginLogout,
         LoginPost, LoginPosted, LoginUpdate, LoginUpdated, LoginOk1, LoginOk2,
         LoginOk3, LoginRetry1, LoginRetry2, Back, Back1, Back2, ExitThread, Input,
         TypePassword, RequestCrash, Die, Goto, Reader, Restart, mainVars
    <3> QED BY <3>1 DEF MainNext, Initialize, NoWindowThread, InitializeFails,
       GetConnectedStatus, PingFailed, NetText, InitPing, InitCrash, InitLogout,
       InitPrint, Publish, PrintCrash, Ready, TakeCard, ConnectDb, QueryFound,
       QueryNotFound, Prompt, ShowControl, ShowEdit, ShowBack, ShowLabel, Arm,
       AfterArm, FailText, AutoLogout, AutoPost, AutoJudge, AutoOkUi, AutoOk1, AutoOk2, AutoFail, Wake,
       BackClicked, PrintUserOn, Insert, Inserted, Close, Welcome, InsertFail, FailUi,
       FailLog, Clear, ReopenClose, Reopen, Reopened, Die, Goto
  <2> QED BY <2>1 DEF Proceed, SessionInv, LeavingInv
<1> QED BY <1>1, SessionAlways, PTL DEF Spec, ProceedsWithSession
-----------------------------------------------------------------------------
\* The tables of passwords change in one step only.
LEMMA OnlyUpdateStores ==
  ASSUME [Next]_vars, ~LoginUpdate
  PROVE  UNCHANGED CarTable
<1>1. CASE MainNext
  BY <1>1 DEF MainNext, Initialize, NoWindowThread, InitializeFails, GetConnectedStatus,
     PingFailed, NetText, InitPing, Connect, InitCrash, InitLogout, InitPrint,
     Publish, user_Print,
     PrintCrash, Ready, TakeCard, ConnectDb, QueryFound, QueryNotFound, user_query,
     Prompt, ShowControl, ShowEdit, ShowBack, ShowLabel, Arm, FailText, AutoLogout,
     AutoPost, AutoJudge, AutoOkUi, AutoOk1, AutoOk2, AutoFail, Wake, BackClicked, Proceed, PrintUserOn, Insert, InsertLogin, Inserted,
     Close, Welcome, InsertFail, FailUi, FailLog, InsertFailure, Clear, ReopenClose,
     Reopen, Reopened, Die, dbVars
<1>2. CASE WindowNext
  BY <1>2 DEF WindowNext, InitInstance, Login, LoginLogout, LoginPost, LoginPosted,
     LoginUpdated, LoginOk1, LoginOk2, LoginOk3, LoginRetry1, LoginRetry2, Back,
     Back1, Back2, ExitThread, dbVars
<1>3. CASE UserNext \/ RequestCrash \/ Reader \/ Restart \/ UNCHANGED vars
  BY <1>3 DEF UserNext, Input, TypePassword, RequestCrash, Die, Reader, Restart,
     DbReset, vars, dbVars
<1> QED BY <1>1, <1>2, <1>3 DEF Next

(***************************************************************************)
(* Stored as posted: a stored password changes only for the card in hand,  *)
(* to the very text that was posted for its owner and answered with        *)
(* success, although four globals are read again after the answer.         *)
(***************************************************************************)
THEOREM PasswordsStoredAsPosted ==
  ASSUME EnterOnlyInEdit
  PROVE  Spec => StoredAsPosted
<1>1. TypeOK /\ PromptInv /\ AttemptInv /\ SessionInv /\ [Next]_vars =>
        \A c \in Known : CarTable'[c] # CarTable[c] =>
          /\ c = attempt.card
          /\ BoolHttpback
          /\ chhttpPOST = [user |-> Owner[c], pw |-> CarTable'[c], escaped |-> TRUE]
  <2> SUFFICES ASSUME TypeOK, PromptInv, AttemptInv, SessionInv, [Next]_vars,
                      NEW c \in Known, CarTable'[c] # CarTable[c]
               PROVE  /\ c = attempt.card
                      /\ BoolHttpback
                      /\ chhttpPOST = [user |-> Owner[c], pw |-> CarTable'[c],
                                       escaped |-> TRUE]
    OBVIOUS
  <2>1. LoginUpdate
    BY OnlyUpdateStores
  <2>2. wpc = "update" /\ mpc \in AtPrompt
    BY <2>1, LoginHoldsMain
       DEF LoginUpdate, LoginRunning, LoginConversing, HeldAtPrompt
  <2>3. PICK o \in Outcome : user_update(getUpw, o)
    BY <2>1 DEF LoginUpdate
  <2>4. c = GetCarNumber /\ CarTable'[c] = getUpw
    BY <2>3 DEF user_update, TypeOK, DbTypeOK
  <2>5. GetCarNumber = attempt.card /\ strlogUser = Owner[attempt.card]
    BY <2>2 DEF AttemptInv, SessionInv, UserInv, CardInHand
  <2>6. /\ BoolHttpback
        /\ chhttpPOST = [user |-> strlogUser, pw |-> getUpw, escaped |-> TRUE]
    BY <2>2 DEF SessionInv, PostInv
  <2> QED BY <2>4, <2>5, <2>6
<1>2. TypeOK /\ PromptInv /\ AttemptInv /\ SessionInv /\ [Next]_vars =>
        [\A c \in Known : CarTable'[c] # CarTable[c] =>
          /\ c = attempt.card
          /\ BoolHttpback
          /\ chhttpPOST = [user |-> Owner[c], pw |-> CarTable'[c],
                           escaped |-> TRUE]]_vars
  BY <1>1
<1> QED BY <1>2, TypeCorrect, PromptAlways, AttemptAlways, SessionAlways, PTL
        DEF Spec, StoredAsPosted
-----------------------------------------------------------------------------
\* An empty text, or the password some card has stored.
Stored(pw) == pw = NoPw \/ \E c \in Known : CarTable[c] = pw

\* The user has closed the window at the prompt: its thread ends or has ended,
\* and main never leaves the prompt again.
Stranded ==
  /\ \/ wpc = "pump" /\ posted = <<"exit">>
     \/ wpc = "gone"
  /\ HeldAtPrompt

\* What is in the EDIT box.  Nobody can type while the Login handler runs, so
\* what it stores is what stays in the box when it hides the controls.
BoxInv ==
  /\ LoginConversing \/ wpc \in {"ok1", "ok2", "ok3"} => edit = getUpw
  /\ wpc = "updated" /\ isOK => Stored(edit)
  /\ wpc \in {"ok1", "ok2", "ok3"} => Stored(edit)
  /\ shown = {} /\ mpc # "dead" => Stored(edit) \/ Stranded

\* Steps of main that do not touch the window: without a login running, only
\* hidden text and the loop matter.
LEMMA MainQuietBox ==
  ASSUME BoxInv, PromptInv, UNCHANGED <<winVars, CarTable>>, mpc # "dead",
         LoginRunning => UNCHANGED isOK, HeldAtPrompt => HeldAtPrompt'
  PROVE  BoxInv'
<1>1. UNCHANGED <<LoginConversing, Stored(edit)>>
  BY DEF winVars, LoginConversing, Stored
<1>2. wpc = "updated" => UNCHANGED isOK
  BY DEF LoginRunning, LoginConversing
<1> QED BY <1>1, <1>2 DEF BoxInv, Stranded, winVars

\* Main's steps.
LEMMA MainKeepsBox ==
  ASSUME BoxInv, PromptInv, MainNext, UNCHANGED CarTable
  PROVE  BoxInv'
<1>1. CASE Initialize \/ NoWindowThread
  <2>1. /\ wpc = "none" /\ wpc' \in {"none", "start"} /\ mpc = "boot"
        /\ UNCHANGED <<shown, edit>>
    BY <1>1 DEF Initialize, NoWindowThread, PromptInv, winVars
  <2>2. shown = {} /\ Stored(edit)
    BY <2>1 DEF PromptInv, AtPrompt, LoginPossible, BoxInv, Stranded, HeldAtPrompt
  <2> QED BY <2>1, <2>2 DEF BoxInv, Stored, LoginConversing
<1>2. CASE InitializeFails \/ InitCrash \/ PrintCrash
  BY <1>2 DEF InitializeFails, InitCrash, PrintCrash, Die, Goto, BoxInv,
     LoginConversing
<1>3. CASE Prompt \/ AutoFail \/ AutoOkUi
  <2>1. /\ mpc \in {"prompt", "autoFail", "autoOkUi"}
        /\ WinReady /\ UNCHANGED <<wpc, edit>>
    BY <1>3 DEF Prompt, AutoFail, AutoOkUi, ShowControl
  <2>2. Stored(edit)
    BY <2>1 DEF PromptInv, AtPrompt, LoginPossible, BoxInv, Stranded, HeldAtPrompt
  <2> QED BY <2>1, <2>2 DEF BoxInv, Stored, LoginConversing, WinReady
<1>5. CASE ShowEdit \/ ShowBack \/ ShowLabel
  <2>1. /\ UNCHANGED <<wpc, posted, edit, empPWCT>> /\ wpc \in {"none", "start", "pump", "gone"}
        /\ shown \subseteq shown'
        /\ mpc \in AtPrompt \ {"failText", "wait"}
        /\ mpc' \in AtPrompt \ {"failText", "wait"}
    BY <1>5 DEF ShowEdit, ShowBack, ShowLabel, ShowControl, WinReady, Goto, flagVars,
       AtPrompt
  <2>2. shown' = {} => shown = {}
    BY <2>1
  <2>3. Stranded => Stranded'
    BY <2>1 DEF Stranded, HeldAtPrompt
  <2>4. mpc # "dead" /\ UNCHANGED Stored(edit)
    BY <2>1 DEF AtPrompt, Stored
  <2> QED BY <2>1, <2>2, <2>3, <2>4 DEF BoxInv, LoginConversing
<1>4. CASE ~(\/ Initialize \/ NoWindowThread \/ InitializeFails \/ InitCrash
             \/ PrintCrash \/ Prompt \/ AutoFail \/ AutoOkUi \/ ShowEdit
             \/ ShowBack \/ ShowLabel)
  <2>1. UNCHANGED winVars /\ mpc # "dead"
    BY <1>4 DEF MainNext, GetConnectedStatus, PingFailed, NetText, InitPing, InitLogout,
       InitPrint, Publish, Ready, TakeCard, ConnectDb, QueryFound, QueryNotFound, Arm,
       AfterArm, FailText, AutoLogout, AutoPost, AutoJudge, AutoOk1, AutoOk2, Wake, BackClicked, Proceed, PrintUserOn,
       Insert, Inserted, Close, Welcome, InsertFail, FailUi, FailLog, Clear,
       ReopenClose, Reopen, Reopened
  <2>2. HeldAtPrompt => UNCHANGED isOK /\ HeldAtPrompt'
    <3> SUFFICES ASSUME HeldAtPrompt PROVE UNCHANGED isOK /\ HeldAtPrompt'
      OBVIOUS
    <3>1. Arm \/ FailText
      BY <1>4, MainHeld
    <3> QED BY <3>1 DEF Arm, AfterArm, FailText, Goto, flagVars, HeldAtPrompt, AtPrompt
  <2>3. LoginRunning => HeldAtPrompt
    BY LoginHoldsMain
  <2> QED BY <2>1, <2>2, <2>3, MainQuietBox
<1> QED BY <1>1, <1>2, <1>3, <1>4, <1>5

\* What the handler stores is in the table when it reads isOK.
LEMMA UpdateStores ==
  ASSUME TypeOK, PromptInv, AttemptInv, SessionInv, LoginUpdate, isOK'
  PROVE  \E c \in Known : CarTable'[c] = getUpw
<1>1. mpc \in AtPrompt
  BY LoginHoldsMain DEF LoginUpdate, LoginRunning, LoginConversing, HeldAtPrompt
<1>2. GetCarNumber \in Known
  BY <1>1 DEF AttemptInv, SessionInv, UserInv, CardInHand
<1>3. PICK o \in Outcome : user_update(getUpw, o) /\ isOK' = o.ok
  BY DEF LoginUpdate
<1>4. CarTable' = [CarTable EXCEPT ![GetCarNumber] = getUpw]
  BY <1>2, <1>3 DEF user_update, Outcome
<1>5. CarTable'[GetCarNumber] = getUpw
  BY <1>2, <1>4 DEF TypeOK, DbTypeOK
<1> QED BY <1>2, <1>5

\* The window thread's steps.
LEMMA WindowKeepsBox ==
  ASSUME BoxInv, TypeOK, PromptInv, AttemptInv, SessionInv, WindowNext
  PROVE  BoxInv'
<1> USE DEF BoxInv, LoginConversing
<1>0. UNCHANGED mpc
  BY DEF WindowNext, InitInstance, Login, LoginLogout, LoginPost, LoginPosted,
     LoginUpdate, LoginUpdated, LoginOk1, LoginOk2, LoginOk3, LoginRetry1,
     LoginRetry2, Back, Back1, Back2, ExitThread, mainVars
<1>1. CASE LoginUpdate
  <2>1. /\ wpc = "update" /\ wpc' = "updated" /\ edit = getUpw
        /\ UNCHANGED <<edit, getUpw, shown, empPWCT>>
    BY <1>1 DEF LoginUpdate, Turn
  <2>2. isOK' => Stored(edit)'
    BY <1>1, <2>1, UpdateStores DEF Stored
  <2>3. Stored(edit) => Stored(edit)'
    <3>1. PICK o \in Outcome : user_update(getUpw, o)
      BY <1>1 DEF LoginUpdate
    <3>2. CASE UNCHANGED CarTable
      BY <2>1, <3>2 DEF Stored
    <3>3. CASE ~UNCHANGED CarTable
      <4>1. GetCarNumber \in Known /\ CarTable'[GetCarNumber] = getUpw
        BY <3>1, <3>3 DEF user_update, TypeOK, DbTypeOK
      <4> QED BY <2>1, <4>1 DEF Stored
    <3> QED BY <3>2, <3>3
  <2> QED BY <1>0, <2>1, <2>2, <2>3 DEF Stranded
<1>2. CASE Login
  <2>1. posted # << >> /\ Head(posted) = "login" /\ wpc = "pump"
    BY <1>2 DEF Login, Receive
  <2>2. ~Stranded
    BY <2>1 DEF Stranded
  <2> QED BY <1>0, <1>2, <2>2 DEF Login, Stored, dbVars
<1>3. CASE LoginLogout \/ LoginPost \/ LoginPosted \/ LoginUpdated
  BY <1>0, <1>3 DEF LoginLogout, LoginPost, LoginPosted, LoginUpdated, Turn, Stored,
     Stranded, flagVars, dbVars
<1>4. CASE LoginOk1 \/ LoginOk2 \/ LoginOk3 \/ LoginRetry1 \/ LoginRetry2
  BY <1>0, <1>4 DEF LoginOk1, LoginOk2, LoginOk3, LoginRetry1, LoginRetry2, Turn,
     Stored, Stranded, dbVars
<1>5. CASE Back
  BY <1>5 DEF Back, Stored
<1>6. CASE InitInstance \/ Back1 \/ Back2
  BY <1>0, <1>6 DEF InitInstance, Back1, Back2, Turn, Stored, Stranded,
     dbVars
<1>7. CASE ExitThread
  <2>1. shown # {} => HeldAtPrompt
    BY DEF PromptInv, LoginPossible, HeldAtPrompt
  <2>2. Stranded => HeldAtPrompt
    BY DEF Stranded
  <2>3. HeldAtPrompt => HeldAtPrompt'
    BY <1>0, <1>7 DEF ExitThread, flagVars, HeldAtPrompt
  <2> QED BY <1>0, <1>7, <2>1, <2>2, <2>3 DEF ExitThread, Stored, Stranded, dbVars
<1> QED BY <1>1, <1>2, <1>3, <1>4, <1>5, <1>6, <1>7 DEF WindowNext

\* The user, the reader and the machine.
LEMMA EnvironmentKeepsBox ==
  ASSUME BoxInv, PromptInv, UserNext \/ RequestCrash \/ Reader \/ Restart,
         UNCHANGED CarTable
  PROVE  BoxInv'
<1> USE DEF BoxInv, LoginConversing, Stored
<1>1. ASSUME NEW i \in Inputs, Input(i)
      PROVE  BoxInv'
  <2>1. /\ wpc = "pump" /\ posted = << >>
        /\ UNCHANGED <<wpc, mpc, edit, getUpw, isOK, empPWCT>>
    BY <1>1 DEF Input, mainVars, flagVars
  <2>2. ~Stranded
    BY <2>1 DEF Stranded
  <2>3. CASE shown # {} /\ shown' = {}
    <3>1. i = "close"
      BY <1>1, <2>3 DEF Input
    <3>2. posted' = <<"exit">>
      BY <1>1, <3>1 DEF Input, Posts
    <3>3. HeldAtPrompt'
      BY <2>1, <2>3 DEF PromptInv, LoginPossible, HeldAtPrompt
    <3> QED BY <2>1, <3>2, <3>3 DEF Stranded
  <2>4. CASE ~(shown # {} /\ shown' = {})
    BY <2>1, <2>2, <2>4
  <2> QED BY <2>3, <2>4
<1>2. ASSUME NEW pw \in Passwords, TypePassword(pw)
      PROVE  BoxInv'
  BY <1>2 DEF TypePassword
<1>3. CASE Reader
  BY <1>3 DEF Reader, mainVars, flagVars, winVars, Stranded, HeldAtPrompt
<1>4. CASE Restart
  BY <1>4 DEF Restart
<1>5. CASE RequestCrash
  BY <1>5 DEF RequestCrash, Die, Goto
<1> QED BY <1>1, <1>2, <1>3, <1>4, <1>5 DEF UserNext

(***************************************************************************)
(* What the next user finds: whenever the controls are about to be shown,  *)
(* the EDIT box is empty or holds a password that a card has stored, for   *)
(* every interleaving, refusal, lost reply and order of cards, as long as  *)
(* Enter is pressed in the EDIT box only.                                  *)
(***************************************************************************)
THEOREM BoxHoldsNothingUnstored ==
  ASSUME EnterOnlyInEdit
  PROVE  Spec => []BoxAtPrompt
<1>1. Init => BoxInv
  BY DEF Init, BoxInv, LoginConversing, Stored
<1>2. TypeOK /\ PromptInv /\ AttemptInv /\ SessionInv /\ BoxInv /\ [Next]_vars
        => BoxInv'
  <2> SUFFICES ASSUME TypeOK, PromptInv, AttemptInv, SessionInv, BoxInv, [Next]_vars
               PROVE  BoxInv'
    OBVIOUS
  <2>1. CASE WindowNext
    BY <2>1, WindowKeepsBox
  <2>2. CASE ~WindowNext
    <3>1. UNCHANGED CarTable
      BY <2>2, OnlyUpdateStores DEF WindowNext
    <3>2. CASE MainNext
      BY <3>1, <3>2, MainKeepsBox
    <3>3. CASE UserNext \/ RequestCrash \/ Reader \/ Restart
      BY <3>1, <3>3, EnvironmentKeepsBox
    <3>4. CASE UNCHANGED vars
      BY <3>1, <3>4 DEF vars, mainVars, flagVars, winVars, BoxInv, LoginConversing,
         Stored, Stranded, HeldAtPrompt
    <3> QED BY <2>2, <3>2, <3>3, <3>4 DEF Next
  <2> QED BY <2>1, <2>2
<1>3. PromptInv /\ BoxInv => BoxAtPrompt
  BY DEF PromptInv, LoginPossible, BoxInv, Stored, Stranded, HeldAtPrompt, AtPrompt,
     BoxAtPrompt
<1> QED BY <1>1, <1>2, <1>3, TypeCorrect, PromptAlways, AttemptAlways, SessionAlways,
        PTL DEF Spec
=============================================================================
