------------------------- MODULE CommandWindowProofs -------------------------
(***************************************************************************)
(* Theorems about CommandWindow, for every value of its constants.  First  *)
(* what each operation of the components does to the component's types,    *)
(* then the type invariant of the whole, then exclusion of the threads.    *)
(***************************************************************************)
EXTENDS CommandWindow, SequenceTheorems, TLAPS

\* The values user_Print writes are rows.
LEMMA RowForType ==
  ASSUME NEW card \in CardString, NEW old \in CardString
  PROVE  RowFor(card, old) \in PrintRow
BY DEF RowFor, PrintRow

\* Every operation of MySqlConn keeps its variables in their types.
LEMMA ConnectType ==
  ASSUME DbTypeOK, NEW ok \in BOOLEAN, Connect(ok)
  PROVE  DbTypeOK'
BY DEF DbTypeOK, Connect

LEMMA QueryType ==
  ASSUME DbTypeOK, NEW card \in CardString, NEW answer, user_query(card, answer)
  PROVE  DbTypeOK'
BY DEF DbTypeOK, user_query

LEMMA InsertType ==
  ASSUME DbTypeOK, NEW o \in Outcome, InsertLogin(o) \/ InsertFailure(o)
  PROVE  DbTypeOK'
<1>1. /\ Append(loginTable, GetCarNumber) \in Seq(CardString)
      /\ Append(loginFTable, GetCarNumber) \in Seq(CardString)
  BY DEF DbTypeOK
<1>2. CASE InsertLogin(o)
  BY <1>1, <1>2 DEF DbTypeOK, InsertLogin
<1>3. CASE InsertFailure(o)
  BY <1>1, <1>3 DEF DbTypeOK, InsertFailure
<1> QED BY <1>2, <1>3

LEMMA PrintType ==
  ASSUME DbTypeOK, NEW card \in CardString, NEW path, NEW o \in Outcome,
         user_Print(card, path, o)
  PROVE  DbTypeOK'
<1>1. PrintUser' \in Seq(PrintRow)
  <2>1. CASE ~o.applied
    BY <2>1 DEF user_Print, DbTypeOK
  <2>2. CASE o.applied /\ path = "update"
    <3> DEFINE n == Len(PrintUser)
               row(i) == RowFor(card, PrintUser[i].CarNumber)
    <3>1. n \in Nat
      BY LenProperties DEF DbTypeOK
    <3>2. \A i \in 1 .. n : row(i) \in PrintRow
      <4> TAKE i \in 1 .. n
      <4>1. PrintUser[i] \in PrintRow
        BY ElementOfSeq DEF DbTypeOK
      <4> QED BY <4>1, RowForType DEF PrintRow
    <3>3. PrintUser' = [i \in 1 .. n |-> row(i)]
      BY <2>2 DEF user_Print
    <3>4. [i \in 1 .. n |-> row(i)] \in [1 .. n -> PrintRow]
      BY <3>2
    <3> HIDE DEF n, row
    <3> QED BY <3>1, <3>3, <3>4, SeqDef
  <2>3. CASE o.applied /\ path # "update"
    <3>1. RowFor(card, NoCard) \in PrintRow
      BY RowForType DEF CardString
    <3>2. PrintUser' = Append(PrintUser, RowFor(card, NoCard))
      BY <2>3 DEF user_Print
    <3> QED BY <3>1, <3>2 DEF DbTypeOK
  <2> QED BY <2>1, <2>2, <2>3
<1> QED BY <1>1 DEF user_Print, DbTypeOK

LEMMA UpdateType ==
  ASSUME DbTypeOK, NEW pw \in PwString, NEW o \in Outcome, user_update(pw, o)
  PROVE  DbTypeOK'
BY DEF DbTypeOK, user_update

LEMMA DbResetType ==
  ASSUME DbTypeOK, DbReset
  PROVE  DbTypeOK'
BY DEF DbTypeOK, DbReset, CardString

\* The two requests of HttpConnect keep its variables in their types.
LEMMA SessionsAfterType ==
  ASSUME HttpTypeOK, NEW reply, NEW served \in UserString
  PROVE  SessionsAfter(reply, served) \subseteq UserString
BY DEF SessionsAfter, HttpTypeOK

LEMMA GetDataType ==
  ASSUME HttpTypeOK, NEW reply, getData(reply)
  PROVE  HttpTypeOK'
<1>1. session' \in UserString
  BY SessionsAfterType DEF getData, UserString
<1> QED BY <1>1 DEF getData, HttpTypeOK

LEMMA PostDataType ==
  ASSUME HttpTypeOK, NEW reply \in Replies, postData(reply)
  PROVE  HttpTypeOK'
<1>1. chhttpPOST.user \in UserString
  BY DEF HttpTypeOK, Body
<1>2. session' \in UserString
  BY <1>1, SessionsAfterType DEF postData, HttpTypeOK
<1>3. BoolHttpback' \in BOOLEAN
  BY RepliesAssumption DEF RepliesAssumption, postData, HttpTypeOK, Accepts
<1> QED BY <1>2, <1>3 DEF postData, HttpTypeOK

LEMMA HttpResetType ==
  ASSUME HttpTypeOK, HttpReset
  PROVE  HttpTypeOK'
BY DEF HttpTypeOK, HttpReset, Body, NoBody, UserString, PwString

\* A request body made of typed parts.
LEMMA BodyType ==
  ASSUME NEW user \in UserString, NEW pw \in PwString, NEW e \in BOOLEAN
  PROVE  [user |-> user, pw |-> pw, escaped |-> e] \in Body
BY DEF Body

\* Every operation of SerialLine keeps its variables in their types.
LEMMA SerialType ==
  ASSUME SerialTypeOK,
         \/ \E ok \in BOOLEAN : InitCOM(ok)
         \/ UninitCOM \/ ComWrite \/ OnRecvNext \/ SerialReset
  PROVE  SerialTypeOK'
<1> USE SerialAssumption DEF SerialAssumption, SerialTypeOK, CardString
<1>1. CASE \E ok \in BOOLEAN : InitCOM(ok)
  BY <1>1 DEF InitCOM
<1>2. CASE UninitCOM
  BY <1>2 DEF UninitCOM
<1>3. CASE ComWrite
  BY <1>3 DEF ComWrite
<1>4. CASE OnRecvNext
  <2>1. CASE OnRecvStart
    BY <2>1 DEF OnRecvStart
  <2>2. CASE \E card \in Cards : OnRecvCard(card)
    BY <2>2 DEF OnRecvCard
  <2>3. CASE OnRecvError
    BY <2>3 DEF OnRecvError
  <2> QED BY <1>4, <2>1, <2>2, <2>3 DEF OnRecvNext
<1>5. CASE SerialReset
  <2>1. ReadyLen \in 0 .. ReadyLen
    OBVIOUS
  <2> QED BY <1>5, <2>1 DEF SerialReset
<1> QED BY <1>1, <1>2, <1>3, <1>4, <1>5
-----------------------------------------------------------------------------
\* A component none of whose variables change keeps its types.
LEMMA UnchangedTypes ==
  /\ DbTypeOK /\ UNCHANGED dbVars => DbTypeOK'
  /\ HttpTypeOK /\ UNCHANGED httpVars => HttpTypeOK'
  /\ SerialTypeOK /\ UNCHANGED serialVars => SerialTypeOK'
  /\ MainTypeOK /\ UNCHANGED mainVars => MainTypeOK'
  /\ FlagTypeOK /\ UNCHANGED flagVars => FlagTypeOK'
  /\ WinTypeOK /\ UNCHANGED winVars => WinTypeOK'
<1>1. DbTypeOK /\ UNCHANGED dbVars => DbTypeOK'
  BY DEF DbTypeOK, dbVars
<1>2. HttpTypeOK /\ UNCHANGED httpVars => HttpTypeOK'
  BY DEF HttpTypeOK, httpVars
<1>3. SerialTypeOK /\ UNCHANGED serialVars => SerialTypeOK'
  BY DEF SerialTypeOK, serialVars
<1>4. MainTypeOK /\ UNCHANGED mainVars => MainTypeOK'
  BY DEF MainTypeOK, mainVars
<1>5. FlagTypeOK /\ UNCHANGED flagVars => FlagTypeOK'
  BY DEF FlagTypeOK, flagVars
<1>6. WinTypeOK /\ UNCHANGED winVars => WinTypeOK'
  BY DEF WinTypeOK, winVars
<1> QED BY <1>1, <1>2, <1>3, <1>4, <1>5, <1>6

\* The two ways a thread moves on keep its own variables in their types.
LEMMA GotoType ==
  ASSUME MainTypeOK, NEW pc \in MainPcs, Goto(pc)
  PROVE  MainTypeOK'
BY DEF MainTypeOK, Goto

LEMMA TurnType ==
  ASSUME WinTypeOK, NEW pc \in WindowPcs, Turn(pc)
  PROVE  WinTypeOK'
BY DEF WinTypeOK, Turn

\* The end of the process.
LEMMA DieType ==
  ASSUME TypeOK, Die
  PROVE  TypeOK'
<1> USE DEF TypeOK, Die
<1>1. MainTypeOK'
  <2>1. "dead" \in MainPcs
    BY DEF MainPcs
  <2> QED BY <2>1, GotoType
<1>2. FlagTypeOK' /\ DbTypeOK' /\ HttpTypeOK'
  BY UnchangedTypes
<1>3. SerialTypeOK'
  BY SerialType
<1>4. WinTypeOK'
  <2>1. << >> \in Seq({"login", "back", "exit"})
    BY EmptySeq
  <2> QED BY <2>1 DEF WinTypeOK, WindowPcs
<1> QED BY <1>1, <1>2, <1>3, <1>4

\* What the gateway has said is one of the three verdicts.
LEMMA JudgedType ==
  ASSUME NEW v \in {"none", "assumed", "accepted"}
  PROVE  Judged(v) \in {"none", "assumed", "accepted"}
BY DEF Judged
-----------------------------------------------------------------------------
\* Main's steps up to the look-up of the card keep the types.
LEMMA StartupTypes ==
  ASSUME TypeOK,
         \/ Initialize \/ NoWindowThread \/ InitializeFails
         \/ GetConnectedStatus \/ PingFailed \/ NetText \/ InitPing
         \/ InitCrash \/ InitLogout \/ InitPrint \/ PrintCrash \/ Ready
  PROVE  TypeOK'
<1> USE DEF TypeOK
<1>1. CASE Initialize
  <2>1. MainTypeOK'
    BY <1>1 DEF Initialize, MainTypeOK, MainPcs
  <2>2. WinTypeOK'
    BY <1>1 DEF Initialize, WinTypeOK, WindowPcs
  <2>3. SerialTypeOK'
    BY <1>1, SerialType DEF Initialize
  <2> QED BY <1>1, <2>1, <2>2, <2>3, UnchangedTypes DEF Initialize
<1>10. CASE NoWindowThread
  <2>1. MainTypeOK'
    BY <1>10 DEF NoWindowThread, MainTypeOK, MainPcs
  <2>2. SerialTypeOK'
    BY <1>10, SerialType DEF NoWindowThread
  <2> QED BY <1>10, <2>1, <2>2, UnchangedTypes DEF NoWindowThread
<1>2. CASE InitializeFails
  BY <1>2, DieType DEF InitializeFails
<1>3. CASE GetConnectedStatus \/ PingFailed \/ NetText
  <2>1. MainTypeOK'
    BY <1>3, GotoType DEF GetConnectedStatus, PingFailed, NetText, MainPcs
  <2> QED BY <1>3, <2>1, UnchangedTypes DEF GetConnectedStatus, PingFailed, NetText
<1>4. CASE InitPing
  <2>1. MainTypeOK' /\ FlagTypeOK'
    BY <1>4 DEF InitPing, MainTypeOK, MainPcs, FlagTypeOK
  <2>2. DbTypeOK'
    BY <1>4, ConnectType DEF InitPing
  <2> QED BY <1>4, <2>1, <2>2, UnchangedTypes DEF InitPing
<1>5. CASE InitCrash
  BY <1>5, DieType DEF InitCrash
<1>6. CASE InitLogout
  <2>1. MainTypeOK'
    BY <1>6, GotoType DEF InitLogout, MainPcs
  <2>2. HttpTypeOK'
    BY <1>6, GetDataType DEF InitLogout
  <2> QED BY <1>6, <2>1, <2>2, UnchangedTypes DEF InitLogout
<1>7. CASE InitPrint
  <2>1. NoCard \in CardString
    BY DEF CardString
  <2>2. DbTypeOK'
    BY <1>7, <2>1, PrintType DEF InitPrint, Publish
  <2>3. MainTypeOK'
    BY <1>7, GotoType DEF InitPrint, Publish, MainPcs
  <2>4. FlagTypeOK'
    BY <1>7 DEF InitPrint, Publish, FlagTypeOK, Outcome
  <2> QED BY <1>7, <2>2, <2>3, <2>4, UnchangedTypes DEF InitPrint, Publish
<1>8. CASE PrintCrash
  BY <1>8, DieType DEF PrintCrash
<1>9. CASE Ready
  BY <1>9, GotoType, UnchangedTypes DEF Ready, MainPcs
<1> QED BY <1>1, <1>2, <1>3, <1>4, <1>5, <1>6, <1>7, <1>8, <1>9, <1>10

\* Main's steps with a card in hand, up to the polling loop.
LEMMA AttemptTypes ==
  ASSUME TypeOK,
         \/ TakeCard \/ ConnectDb \/ QueryFound \/ QueryNotFound \/ Prompt
         \/ ShowEdit \/ ShowBack \/ ShowLabel \/ Arm \/ FailText
         \/ AutoLogout \/ AutoPost \/ AutoJudge \/ AutoOkUi \/ AutoOk1
         \/ AutoOk2 \/ AutoFail
  PROVE  TypeOK'
<1> USE DEF TypeOK
<1>1. CASE TakeCard
  BY <1>1, GotoType, UnchangedTypes DEF TakeCard, MainPcs
<1>2. CASE ConnectDb
  <2>1. MainTypeOK'
    BY <1>2, GotoType DEF ConnectDb, MainPcs
  <2>2. DbTypeOK' /\ FlagTypeOK'
    BY <1>2, ConnectType DEF ConnectDb, FlagTypeOK
  <2> QED BY <1>2, <2>1, <2>2, UnchangedTypes DEF ConnectDb
<1>3. CASE QueryFound
  <2>1. Readinfo \in CardString
    BY DEF SerialTypeOK
  <2>2. Readinfo \in Known
    BY <1>3 DEF QueryFound, user_query
  <2>3. /\ Owner[Readinfo] \in UserString
        /\ CarTable[Readinfo] \in PwString
    BY <2>2, DomainAssumption DEF DomainAssumption, DbTypeOK, UserString
  <2>4. MainTypeOK'
    BY <1>3, <2>1, <2>3 DEF QueryFound, MainTypeOK, MainPcs
  <2>5. DbTypeOK' /\ FlagTypeOK'
    BY <1>3, <2>1, QueryType DEF QueryFound, FlagTypeOK
  <2> QED BY <1>3, <2>4, <2>5, UnchangedTypes DEF QueryFound
<1>4. CASE QueryNotFound
  <2>1. Readinfo \in CardString
    BY DEF SerialTypeOK
  <2>2. MainTypeOK'
    BY <1>4, <2>1 DEF QueryNotFound, MainTypeOK, MainPcs
  <2>3. DbTypeOK' /\ FlagTypeOK'
    BY <1>4, <2>1, QueryType DEF QueryNotFound, FlagTypeOK
  <2> QED BY <1>4, <2>2, <2>3, UnchangedTypes DEF QueryNotFound
<1>5. CASE Prompt \/ AutoFail \/ ShowEdit \/ ShowBack \/ ShowLabel
  <2>1. \A from, to, control :
          to \in MainPcs /\ control \subseteq Controls /\ ShowControl(from, control, to)
            => TypeOK'
    <3> SUFFICES ASSUME NEW from, NEW to \in MainPcs, NEW control \in SUBSET Controls,
                        ShowControl(from, control, to)
                 PROVE  TypeOK'
      OBVIOUS
    <3>1. MainTypeOK'
      BY GotoType DEF ShowControl
    <3>2. WinTypeOK'
      BY DEF ShowControl, WinTypeOK
    <3> QED BY <3>1, <3>2, UnchangedTypes DEF ShowControl
  <2> HIDE DEF TypeOK
  <2>2. {"showEdit", "showBack", "showLabel", "arm"} \subseteq MainPcs
    BY DEF MainPcs
  <2> QED BY <1>5, <2>1, <2>2
          DEF Prompt, AutoFail, ShowEdit, ShowBack, ShowLabel, Controls
<1>6. CASE Arm \/ FailText \/ AutoOk1 \/ AutoOk2
  <2>1. MainTypeOK'
    BY <1>6, GotoType DEF Arm, AfterArm, FailText, AutoOk1, AutoOk2, MainPcs
  <2>2. FlagTypeOK'
    BY <1>6 DEF Arm, FailText, AutoOk1, AutoOk2, FlagTypeOK, flagVars
  <2> QED BY <1>6, <2>1, <2>2, UnchangedTypes DEF Arm, FailText, AutoOk1, AutoOk2
<1>7. CASE AutoLogout
  <2>1. MainTypeOK'
    BY <1>7, GotoType DEF AutoLogout, MainPcs
  <2>2. session' \in UserString
    BY <1>7, SessionsAfterType DEF AutoLogout, UserString
  <2>3. [user |-> strlogUser, pw |-> strlogUserPW, escaped |-> FALSE] \in Body
    BY BodyType DEF MainTypeOK
  <2>4. HttpTypeOK'
    BY <1>7, <2>2, <2>3 DEF AutoLogout, HttpTypeOK
  <2> QED BY <1>7, <2>1, <2>4, UnchangedTypes DEF AutoLogout
<1>8. CASE AutoPost
  <2>1. PICK reply \in Replies :
          /\ postData(reply)
          /\ \/ Goto("spin")
             \/ /\ mpc' = "autoJudge"
                /\ attempt' = [attempt EXCEPT !.verdict = Judged(@)]
                /\ UNCHANGED <<initialization, fConnected, strlogUser,
                               strlogUserPW, restarts>>
    BY <1>8 DEF AutoPost
  <2>2. Judged(attempt.verdict) \in {"none", "assumed", "accepted"}
    BY JudgedType DEF MainTypeOK
  <2>3. HttpTypeOK'
    BY <2>1, PostDataType
  <2>4. MainTypeOK'
    <3>1. CASE Goto("spin")
      BY <3>1, GotoType DEF MainPcs
    <3>2. CASE ~Goto("spin")
      BY <2>1, <2>2, <3>2 DEF MainTypeOK, MainPcs
    <3> QED BY <3>1, <3>2
  <2> QED BY <1>8, <2>3, <2>4, UnchangedTypes DEF AutoPost
<1>9. CASE AutoJudge
  <2>1. MainTypeOK' /\ FlagTypeOK'
    BY <1>9, GotoType DEF AutoJudge, MainPcs, FlagTypeOK
  <2> QED BY <1>9, <2>1, UnchangedTypes DEF AutoJudge
<1>10. CASE AutoOkUi
  <2>1. MainTypeOK' /\ FlagTypeOK' /\ WinTypeOK'
    BY <1>10, GotoType DEF AutoOkUi, MainPcs, FlagTypeOK, WinTypeOK
  <2> QED BY <1>10, <2>1, UnchangedTypes DEF AutoOkUi
<1> QED BY <1>1, <1>2, <1>3, <1>4, <1>5, <1>6, <1>7, <1>8, <1>9, <1>10

\* Main's steps from the polling loop to the end of the attempt, and the
\* reopening of the port.
LEMMA FinishTypes ==
  ASSUME TypeOK,
         \/ Wake \/ BackClicked \/ Proceed \/ PrintUserOn \/ Insert \/ Inserted
         \/ Close \/ Welcome \/ InsertFail \/ FailUi \/ FailLog \/ Clear
         \/ ReopenClose \/ Reopen \/ Reopened
  PROVE  TypeOK'
<1> USE DEF TypeOK
<1>1. CASE Wake \/ Proceed \/ Inserted \/ Welcome \/ InsertFail
  <2>1. MainTypeOK'
    BY <1>1, GotoType DEF Wake, Proceed, Inserted, Welcome, InsertFail, MainPcs
  <2> QED BY <1>1, <2>1, UnchangedTypes
          DEF Wake, Proceed, Inserted, Welcome, InsertFail
<1>2. CASE BackClicked \/ Clear
  <2>1. NoCard \in CardString
    BY DEF CardString
  <2>2. MainTypeOK'
    BY <1>2, <2>1 DEF BackClicked, Clear, MainTypeOK, MainPcs, NoAttempt
  <2>3. SerialTypeOK'
    BY <1>2, <2>1 DEF BackClicked, Clear, SerialTypeOK
  <2> QED BY <1>2, <2>2, <2>3, UnchangedTypes DEF BackClicked, Clear
<1>3. CASE PrintUserOn
  <2>1. DbTypeOK'
    BY <1>3, PrintType DEF PrintUserOn, Publish, DbTypeOK
  <2>2. MainTypeOK'
    BY <1>3, GotoType DEF PrintUserOn, Publish, MainPcs
  <2>3. FlagTypeOK'
    BY <1>3 DEF PrintUserOn, Publish, FlagTypeOK, Outcome
  <2> QED BY <1>3, <2>1, <2>2, <2>3, UnchangedTypes DEF PrintUserOn, Publish
<1>4. CASE Insert \/ FailLog
  <2>1. DbTypeOK'
    BY <1>4, InsertType DEF Insert, FailLog
  <2>2. MainTypeOK'
    BY <1>4, GotoType DEF Insert, FailLog, MainPcs
  <2>3. FlagTypeOK'
    BY <1>4 DEF Insert, FailLog, FlagTypeOK, Outcome
  <2> QED BY <1>4, <2>1, <2>2, <2>3, UnchangedTypes DEF Insert, FailLog
<1>5. CASE Close
  <2>1. MainTypeOK' /\ DbTypeOK'
    BY <1>5 DEF Close, MainTypeOK, MainPcs, DbTypeOK, CardString
  <2>2. SerialTypeOK'
    BY <1>5, SerialType DEF Close
  <2> QED BY <1>5, <2>1, <2>2, UnchangedTypes DEF Close
<1>6. CASE FailUi \/ ReopenClose \/ Reopen
  <2>1. MainTypeOK'
    BY <1>6, GotoType DEF FailUi, ReopenClose, Reopen, MainPcs
  <2>2. SerialTypeOK'
    BY <1>6, SerialType DEF FailUi, ReopenClose, Reopen
  <2> QED BY <1>6, <2>1, <2>2, UnchangedTypes DEF FailUi, ReopenClose, Reopen
<1>7. CASE Reopened
  <2>1. MainTypeOK' /\ SerialTypeOK'
    BY <1>7, GotoType DEF Reopened, MainPcs, SerialTypeOK
  <2> QED BY <1>7, <2>1, UnchangedTypes DEF Reopened
<1> QED BY <1>1, <1>2, <1>3, <1>4, <1>5, <1>6, <1>7

\* The window thread's steps keep the types.
LEMMA WindowTypes ==
  ASSUME TypeOK, WindowNext
  PROVE  TypeOK'
<1> USE DEF TypeOK
<1>0. \A m : Receive(m) => posted' \in Seq({"login", "back", "exit"})
  BY HeadTailProperties DEF Receive, WinTypeOK
<1>1. CASE InitInstance
  BY <1>1, TurnType, UnchangedTypes DEF InitInstance, WindowPcs
<1>2. CASE Login
  <2>1. WinTypeOK'
    BY <1>0, <1>2 DEF Login, WinTypeOK, WindowPcs
  <2> QED BY <1>2, <2>1, UnchangedTypes DEF Login
<1>3. CASE LoginLogout
  <2>1. WinTypeOK'
    BY <1>3, TurnType DEF LoginLogout, WindowPcs
  <2>2. session' \in UserString
    BY <1>3, SessionsAfterType DEF LoginLogout, UserString
  <2>3. [user |-> strlogUser, pw |-> getUpw, escaped |-> TRUE] \in Body
    BY BodyType DEF MainTypeOK, WinTypeOK
  <2>4. HttpTypeOK'
    BY <1>3, <2>2, <2>3 DEF LoginLogout, HttpTypeOK
  <2> QED BY <1>3, <2>1, <2>4, UnchangedTypes DEF LoginLogout
<1>4. CASE LoginPost
  <2>1. WinTypeOK'
    BY <1>4, TurnType DEF LoginPost, WindowPcs
  <2>2. HttpTypeOK'
    BY <1>4, PostDataType DEF LoginPost
  <2>3. Judged(attempt.verdict) \in {"none", "assumed", "accepted"}
    BY JudgedType DEF MainTypeOK
  <2>4. MainTypeOK'
    BY <1>4, <2>3 DEF LoginPost, MainTypeOK
  <2> QED BY <1>4, <2>1, <2>2, <2>4, UnchangedTypes DEF LoginPost
<1>5. CASE LoginPosted
  <2>1. WinTypeOK'
    BY <1>5 DEF LoginPosted, WinTypeOK, WindowPcs, PwString
  <2> QED BY <1>5, <2>1, UnchangedTypes DEF LoginPosted
<1>6. CASE LoginUpdate
  <2>1. WinTypeOK'
    BY <1>6, TurnType DEF LoginUpdate, WindowPcs
  <2>2. DbTypeOK'
    BY <1>6, UpdateType DEF LoginUpdate, WinTypeOK
  <2>3. FlagTypeOK'
    BY <1>6 DEF LoginUpdate, FlagTypeOK, Outcome
  <2> QED BY <1>6, <2>1, <2>2, <2>3, UnchangedTypes DEF LoginUpdate
<1>7. CASE LoginUpdated
  BY <1>7, TurnType, UnchangedTypes DEF LoginUpdated, WindowPcs
<1>8. CASE LoginOk1
  <2>1. WinTypeOK' /\ FlagTypeOK'
    BY <1>8 DEF LoginOk1, WinTypeOK, WindowPcs, FlagTypeOK
  <2> QED BY <1>8, <2>1, UnchangedTypes DEF LoginOk1
<1>9. CASE LoginOk2 \/ LoginOk3 \/ LoginRetry1 \/ LoginRetry2 \/ Back1 \/ Back2
  <2>1. WinTypeOK'
    BY <1>9, TurnType
       DEF LoginOk2, LoginOk3, LoginRetry1, LoginRetry2, Back1, Back2, WindowPcs
  <2>2. FlagTypeOK'
    BY <1>9 DEF LoginOk2, LoginOk3, LoginRetry1, LoginRetry2, Back1, Back2,
                FlagTypeOK
  <2> QED BY <1>9, <2>1, <2>2, UnchangedTypes
          DEF LoginOk2, LoginOk3, LoginRetry1, LoginRetry2, Back1, Back2
<1>10. CASE Back \/ ExitThread
  <2>1. WinTypeOK'
    BY <1>0, <1>10 DEF Back, ExitThread, WinTypeOK, WindowPcs, PwString
  <2> QED BY <1>10, <2>1, UnchangedTypes DEF Back, ExitThread
<1> QED BY <1>1, <1>2, <1>3, <1>4, <1>5, <1>6, <1>7, <1>8, <1>9, <1>10
        DEF WindowNext

\* What an input posts is a sequence of the three messages.
LEMMA PostsType ==
  ASSUME NEW i \in Inputs
  PROVE  Posts[i] \in Seq({"login", "back", "exit"})
<1> DEFINE S == {"login", "back", "exit"}
<1>1. /\ <<"login">> \in Seq(S) /\ <<"back">> \in Seq(S) /\ <<"exit">> \in Seq(S)
      /\ <<"login", "login">> \in Seq(S) /\ <<"login", "back">> \in Seq(S)
  OBVIOUS
<1>2. i \in DOMAIN Posts
  BY WindowAssumption DEF WindowAssumption
<1>3. i \in {"clickLogin", "clickBack", "enterEdit", "enterWindow", "enterLogin",
             "enterBack", "close"}
  BY <1>2 DEF Posts
<1>4. /\ Posts["clickLogin"] = <<"login">>
      /\ Posts["clickBack"] = <<"back">>
      /\ Posts["enterEdit"] = <<"login">>
      /\ Posts["enterWindow"] = <<"login">>
      /\ Posts["enterLogin"] = <<"login", "login">>
      /\ Posts["enterBack"] = <<"login", "back">>
      /\ Posts["close"] = <<"exit">>
  BY DEF Posts
<1> HIDE DEF S
<1>5. Posts[i] \in Seq(S)
  BY <1>1, <1>3, <1>4, Zenon
<1> QED BY <1>5 DEF S

\* The environment's steps keep the types.
LEMMA EnvironmentTypes ==
  ASSUME TypeOK, UserNext \/ Reader \/ Restart
  PROVE  TypeOK'
<1> USE DEF TypeOK
<1>1. ASSUME NEW i \in Inputs, Input(i)
      PROVE  TypeOK'
  <2>1. WinTypeOK'
    BY <1>1, PostsType DEF Input, WinTypeOK
  <2> QED BY <1>1, <2>1, UnchangedTypes DEF Input
<1>2. ASSUME NEW pw \in Passwords, TypePassword(pw)
      PROVE  TypeOK'
  <2>1. WinTypeOK'
    BY <1>2 DEF TypePassword, WinTypeOK, PwString
  <2> QED BY <1>2, <2>1, UnchangedTypes DEF TypePassword
<1>3. CASE Reader
  <2>1. SerialTypeOK'
    BY <1>3, SerialType DEF Reader
  <2> QED BY <1>3, <2>1, UnchangedTypes DEF Reader
<1>4. CASE Restart
  <2>1. DbTypeOK' /\ HttpTypeOK' /\ SerialTypeOK'
    BY <1>4, DbResetType, HttpResetType, SerialType DEF Restart
  <2>2. restarts' \in 0 .. MaxRestarts
    BY <1>4, WindowAssumption DEF WindowAssumption, Restart, MainTypeOK
  <2>3. MainTypeOK'
    BY <1>4, <2>2 DEF Restart, MainTypeOK, MainPcs, NoAttempt, UserString,
                      PwString, CardString
  <2>4. << >> \in Seq({"login", "back", "exit"})
    BY EmptySeq
  <2>5. FlagTypeOK' /\ WinTypeOK'
    BY <1>4, <2>4 DEF Restart, FlagTypeOK, WinTypeOK, WindowPcs, PwString
  <2> QED BY <2>1, <2>3, <2>5
<1> QED BY <1>1, <1>2, <1>3, <1>4 DEF UserNext
-----------------------------------------------------------------------------
(***************************************************************************)
(* Type correctness: no interleaving of the two threads, the reader and a  *)
(* restart drives a variable out of its type.                              *)
(***************************************************************************)
THEOREM TypeCorrect == Spec => []TypeOK
<1>1. Init => TypeOK
  <2> SUFFICES ASSUME Init PROVE TypeOK
    OBVIOUS
  <2>1. << >> \in Seq(CardString) /\ << >> \in Seq({"login", "back", "exit"})
    BY EmptySeq
  <2>2. \A r \in PrintRow : <<r>> \in Seq(PrintRow)
    OBVIOUS
  <2>3. DbTypeOK
    BY <2>1, <2>2, EmptySeq DEF Init, DbInit, DbTypeOK, CardString
  <2>4. HttpTypeOK
    BY DEF Init, HttpInit, HttpTypeOK, Body, NoBody, UserString, PwString
  <2>5. ReadyLen \in 0 .. ReadyLen /\ 0 \in 0 .. MaxSwipes /\ 0 \in 0 .. MaxRestarts
    BY SerialAssumption, WindowAssumption DEF SerialAssumption, WindowAssumption
  <2>6. SerialTypeOK
    BY <2>5 DEF Init, SerialInit, SerialTypeOK, CardString
  <2>7. MainTypeOK
    <3>1. NoAttempt \in [card : CardString, verdict : {"none", "assumed", "accepted"}]
      BY DEF NoAttempt, CardString
    <3> QED BY <2>5, <3>1 DEF Init, MainTypeOK, MainPcs, UserString, PwString
  <2>8. FlagTypeOK /\ WinTypeOK
    BY <2>1 DEF Init, FlagTypeOK, WinTypeOK, WindowPcs, PwString
  <2> QED BY <2>3, <2>4, <2>6, <2>7, <2>8 DEF TypeOK
<1>2. TypeOK /\ [Next]_vars => TypeOK'
  <2> SUFFICES ASSUME TypeOK, [Next]_vars PROVE TypeOK'
    OBVIOUS
  <2>1. CASE MainNext
    BY <2>1, StartupTypes, AttemptTypes, FinishTypes DEF MainNext
  <2>2. CASE WindowNext
    BY <2>2, WindowTypes
  <2>3. CASE UserNext \/ Reader \/ Restart
    BY <2>3, EnvironmentTypes
  <2>5. CASE RequestCrash
    BY <2>5, DieType DEF RequestCrash
  <2>4. CASE UNCHANGED vars
    BY <2>4, UnchangedTypes DEF vars, TypeOK
  <2> QED BY <2>1, <2>2, <2>3, <2>4, <2>5 DEF Next
<1> QED BY <1>1, <1>2, PTL DEF Spec
-----------------------------------------------------------------------------
\* A posted queue of at most one message holds a login only as its head.
LEMMA PostedShort ==
  ASSUME posted \in Seq({"login", "back", "exit"}), Len(posted) <= 1
  PROVE  /\ posted = << >> => ~(\E i \in 1 .. Len(posted) : posted[i] = "login")
         /\ posted # << >> => Tail(posted) = << >> /\ Len(posted) = 1
         /\ posted # << >> /\ Head(posted) = "login"
              => \E i \in 1 .. Len(posted) : posted[i] = "login"
<1>1. posted = << >> => ~(\E i \in 1 .. Len(posted) : posted[i] = "login")
  OBVIOUS
<1>2. posted # << >> => Len(posted) = 1 /\ Head(posted) = posted[1]
  BY LenProperties, EmptySeq
<1>3. posted # << >> => Tail(posted) = << >>
  BY <1>2, HeadTailProperties, EmptySeq
<1> QED BY <1>1, <1>2, <1>3

\* Main's steps other than at the controls: no login is possible before or after.
LEMMA MainQuiet ==
  ASSUME PromptInv, UNCHANGED winVars, mpc' # "boot",
         \/ mpc \notin AtPrompt
         \/ mpc = "arm" /\ mpc' \in {"failText", "wait"} /\ empPWCT' = TRUE
         \/ mpc = "failText" /\ mpc' = "wait" /\ empPWCT' = empPWCT
         \/ mpc = "wait" /\ ~empPWCT
  PROVE  PromptInv'
<1>1. LoginPossible' = LoginPossible
  BY DEF winVars, LoginPossible, LoginRunning, LoginConversing
<1> QED BY <1>1 DEF PromptInv, AtPrompt, winVars

\* The end of the process leaves nothing on the screen.
LEMMA DieQuiet ==
  ASSUME Die
  PROVE  PromptInv'
<1>1. ~LoginPossible'
  BY DEF Die, LoginPossible, LoginRunning, LoginConversing
<1> QED BY <1>1 DEF Die, Goto, PromptInv

\* Main keeps the prompt's invariant.
LEMMA MainKeepsPrompt ==
  ASSUME TypeOK, PromptInv, MainNext
  PROVE  PromptInv'
<1>1. CASE Initialize
  <2>1. ~LoginPossible /\ posted = << >>
    BY <1>1 DEF Initialize, PromptInv, AtPrompt
  <2>2. ~LoginPossible'
    BY <1>1, <2>1 DEF Initialize, LoginPossible, LoginRunning, LoginConversing
  <2> QED BY <1>1, <2>1, <2>2 DEF Initialize, PromptInv
<1>10. CASE NoWindowThread
  BY <1>10 DEF NoWindowThread, PromptInv, AtPrompt, LoginPossible, LoginRunning,
               LoginConversing, winVars, flagVars
<1>2. CASE InitializeFails \/ InitCrash \/ PrintCrash
  BY <1>2, DieQuiet DEF InitializeFails, InitCrash, PrintCrash
<1>3. CASE Prompt \/ AutoFail \/ ShowEdit \/ ShowBack \/ ShowLabel
  <2>1. /\ mpc' \in {"showEdit", "showBack", "showLabel", "arm"}
        /\ UNCHANGED <<wpc, posted>> /\ WinReady
    BY <1>3 DEF Prompt, AutoFail, ShowEdit, ShowBack, ShowLabel, ShowControl, Goto
  <2> QED BY <2>1 DEF PromptInv, AtPrompt, WinReady
<1>4. CASE AutoOkUi
  <2>1. ~LoginPossible /\ mpc' = "autoOk1" /\ shown' = {}
    BY <1>4 DEF AutoOkUi, PromptInv, AtPrompt, Goto
  <2>2. ~LoginPossible'
    BY <1>4, <2>1 DEF AutoOkUi, LoginPossible, LoginRunning, LoginConversing
  <2> QED BY <1>4, <2>1, <2>2 DEF AutoOkUi, PromptInv
<1>5. CASE Arm \/ FailText \/ Wake
  BY <1>5, MainQuiet DEF Arm, AfterArm, FailText, Wake, Goto, flagVars
<1>6. CASE GetConnectedStatus \/ PingFailed \/ NetText \/ InitPing \/ InitLogout
           \/ InitPrint \/ Ready \/ TakeCard \/ ConnectDb \/ QueryFound
           \/ QueryNotFound
  BY <1>6, MainQuiet DEF AtPrompt, GetConnectedStatus, PingFailed, NetText, InitPing, InitLogout, InitPrint, Publish,
     Ready, TakeCard, ConnectDb, QueryFound, QueryNotFound, Goto
<1>7. CASE AutoLogout \/ AutoPost \/ AutoJudge \/ AutoOk1 \/ AutoOk2
  BY <1>7, MainQuiet DEF AtPrompt, AutoLogout, AutoPost, AutoJudge, AutoOk1, AutoOk2, Goto
<1>8. CASE BackClicked \/ Proceed \/ PrintUserOn \/ Insert \/ Inserted \/ Close
           \/ Welcome \/ InsertFail
  BY <1>8, MainQuiet DEF AtPrompt, BackClicked, Proceed, PrintUserOn, Publish, Insert, Inserted,
     Close, Welcome, InsertFail, Goto
<1>9. CASE FailUi \/ FailLog \/ Clear \/ ReopenClose \/ Reopen \/ Reopened
  BY <1>9, MainQuiet DEF AtPrompt, FailUi, FailLog, Clear, ReopenClose, Reopen, Reopened, Goto
<1> QED BY <1>1, <1>2, <1>3, <1>4, <1>5, <1>6, <1>7, <1>8, <1>9, <1>10
        DEF MainNext

\* The window thread keeps it: the controls go before empPWCT falls.
LEMMA WindowKeepsPrompt ==
  ASSUME TypeOK, PromptInv, WindowNext
  PROVE  PromptInv'
<1> USE DEF PromptInv, AtPrompt, LoginPossible, LoginRunning, LoginConversing, Turn
<1>1. posted \in Seq({"login", "back", "exit"})
  BY DEF TypeOK, WinTypeOK
<1>2. Len(<< >>) = 0
  BY EmptySeq
<1>3. CASE InitInstance
  <2>1. mpc # "boot" /\ posted = << >> /\ UNCHANGED <<mpc, shown, empPWCT, posted>>
    BY <1>3 DEF InitInstance, mainVars, flagVars
  <2> QED BY <1>3, <2>1, <1>2 DEF InitInstance
<1>4. CASE Login
  <2>1. posted # << >> /\ Head(posted) = "login" /\ posted' = Tail(posted)
    BY <1>4 DEF Login, Receive
  <2>2. LoginPossible /\ posted' = << >>
    BY <1>1, <2>1, PostedShort
  <2> QED BY <1>2, <1>4, <2>2 DEF Login, Receive, mainVars, flagVars
<1>5. CASE LoginLogout \/ LoginPost \/ LoginPosted \/ LoginUpdate \/ LoginUpdated
  <2>1. /\ LoginRunning /\ posted = << >>
        /\ UNCHANGED <<mpc, shown, empPWCT, posted>>
        /\ wpc' \in {"post", "spin", "posted", "update", "updated", "ok1", "retry1"}
    BY <1>5 DEF LoginLogout, LoginPost, LoginPosted, LoginUpdate, LoginUpdated,
                mainVars, flagVars
  <2> QED BY <1>2, <2>1
<1>6. CASE LoginOk1 \/ LoginOk2 \/ LoginRetry1 \/ LoginRetry2
  BY <1>2, <1>6 DEF LoginOk1, LoginOk2, LoginRetry1, LoginRetry2, mainVars
<1>7. CASE LoginOk3 \/ Back1 \/ Back2
  BY <1>2, <1>7 DEF LoginOk3, Back1, Back2, mainVars
<1>8. CASE Back \/ ExitThread
  <2>1. posted' = << >>
    BY <1>1, <1>8, PostedShort DEF Back, ExitThread, Receive
  <2> QED BY <1>2, <1>8, <2>1 DEF Back, ExitThread, Receive, mainVars
<1> QED BY <1>3, <1>4, <1>5, <1>6, <1>7, <1>8 DEF WindowNext

\* The environment keeps it, when Enter is pressed in the EDIT box only.
LEMMA EnvironmentKeepsPrompt ==
  ASSUME TypeOK, PromptInv, EnterOnlyInEdit, UserNext \/ Reader \/ Restart
  PROVE  PromptInv'
<1> USE DEF PromptInv, AtPrompt, LoginPossible, LoginRunning, LoginConversing
<1>1. ASSUME NEW i \in Inputs, Input(i)
      PROVE  PromptInv'
  <2>1. i \in {"clickLogin", "clickBack", "enterEdit", "close"}
    BY WindowAssumption DEF WindowAssumption, Posts, EnterOnlyInEdit
  <2>2. i # "close" => shown # {}
    <3>1. i # "close" => ControlsOf[i] # {}
      BY <2>1 DEF ControlsOf
    <3> QED BY <1>1, <3>1 DEF Input
  <2>3. /\ Posts["clickLogin"] = <<"login">>
        /\ Posts["clickBack"] = <<"back">>
        /\ Posts["enterEdit"] = <<"login">>
        /\ Posts["close"] = <<"exit">>
    BY DEF Posts
  <2>4. posted' \in {<<"login">>, <<"back">>, <<"exit">>}
    BY <1>1, <2>1, <2>3 DEF Input
  <2>5. Len(posted') <= 1
    <3>1. /\ Len(<<"login">>) = 1 /\ Len(<<"back">>) = 1
          /\ Len(<<"exit">>) = 1
      OBVIOUS
    <3>2. CASE posted' = <<"login">>
      BY <3>1, <3>2
    <3>3. CASE posted' = <<"back">>
      BY <3>1, <3>3
    <3>4. CASE posted' = <<"exit">>
      BY <3>1, <3>4
    <3> QED BY <2>4, <3>2, <3>3, <3>4
  <2>6. /\ wpc = "pump" /\ UNCHANGED <<wpc, mpc, empPWCT>>
        /\ shown' = shown \/ shown' = {}
    BY <1>1 DEF Input, mainVars, flagVars
  <2>7. CASE i = "close"
    <3>1. posted' = <<"exit">> /\ shown' = {}
      BY <1>1, <2>3, <2>7 DEF Input
    <3>2. ~(\E k \in 1 .. Len(posted') : posted'[k] = "login")
      BY <3>1
    <3> QED BY <2>5, <2>6, <3>1, <3>2
  <2>8. CASE i # "close"
    BY <2>2, <2>5, <2>6, <2>8
  <2> QED BY <2>7, <2>8
<1>2. ASSUME NEW pw \in Passwords, TypePassword(pw)
      PROVE  PromptInv'
  BY <1>2 DEF TypePassword, mainVars, flagVars
<1>3. CASE Reader
  BY <1>3 DEF Reader, mainVars, flagVars, winVars
<1>4. CASE Restart
  <2>1. Len(<< >>) = 0
    BY EmptySeq
  <2> QED BY <1>4, <2>1 DEF Restart
<1> QED BY <1>1, <1>2, <1>3, <1>4 DEF UserNext

(***************************************************************************)
(* The prompt: whenever a Login message can come, is posted or is being    *)
(* handled, main is still showing controls, or held at its polling loop by *)
(* a true empPWCT.                                                         *)
(***************************************************************************)
THEOREM PromptAlways ==
  ASSUME EnterOnlyInEdit
  PROVE  Spec => []PromptInv
<1>1. Init => PromptInv
  <2>1. Len(<< >>) = 0
    BY EmptySeq
  <2> QED BY <2>1 DEF Init, PromptInv, LoginPossible, LoginRunning, LoginConversing
<1>2. TypeOK /\ PromptInv /\ [Next]_vars => PromptInv'
  <2> SUFFICES ASSUME TypeOK, PromptInv, [Next]_vars PROVE PromptInv'
    OBVIOUS
  <2>1. CASE MainNext
    BY <2>1, MainKeepsPrompt
  <2>2. CASE WindowNext
    BY <2>2, WindowKeepsPrompt
  <2>3. CASE UserNext \/ Reader \/ Restart
    BY <2>3, EnvironmentKeepsPrompt
  <2>5. CASE RequestCrash
    BY <2>5, DieQuiet DEF RequestCrash
  <2>4. CASE UNCHANGED vars
    BY <2>4 DEF vars, mainVars, flagVars, winVars, PromptInv, LoginPossible,
                LoginRunning, LoginConversing
  <2> QED BY <2>1, <2>2, <2>3, <2>4, <2>5 DEF Next
<1> QED BY <1>1, <1>2, TypeCorrect, PTL DEF Spec

(***************************************************************************)
(* Exclusion: for any number of cards, users, passwords, restarts and      *)
(* swipes, and any behaviour of the network, the two threads are never     *)
(* both in a conversation over DbTconn, chhttpPOST, BoolHttpback and isOK, *)
(* as long as Enter is pressed in the EDIT box only.                       *)
(***************************************************************************)
THEOREM Exclusion ==
  ASSUME EnterOnlyInEdit
  PROVE  Spec => []ExclusiveConversation
<1>1. PromptInv => ExclusiveConversation
  BY DEF PromptInv, AtPrompt, ExclusiveConversation, LoginPossible, LoginRunning,
         LoginConversing, MainConversing
<1> QED BY <1>1, PromptAlways, PTL
-----------------------------------------------------------------------------
\* Main is, and stays, at the prompt.
HeldAtPrompt == mpc \in AtPrompt /\ (mpc \in {"failText", "wait"} => empPWCT)

\* Held at the prompt, main can only show the next control, arm the flag it
\* polls, or send the text of a refusal.
LEMMA MainHeld ==
  ASSUME MainNext, HeldAtPrompt
  PROVE  ShowEdit \/ ShowBack \/ ShowLabel \/ Arm \/ FailText
BY DEF HeldAtPrompt, AtPrompt, MainNext, Initialize, NoWindowThread, InitializeFails,
   GetConnectedStatus, PingFailed, NetText, InitPing, InitCrash, InitLogout, InitPrint,
   Publish, PrintCrash, Ready, TakeCard, ConnectDb, QueryFound, QueryNotFound, Prompt,
   ShowControl, AutoLogout, AutoPost, AutoJudge, AutoOkUi, AutoOk1, AutoOk2, AutoFail,
   Wake, BackClicked, Proceed, PrintUserOn, Insert, Inserted, Close, Welcome,
   InsertFail, FailUi, FailLog, Clear, ReopenClose, Reopen, Reopened

\* A window thread lost in a reply has left main at the prompt: main can still
\* set empPWCT, and then polls it, or sends to the lost thread, for ever.
LostInv == wpc = "spin" => HeldAtPrompt

\* Main's steps keep it.
LEMMA MainKeepsLost ==
  ASSUME LostInv, MainNext
  PROVE  LostInv'
<1>1. CASE wpc = "spin"
  <2>1. Arm
    BY <1>1, MainHeld
       DEF LostInv, ShowEdit, ShowBack, ShowLabel, ShowControl, FailText, WinReady
  <2> QED BY <2>1 DEF Arm, AfterArm, Goto, LostInv, HeldAtPrompt, AtPrompt
<1>2. CASE wpc # "spin"
  <2>1. wpc' \in {wpc, "start", "none"}
    BY DEF MainNext, Initialize, NoWindowThread, InitializeFails, GetConnectedStatus,
       PingFailed, NetText, InitPing, InitCrash, InitLogout, InitPrint, Publish,
       PrintCrash, Ready, TakeCard, ConnectDb, QueryFound, QueryNotFound, Prompt,
       ShowControl, ShowEdit, ShowBack, ShowLabel, Arm, FailText, AutoLogout,
       AutoPost, AutoJudge, AutoOkUi, AutoOk1, AutoOk2, AutoFail, Wake, BackClicked,
       Proceed, PrintUserOn, Insert, Inserted, Close, Welcome, InsertFail, FailUi,
       FailLog, Clear, ReopenClose, Reopen, Reopened, Die, winVars
  <2> QED BY <1>2, <2>1 DEF LostInv
<1> QED BY <1>1, <1>2

\* The window thread is lost from its Login handler only.
LEMMA WindowKeepsLost ==
  ASSUME LostInv, PromptInv, WindowNext
  PROVE  LostInv'
<1>1. CASE LoginLogout \/ LoginPost
  <2>1. LoginPossible /\ UNCHANGED <<mpc, empPWCT>>
    BY <1>1 DEF LoginLogout, LoginPost, LoginPossible, LoginRunning, LoginConversing,
       mainVars, flagVars
  <2> QED BY <2>1 DEF PromptInv, LostInv, HeldAtPrompt
<1>2. CASE ~(LoginLogout \/ LoginPost)
  <2>1. wpc' # "spin"
    BY <1>2 DEF WindowNext, InitInstance, Login, LoginPosted, LoginUpdate,
       LoginUpdated, LoginOk1, LoginOk2, LoginOk3, LoginRetry1, LoginRetry2, Back,
       Back1, Back2, ExitThread, Turn
  <2> QED BY <2>1 DEF LostInv
<1> QED BY <1>1, <1>2

(***************************************************************************)
(* Main meets a busy handler at the prompt only: a window message of       *)
(* main's that the Login handler or a reply without end holds up is one of *)
(* those that show the controls or the text of a refusal, for any          *)
(* interleaving and any behaviour of the network, as long as Enter is      *)
(* pressed in the EDIT box only.                                           *)
(***************************************************************************)
THEOREM LoginHoldsMainAtPromptOnly ==
  ASSUME EnterOnlyInEdit
  PROVE  Spec => []HeldAtPromptOnly
<1>1. Init => LostInv
  BY DEF Init, LostInv
<1>2. PromptInv /\ LostInv /\ [Next]_vars => LostInv'
  <2> SUFFICES ASSUME PromptInv, LostInv, [Next]_vars PROVE LostInv'
    OBVIOUS
  <2>1. CASE MainNext
    BY <2>1, MainKeepsLost
  <2>2. CASE WindowNext
    BY <2>2, WindowKeepsLost
  <2>3. CASE UserNext \/ Reader \/ UNCHANGED vars
    BY <2>3 DEF UserNext, Input, TypePassword, Reader, vars, mainVars, flagVars,
       winVars, LostInv, HeldAtPrompt
  <2>4. CASE Restart \/ RequestCrash
    BY <2>4 DEF Restart, RequestCrash, Die, LostInv
  <2> QED BY <2>1, <2>2, <2>3, <2>4 DEF Next
<1>3. PromptInv /\ LostInv => HeldAtPromptOnly
  BY DEF PromptInv, LoginPossible, LostInv, HeldAtPrompt, HeldAtPromptOnly
<1> QED BY <1>1, <1>2, <1>3, PromptAlways, PTL DEF Spec

(***************************************************************************)
(* The wakeup is kept: while main has yet to read a fallen empPWCT, no     *)
(* handler sets it again.  With the fairness of the two threads this is    *)
(* why main leaves its loop.                                               *)
(***************************************************************************)
THEOREM WakeupNotOverwritten ==
  ASSUME EnterOnlyInEdit
  PROVE  Spec => WakeupKept
<1>1. PromptInv /\ [Next]_vars =>
        [{mpc, mpc'} \subseteq {"failText", "wait"} /\ ~empPWCT => ~empPWCT']_vars
  <2> SUFFICES ASSUME PromptInv, Next, mpc \in {"failText", "wait"}, ~empPWCT,
                      mpc' \in {"failText", "wait"}
               PROVE  ~empPWCT'
    OBVIOUS
  <2>1. ~LoginRunning
    BY DEF PromptInv, LoginPossible
  <2>2. CASE MainNext
    <3>1. Wake \/ FailText
      BY <2>2 DEF MainNext, Initialize, NoWindowThread, InitializeFails,
         GetConnectedStatus, PingFailed, NetText, InitPing, InitCrash, InitLogout,
         InitPrint, Publish, PrintCrash, Ready, TakeCard, ConnectDb, QueryFound,
         QueryNotFound, Prompt, ShowControl, ShowEdit, ShowBack, ShowLabel, Arm,
         AutoLogout, AutoPost, AutoJudge, AutoOkUi, AutoOk1, AutoOk2, AutoFail,
         BackClicked, Proceed, PrintUserOn, Insert, Inserted, Close, Welcome,
         InsertFail, FailUi, FailLog, Clear, ReopenClose, Reopen, Reopened
    <3> QED BY <3>1 DEF Wake, FailText, Goto, flagVars
  <2>3. CASE WindowNext
    BY <2>1, <2>3 DEF WindowNext, InitInstance, Login, LoginLogout, LoginPost,
       LoginPosted, LoginUpdate, LoginUpdated, LoginOk1, LoginOk2, LoginOk3,
       LoginRetry1, LoginRetry2, Back, Back1, Back2, ExitThread, LoginRunning,
       LoginConversing, flagVars
  <2>4. CASE UserNext \/ Reader
    BY <2>4 DEF UserNext, Input, TypePassword, Reader, flagVars
  <2>5. CASE Restart \/ RequestCrash
    BY <2>5 DEF Restart, RequestCrash, Die, Goto
  <2> QED BY <2>2, <2>3, <2>4, <2>5 DEF Next
<1> QED BY <1>1, PromptAlways, PTL DEF Spec, WakeupKept
-----------------------------------------------------------------------------
\* A statement that is reported as done has put its row at the end.
LEMMA InsertRecords ==
  ASSUME DbTypeOK, NEW o \in Outcome, o.ok, InsertLogin(o)
  PROVE  /\ loginTable' # << >>
         /\ loginTable'[Len(loginTable')] = GetCarNumber
<1>1. loginTable' = Append(loginTable, GetCarNumber)
  BY DEF InsertLogin, Outcome
<1> QED BY <1>1 DEF DbTypeOK

\* Steps that leave the card, the tables and the flags alone.
LEMMA AttemptQuiet ==
  ASSUME AttemptInv, UNCHANGED <<GetCarNumber, attempt, loginTable>>,
         mpc' \notin CardInHand \/ mpc \in CardInHand,
         mpc' # "close" \/ mpc = "close" \/ (mpc = "inserted" /\ isOK),
         mpc' # "inserted" \/ (mpc = "inserted" /\ UNCHANGED isOK)
  PROVE  AttemptInv'
BY DEF AttemptInv, Recorded

\* Main keeps DbTconn on the card in hand.
LEMMA MainKeepsAttempt ==
  ASSUME TypeOK, AttemptInv, MainNext
  PROVE  AttemptInv'
<1> USE DEF CardInHand, AtPrompt
<1>1. CASE QueryFound \/ QueryNotFound
  BY <1>1 DEF QueryFound, QueryNotFound, user_query, AttemptInv
<1>2. CASE InitPrint \/ Close \/ BackClicked \/ Clear
  <2>1. mpc' \in {"ready", "welcome", "loop"}
    BY <1>2 DEF InitPrint, Publish, Close, BackClicked, Clear, Goto
  <2> QED BY <2>1 DEF AttemptInv
<1>3. CASE PrintUserOn
  BY <1>3 DEF PrintUserOn, Publish, user_Print, Goto, AttemptInv
<1>4. CASE Insert
  <2>1. PICK o \in Outcome : InsertLogin(o) /\ isOK' = o.ok
    BY <1>4 DEF Insert
  <2>2. /\ mpc = "insert" /\ mpc' = "inserted"
        /\ UNCHANGED attempt
    BY <1>4 DEF Insert, Goto
  <2>3. isOK' => Recorded'
    BY <2>1, <2>2, InsertRecords DEF TypeOK, Recorded, AttemptInv
  <2> QED BY <2>2, <2>3 DEF AttemptInv
<1>5. CASE AutoPost
  <2>1. /\ mpc = "autoPost" /\ mpc' \in {"spin", "autoJudge"}
        /\ attempt'.card = attempt.card
        /\ UNCHANGED <<GetCarNumber, loginTable>>
    BY <1>5 DEF AutoPost, Goto, dbVars, TypeOK, MainTypeOK
  <2> QED BY <2>1 DEF AttemptInv
<1>6. CASE Inserted
  BY <1>6, AttemptQuiet DEF Inserted, Goto, dbVars
<1>7. CASE FailLog
  BY <1>7, AttemptQuiet DEF FailLog, Goto, InsertFailure
<1>8. CASE InitPing \/ ConnectDb
  BY <1>8, AttemptQuiet DEF InitPing, ConnectDb, Connect, Goto
<1>9. CASE Initialize \/ NoWindowThread \/ InitializeFails
           \/ GetConnectedStatus \/ PingFailed \/ NetText \/ InitCrash
           \/ InitLogout \/ PrintCrash \/ Ready \/ TakeCard
  BY <1>9, AttemptQuiet DEF Initialize, NoWindowThread, InitializeFails,
     GetConnectedStatus, PingFailed, NetText, InitCrash, InitLogout, PrintCrash, Ready, TakeCard, Die, Goto, dbVars
<1>10. CASE Arm \/ AutoLogout \/ AutoJudge \/ AutoOkUi \/ AutoOk1
            \/ AutoOk2 \/ Wake \/ Proceed
  BY <1>10, AttemptQuiet DEF Arm, AfterArm, AutoLogout, AutoJudge, AutoOkUi,
     AutoOk1, AutoOk2, Wake, Proceed, Goto, dbVars
<1>12. CASE Prompt \/ AutoFail \/ ShowEdit \/ ShowBack \/ ShowLabel \/ FailText
  BY <1>12, AttemptQuiet DEF Prompt, AutoFail, ShowEdit, ShowBack, ShowLabel,
     ShowControl, FailText, Goto, dbVars
<1>11. CASE Welcome \/ InsertFail \/ FailUi \/ ReopenClose \/ Reopen \/ Reopened
  BY <1>11, AttemptQuiet DEF Welcome, InsertFail, FailUi, ReopenClose, Reopen,
     Reopened, Goto, dbVars
<1> QED BY <1>1, <1>2, <1>3, <1>4, <1>5, <1>6, <1>7, <1>8, <1>9, <1>10, <1>11,
           <1>12
        DEF MainNext

\* The others keep it: a handler that could overwrite isOK runs only while
\* main polls empPWCT.
LEMMA OthersKeepAttempt ==
  ASSUME TypeOK, PromptInv, AttemptInv,
         WindowNext \/ UserNext \/ RequestCrash \/ Reader \/ Restart
  PROVE  AttemptInv'
<1>1. CASE LoginUpdate
  <2>1. mpc \in AtPrompt /\ UNCHANGED mpc
    BY <1>1 DEF LoginUpdate, PromptInv, LoginPossible, LoginRunning,
                LoginConversing, mainVars
  <2>2. UNCHANGED <<GetCarNumber, attempt>>
    BY <1>1 DEF LoginUpdate, user_update, mainVars
  <2> QED BY <2>1, <2>2 DEF AttemptInv, CardInHand, AtPrompt
<1>2. CASE LoginPost
  <2>1. /\ UNCHANGED <<mpc, isOK, GetCarNumber, loginTable>>
        /\ attempt'.card = attempt.card
    BY <1>2 DEF LoginPost, flagVars, dbVars, TypeOK, MainTypeOK
  <2> QED BY <2>1 DEF AttemptInv, Recorded
<1>3. CASE InitInstance \/ Login \/ LoginLogout \/ LoginPosted \/ LoginUpdated
           \/ LoginOk1 \/ LoginOk2 \/ LoginOk3 \/ LoginRetry1 \/ LoginRetry2
           \/ Back \/ Back1 \/ Back2 \/ ExitThread
  <2>1. UNCHANGED <<mpc, isOK, GetCarNumber, loginTable, attempt>>
    BY <1>3 DEF InitInstance, Login, LoginLogout, LoginPosted, LoginUpdated,
       LoginOk1, LoginOk2, LoginOk3, LoginRetry1, LoginRetry2, Back, Back1,
       Back2, ExitThread, mainVars, flagVars, dbVars
  <2> QED BY <2>1 DEF AttemptInv, Recorded
<1>4. CASE UserNext \/ Reader
  <2>1. UNCHANGED <<mpc, isOK, GetCarNumber, loginTable, attempt>>
    BY <1>4 DEF UserNext, Input, TypePassword, Reader, mainVars, flagVars, dbVars
  <2> QED BY <2>1 DEF AttemptInv, Recorded
<1>5. CASE Restart \/ RequestCrash
  BY <1>5 DEF Restart, RequestCrash, Die, Goto, AttemptInv, CardInHand, AtPrompt
<1> QED BY <1>1, <1>2, <1>3, <1>4, <1>5 DEF WindowNext

(***************************************************************************)
(* The card in hand: DbTconn speaks of it from the look-up to the insert,  *)
(* and a true isOK read back after the insert is the insert's own.         *)
(***************************************************************************)
THEOREM AttemptAlways ==
  ASSUME EnterOnlyInEdit
  PROVE  Spec => []AttemptInv
<1>1. Init => AttemptInv
  BY DEF Init, AttemptInv, CardInHand, AtPrompt
<1>2. TypeOK /\ PromptInv /\ AttemptInv /\ [Next]_vars => AttemptInv'
  <2> SUFFICES ASSUME TypeOK, PromptInv, AttemptInv, [Next]_vars
               PROVE  AttemptInv'
    OBVIOUS
  <2>1. CASE MainNext
    BY <2>1, MainKeepsAttempt
  <2>2. CASE WindowNext \/ UserNext \/ RequestCrash \/ Reader \/ Restart
    BY <2>2, OthersKeepAttempt
  <2>3. CASE UNCHANGED vars
    BY <2>3 DEF vars, mainVars, flagVars, dbVars, AttemptInv, Recorded
  <2> QED BY <2>1, <2>2, <2>3 DEF Next
<1> QED BY <1>1, <1>2, TypeCorrect, PromptAlways, PTL DEF Spec

(***************************************************************************)
(* Recorded before connected: whenever _fConnected is set, the attendance  *)
(* table ends in the card in hand, for every interleaving and every        *)
(* failure or lost reply of the database, as long as Enter is pressed in   *)
(* the EDIT box only.                                                      *)
(***************************************************************************)
THEOREM RecordedBeforeConnected ==
  ASSUME EnterOnlyInEdit
  PROVE  Spec => LoginRecorded
<1>1. AttemptInv /\ [Next]_vars => (fConnected' /\ ~fConnected => Recorded)
  <2> SUFFICES ASSUME AttemptInv, [Next]_vars, fConnected', ~fConnected
               PROVE  Recorded
    OBVIOUS
  <2>1. MainNext
    <3>1. CASE WindowNext \/ UserNext \/ Reader
      BY <3>1 DEF WindowNext, UserNext, Input, TypePassword, Reader, InitInstance,
         Login, LoginLogout, LoginPost, LoginPosted, LoginUpdate, LoginUpdated,
         LoginOk1, LoginOk2, LoginOk3, LoginRetry1, LoginRetry2, Back, Back1,
         Back2, ExitThread, mainVars
    <3>2. CASE Restart \/ RequestCrash \/ UNCHANGED vars
      BY <3>2 DEF Restart, RequestCrash, Die, Goto, vars, mainVars
    <3> QED BY <3>1, <3>2 DEF Next
  <2>2. Close
    BY <2>1 DEF MainNext, Goto, Die, Initialize, NoWindowThread, InitializeFails,
       GetConnectedStatus, PingFailed, NetText, InitPing, InitCrash, InitLogout,
       InitPrint, Publish, PrintCrash, Ready, TakeCard, ConnectDb, QueryFound,
       QueryNotFound, Prompt, ShowControl, ShowEdit, ShowBack, ShowLabel, Arm,
       FailText, AutoLogout, AutoPost, AutoJudge, AutoOkUi, AutoOk1, AutoOk2, AutoFail,
       Wake, BackClicked, Proceed, PrintUserOn, Insert, Inserted, Welcome,
       InsertFail, FailUi, FailLog, Clear, ReopenClose, Reopen, Reopened
  <2> QED BY <2>2 DEF Close, AttemptInv
<1>2. AttemptInv /\ [Next]_vars => [fConnected' /\ ~fConnected => Recorded]_vars
  BY <1>1
<1> QED BY <1>2, AttemptAlways, PTL DEF Spec, LoginRecorded
=============================================================================
