--------------------------- MODULE AttendanceProofs ---------------------------
(***************************************************************************)
(* The two threads implement the abstract login of Attendance, for every   *)
(* value of the constants; and what a swipe, and a statement whose reply   *)
(* is lost, may leave in the tables.                                       *)
(***************************************************************************)
EXTENDS CommandWindowProofs

\* From the moment main has taken a card to the row it leads to.
CardTaken == CardInHand \cup {"connect", "query", "failUi", "failLog"}

(***************************************************************************)
(* The card is still in Readinfo then: the one place that could clear it   *)
(* is a reader thread that starts, and none does while a card is there.    *)
(***************************************************************************)
TakenInv ==
  /\ reader = "starting" => Readinfo = NoCard
  /\ mpc \in {"boot", "reopen"} => reader = "none" /\ Readinfo = NoCard
  /\ mpc \in CardTaken => Readinfo # NoCard
  /\ fConnected => mpc \in {"welcome", "idle", "dead"}

\* A card in Readinfo that has not led to a row, and still may.
Pending ==
  IF /\ Readinfo # NoCard /\ ~fConnected
     /\ mpc \notin {"inserted", "close", "insertFail", "clear"}
  THEN 1 ELSE 0

\* OneRecordPerSwipe, with the row that is still to come.
SwipeInv == Len(loginTable) + Len(loginFTable) + Pending <= swipes
-----------------------------------------------------------------------------
\* Main takes a card that is there, and makes it go with the attempt's end.
LEMMA MainKeepsTaken ==
  ASSUME TakenInv, MainNext
  PROVE  TakenInv'
<1> USE DEF TakenInv, CardTaken, CardInHand, AtPrompt
<1>1. CASE Initialize \/ NoWindowThread \/ InitializeFails \/ InitCrash \/ PrintCrash
  BY <1>1 DEF Initialize, NoWindowThread, InitializeFails, InitCrash, PrintCrash,
     Die, InitCOM, SerialReset, Goto
<1>2. CASE GetConnectedStatus \/ PingFailed \/ NetText \/ InitPing \/ InitLogout
           \/ InitPrint \/ Ready \/ TakeCard \/ ConnectDb
  BY <1>2 DEF GetConnectedStatus, PingFailed, NetText, InitPing, InitLogout,
     InitPrint, Publish, Ready, TakeCard, ConnectDb, Goto, serialVars
<1>3. CASE QueryFound \/ QueryNotFound \/ Prompt \/ ShowEdit \/ ShowBack \/ ShowLabel
           \/ Arm \/ FailText \/ AutoLogout \/ AutoPost \/ AutoJudge \/ AutoOkUi
           \/ AutoOk1 \/ AutoOk2 \/ AutoFail \/ Wake
  BY <1>3 DEF QueryFound, QueryNotFound, Prompt, ShowControl, ShowEdit, ShowBack,
     ShowLabel, Arm, AfterArm, FailText, AutoLogout, AutoPost, AutoJudge, AutoOkUi,
     AutoOk1, AutoOk2, AutoFail, Wake, Goto, serialVars
<1>4. CASE BackClicked \/ Clear
  BY <1>4 DEF BackClicked, Clear
<1>5. CASE Proceed \/ PrintUserOn \/ Insert \/ Inserted \/ Welcome \/ InsertFail
           \/ FailLog
  BY <1>5 DEF Proceed, PrintUserOn, Publish, Insert, Inserted, Welcome, InsertFail,
     FailLog, Goto, serialVars
<1>6. CASE FailUi
  BY <1>6 DEF FailUi, ComWrite, Goto
<1>7. CASE Close \/ ReopenClose \/ Reopen \/ Reopened
  BY <1>7 DEF Close, ReopenClose, Reopen, Reopened, UninitCOM, InitCOM, Goto
<1> QED BY <1>1, <1>2, <1>3, <1>4, <1>5, <1>6, <1>7 DEF MainNext

\* Nobody else touches the port or main's place; a card only replaces a card.
LEMMA OthersKeepTaken ==
  ASSUME TakenInv, WindowNext \/ UserNext \/ RequestCrash \/ Reader \/ Restart
  PROVE  TakenInv'
<1> USE DEF TakenInv, CardTaken, CardInHand, AtPrompt
<1>1. CASE WindowNext \/ UserNext
  <2>1. UNCHANGED <<mpc, fConnected, reader, Readinfo>>
    BY <1>1 DEF WindowNext, UserNext, InitInstance, Login, LoginLogout, LoginPost,
       LoginPosted, LoginUpdate, LoginUpdated, LoginOk1, LoginOk2, LoginOk3,
       LoginRetry1, LoginRetry2, Back, Back1, Back2, ExitThread, Input,
       TypePassword, mainVars, serialVars
  <2> QED BY <2>1
<1>2. CASE Reader
  BY <1>2, DomainAssumption DEF Reader, OnRecvNext, OnRecvStart, OnRecvCard,
     OnRecvError, mainVars, DomainAssumption
<1>3. CASE RequestCrash \/ Restart
  BY <1>3 DEF RequestCrash, Die, Goto, Restart, SerialReset
<1> QED BY <1>1, <1>2, <1>3

\* The card of an attempt stays in Readinfo until the attempt is over.
LEMMA TakenAlways == Spec => []TakenInv
<1>1. Init => TakenInv
  BY DEF Init, SerialInit, TakenInv, CardTaken, CardInHand, AtPrompt
<1>2. TakenInv /\ [Next]_vars => TakenInv'
  <2> SUFFICES ASSUME TakenInv, [Next]_vars PROVE TakenInv'
    OBVIOUS
  <2>1. CASE UNCHANGED vars
    BY <2>1 DEF vars, mainVars, serialVars, TakenInv
  <2> QED BY <2>1, MainKeepsTaken, OthersKeepTaken DEF Next
<1> QED BY <1>1, <1>2, PTL DEF Spec
-----------------------------------------------------------------------------
\* What is pending is one card or none, and one only while a card is there.
LEMMA PendingType ==
  /\ Pending \in {0, 1}
  /\ Readinfo = NoCard => Pending = 0
BY DEF Pending

\* Steps that write no row and leave nothing more pending keep the sum.
LEMMA SumQuiet ==
  ASSUME TypeOK, SwipeInv, UNCHANGED <<loginTable, loginFTable, swipes>>,
         Pending' <= Pending
  PROVE  SwipeInv'
<1>1. /\ Len(loginTable) \in Nat /\ Len(loginFTable) \in Nat
      /\ swipes \in Nat
  BY SerialAssumption DEF TypeOK, DbTypeOK, SerialTypeOK, SerialAssumption
<1>2. Pending \in Nat /\ Pending' \in Nat
  BY PendingType DEF Pending
<1> QED BY <1>1, <1>2 DEF SwipeInv

\* An insert adds one row at most.
LEMMA InsertLength ==
  ASSUME DbTypeOK, NEW o \in Outcome, InsertLogin(o) \/ InsertFailure(o)
  PROVE  /\ Len(loginTable) \in Nat /\ Len(loginFTable) \in Nat
         /\ Len(loginTable') \in Nat /\ Len(loginFTable') \in Nat
         /\ Len(loginTable') + Len(loginFTable')
              <= Len(loginTable) + Len(loginFTable) + 1
BY DEF DbTypeOK, InsertLogin, InsertFailure

\* The two steps that write a row spend the card that was pending.
LEMMA RowsKeepSum ==
  ASSUME TypeOK, TakenInv, SwipeInv, Insert \/ FailLog
  PROVE  SwipeInv'
<1>1. PICK o \in Outcome : InsertLogin(o) \/ InsertFailure(o)
  BY DEF Insert, FailLog
<1>2. mpc \in {"insert", "failLog"} /\ mpc' \in {"inserted", "clear"}
  BY DEF Insert, FailLog, Goto
<1>3. UNCHANGED <<fConnected, Readinfo, swipes>>
  BY DEF Insert, FailLog, Goto, serialVars
<1>4. Pending = 1 /\ Pending' = 0
  BY <1>2, <1>3 DEF Pending, TakenInv, CardTaken, CardInHand, AtPrompt
<1>5. swipes \in Nat
  BY SerialAssumption DEF TypeOK, SerialTypeOK, SerialAssumption
<1> QED BY <1>1, <1>3, <1>4, <1>5, InsertLength DEF SwipeInv, TypeOK

\* Main's other steps; where an attempt ends, the card goes with it.
LEMMA MainKeepsSum ==
  ASSUME TypeOK, TakenInv, SwipeInv, MainNext
  PROVE  SwipeInv'
<1>1. CASE Insert \/ FailLog
  BY <1>1, RowsKeepSum
<1>2. CASE Initialize \/ NoWindowThread \/ InitializeFails \/ InitCrash \/ PrintCrash
           \/ BackClicked \/ Clear
  <2>1. UNCHANGED <<loginTable, loginFTable, swipes>> /\ Readinfo' = NoCard
    BY <1>2 DEF Initialize, NoWindowThread, InitializeFails, InitCrash, PrintCrash,
       BackClicked, Clear, Die, InitCOM, SerialReset, dbVars, TakenInv
  <2>2. Pending' = 0
    BY <2>1 DEF Pending
  <2> QED BY <2>1, <2>2, PendingType, SumQuiet
<1>3. CASE Close
  <2>1. UNCHANGED <<loginTable, loginFTable, swipes>> /\ fConnected'
    BY <1>3 DEF Close, UninitCOM
  <2>2. Pending' = 0
    BY <2>1 DEF Pending
  <2> QED BY <2>1, <2>2, PendingType, SumQuiet
<1>4. CASE \/ GetConnectedStatus \/ PingFailed \/ NetText \/ InitPing \/ InitLogout
           \/ InitPrint \/ Ready \/ TakeCard \/ ConnectDb \/ QueryFound \/ QueryNotFound
           \/ Prompt \/ ShowEdit \/ ShowBack \/ ShowLabel \/ Arm \/ FailText
           \/ AutoLogout \/ AutoPost \/ AutoJudge \/ AutoOkUi \/ AutoOk1 \/ AutoOk2
           \/ AutoFail \/ Wake \/ Proceed \/ PrintUserOn \/ Inserted \/ Welcome
           \/ InsertFail \/ FailUi \/ ReopenClose \/ Reopen \/ Reopened
  <2>1. UNCHANGED <<loginTable, loginFTable, swipes, Readinfo, fConnected>>
    BY <1>4 DEF GetConnectedStatus, PingFailed, NetText, InitPing, InitLogout,
       InitPrint, Publish, user_Print, Connect, Ready, TakeCard, ConnectDb,
       QueryFound, QueryNotFound, user_query, Prompt, ShowControl, ShowEdit,
       ShowBack, ShowLabel, Arm, FailText, AutoLogout, AutoPost, AutoJudge,
       AutoOkUi, AutoOk1, AutoOk2, AutoFail, Wake, Proceed, PrintUserOn, Inserted,
       Welcome, InsertFail, FailUi, ComWrite, ReopenClose, Reopen, Reopened,
       UninitCOM, InitCOM, Goto, dbVars, serialVars
  <2>2. \/ mpc \notin {"inserted", "close", "insertFail", "clear"}
        \/ mpc' \in {"inserted", "close", "insertFail", "clear"}
        \/ fConnected
    BY <1>4 DEF GetConnectedStatus, PingFailed, NetText, InitPing, InitLogout,
       InitPrint, Publish, Ready, TakeCard, ConnectDb, QueryFound, QueryNotFound,
       Prompt, ShowControl, ShowEdit, ShowBack, ShowLabel, Arm, AfterArm, FailText,
       AutoLogout, AutoPost, AutoJudge, AutoOkUi, AutoOk1, AutoOk2, AutoFail, Wake,
       Proceed, PrintUserOn, Inserted, Welcome, InsertFail, FailUi, ReopenClose,
       Reopen, Reopened, Goto
  <2>3. Pending' <= Pending
    BY <2>1, <2>2 DEF Pending
  <2> QED BY <2>1, <2>3, SumQuiet
<1> QED BY <1>1, <1>2, <1>3, <1>4 DEF MainNext

\* A swipe makes one card pending at most, and pays for it; the end of the
\* process drops what was pending.
LEMMA OthersKeepSum ==
  ASSUME TypeOK, SwipeInv, WindowNext \/ UserNext \/ RequestCrash \/ Reader \/ Restart
  PROVE  SwipeInv'
<1>1. CASE WindowNext \/ UserNext
  <2>1. UNCHANGED <<mpc, fConnected, Readinfo, loginTable, loginFTable, swipes>>
    BY <1>1 DEF WindowNext, UserNext, InitInstance, Login, LoginLogout, LoginPost,
       LoginPosted, LoginUpdate, user_update, LoginUpdated, LoginOk1, LoginOk2,
       LoginOk3, LoginRetry1, LoginRetry2, Back, Back1, Back2, ExitThread, Input,
       TypePassword, mainVars, serialVars, dbVars
  <2>2. Pending' = Pending
    BY <2>1 DEF Pending
  <2> QED BY <2>1, <2>2, PendingType, SumQuiet
<1>2. CASE Reader
  <2>1. UNCHANGED <<mpc, fConnected, loginTable, loginFTable>>
    BY <1>2 DEF Reader, mainVars, dbVars
  <2>2. CASE OnRecvStart
    <3>1. UNCHANGED swipes /\ Readinfo' = NoCard
      BY <2>2 DEF OnRecvStart
    <3>2. Pending' = 0
      BY <3>1 DEF Pending
    <3> QED BY <2>1, <3>1, <3>2, PendingType, SumQuiet
  <2>3. CASE OnRecvError
    <3>1. UNCHANGED <<swipes, Readinfo>>
      BY <2>3 DEF OnRecvError
    <3>2. Pending' = Pending
      BY <2>1, <3>1 DEF Pending
    <3> QED BY <2>1, <3>1, <3>2, PendingType, SumQuiet
  <2>4. CASE \E c \in Cards : OnRecvCard(c)
    <3>1. swipes' = swipes + 1
      BY <2>4 DEF OnRecvCard
    <3>2. /\ Len(loginTable) \in Nat /\ Len(loginFTable) \in Nat
          /\ swipes \in Nat
      BY SerialAssumption DEF TypeOK, DbTypeOK, SerialTypeOK, SerialAssumption
    <3>3. Pending \in {0, 1} /\ Pending' \in {0, 1}
      BY DEF Pending
    <3> QED BY <2>1, <3>1, <3>2, <3>3 DEF SwipeInv
  <2> QED BY <1>2, <2>2, <2>3, <2>4 DEF Reader, OnRecvNext
<1>3. CASE RequestCrash \/ Restart
  <2>1. UNCHANGED <<loginTable, loginFTable, swipes>> /\ Readinfo' = NoCard
    BY <1>3 DEF RequestCrash, Die, Restart, DbReset, SerialReset, dbVars
  <2>2. Pending' = 0
    BY <2>1 DEF Pending
  <2> QED BY <2>1, <2>2, PendingType, SumQuiet
<1> QED BY <1>1, <1>2, <1>3

(***************************************************************************)
(* One record per swipe: for any number of cards, swipes and restarts, any *)
(* user and any behaviour of network, database and gateway, the two login  *)
(* tables together never hold more rows than cards were swiped.            *)
(***************************************************************************)
THEOREM SwipesRecordedOnce == Spec => []OneRecordPerSwipe
<1>1. Init => SwipeInv
  <2> SUFFICES ASSUME Init PROVE SwipeInv
    OBVIOUS
  <2>1. Len(<< >>) = 0
    BY EmptySeq
  <2>2. /\ loginTable = << >> /\ loginFTable = << >> /\ swipes = 0
        /\ Readinfo = NoCard
    BY DEF Init, DbInit, SerialInit
  <2>3. Pending = 0
    BY <2>2, PendingType
  <2> QED BY <2>1, <2>2, <2>3 DEF SwipeInv
<1>2. TypeOK /\ TakenInv /\ SwipeInv /\ [Next]_vars => SwipeInv'
  <2> SUFFICES ASSUME TypeOK, TakenInv, SwipeInv, [Next]_vars PROVE SwipeInv'
    OBVIOUS
  <2>1. CASE UNCHANGED vars
    <3>1. /\ UNCHANGED <<loginTable, loginFTable, swipes>>
          /\ UNCHANGED <<mpc, fConnected, Readinfo>>
      BY <2>1 DEF vars, mainVars, dbVars, serialVars
    <3>2. Pending' = Pending
      BY <3>1 DEF Pending
    <3> QED BY <3>1, <3>2, PendingType, SumQuiet
  <2> QED BY <2>1, MainKeepsSum, OthersKeepSum DEF Next
<1>3. TypeOK /\ SwipeInv => OneRecordPerSwipe
  <2> SUFFICES ASSUME TypeOK, SwipeInv PROVE OneRecordPerSwipe
    OBVIOUS
  <2>1. /\ Len(loginTable) \in Nat /\ Len(loginFTable) \in Nat /\ swipes \in Nat
    BY SerialAssumption DEF TypeOK, DbTypeOK, SerialTypeOK, SerialAssumption
  <2>2. Pending \in {0, 1}
    BY PendingType
  <2> QED BY <2>1, <2>2 DEF SwipeInv, OneRecordPerSwipe
<1> QED BY <1>1, <1>2, <1>3, TypeCorrect, TakenAlways, PTL DEF Spec
-----------------------------------------------------------------------------
\* The steps of main that write no row of PrintUser.
LEMMA MainLeavesPrintUser ==
  ASSUME MainNext, ~InitPrint, ~PrintUserOn
  PROVE  UNCHANGED PrintUser
BY DEF MainNext, Initialize, NoWindowThread, InitializeFails, GetConnectedStatus,
   PingFailed, NetText, InitPing, Connect, InitCrash, InitLogout, PrintCrash, Ready,
   TakeCard, ConnectDb, QueryFound, QueryNotFound, user_query, Prompt, ShowControl,
   ShowEdit, ShowBack, ShowLabel, Arm, FailText, AutoLogout, AutoPost,
   AutoJudge, AutoOkUi, AutoOk1, AutoOk2, AutoFail, Wake, BackClicked, Proceed,
   Insert, InsertLogin, Inserted, Close, Welcome, InsertFail, FailUi, FailLog,
   InsertFailure, Clear, ReopenClose, Reopen, Reopened, Die, dbVars

\* Neither do the others.
LEMMA OthersLeavePrintUser ==
  ASSUME WindowNext \/ UserNext \/ RequestCrash \/ Reader \/ Restart
  PROVE  UNCHANGED PrintUser
BY DEF WindowNext, UserNext, InitInstance, Login, LoginLogout, LoginPost,
   LoginPosted, LoginUpdate, user_update, LoginUpdated, LoginOk1, LoginOk2,
   LoginOk3, LoginRetry1, LoginRetry2, Back, Back1, Back2, ExitThread, Input,
   TypePassword, RequestCrash, Die, Reader, Restart, DbReset, dbVars

\* An update keeps the number of rows, and an insert is chosen on none only.
LEMMA PublishLength ==
  ASSUME TypeOK, OneRowPerMachine, "insert" \notin UBOutcomes,
         NEW c \in CardString, NEW path \in PrintPaths \ {"crash"},
         NEW o \in Outcome, user_Print(c, path, o)
  PROVE  OneRowPerMachine'
<1>1. PrintUser \in Seq(PrintRow) /\ Len(PrintUser) \in Nat
  BY DEF TypeOK, DbTypeOK
<1>2. CASE ~o.applied
  BY <1>2 DEF user_Print, OneRowPerMachine
<1>3. CASE o.applied /\ path = "update"
  <2> DEFINE new == [i \in 1 .. Len(PrintUser) |-> RowFor(c, PrintUser[i].CarNumber)]
  <2>1. Len(new) = Len(PrintUser)
    BY <1>1
  <2>2. PrintUser' = new
    BY <1>3 DEF user_Print
  <2> HIDE DEF new
  <2> QED BY <2>1, <2>2 DEF OneRowPerMachine
<1>4. CASE o.applied /\ path # "update"
  <2>1. Len(PrintUser) = 0
    <3>1. path \notin UBOutcomes
      BY <1>4, UBAssumption DEF UBAssumption
    <3>2. path \in IF conn THEN {IF Len(PrintUser) = 1 THEN "update" ELSE "insert"}
                           ELSE {}
      BY <3>1 DEF PrintPaths
    <3>3. Len(PrintUser) # 1
      BY <1>4, <3>2
    <3> DEFINE n == Len(PrintUser)
    <3>4. n # 1 /\ n <= 1 /\ n \in Nat
      BY <1>1, <3>3 DEF OneRowPerMachine
    <3> HIDE DEF n
    <3>5. n = 0
      BY <3>4
    <3> QED BY <3>5 DEF n
  <2>2. PrintUser' = Append(PrintUser, RowFor(c, NoCard))
    BY <1>4 DEF user_Print
  <2>3. RowFor(c, NoCard) \in PrintRow
    BY RowForType DEF CardString
  <2>4. Len(PrintUser') = Len(PrintUser) + 1
    BY <1>1, <2>2, <2>3
  <2> QED BY <2>1, <2>4 DEF OneRowPerMachine
<1> QED BY <1>2, <1>3, <1>4

(***************************************************************************)
(* One row per machine: whatever replies are lost and however often the    *)
(* process starts again, as long as the garbage result pointer of          *)
(* user_Print (MySqlConn.cpp 262-268) does not choose the insert.          *)
(***************************************************************************)
THEOREM MachineHasOneRow ==
  ASSUME "insert" \notin UBOutcomes
  PROVE  Spec => []OneRowPerMachine
<1>1. Init => OneRowPerMachine
  <2> SUFFICES ASSUME Init PROVE OneRowPerMachine
    OBVIOUS
  <2>1. PrintUser = << >> \/ \E r \in PrintRow : PrintUser = <<r>>
    BY DEF Init, DbInit
  <2>2. CASE PrintUser = << >>
    BY <2>2, EmptySeq DEF OneRowPerMachine
  <2>3. CASE \E r \in PrintRow : PrintUser = <<r>>
    <3>1. Len(PrintUser) = 1
      BY <2>3
    <3> QED BY <3>1 DEF OneRowPerMachine
  <2> QED BY <2>1, <2>2, <2>3
<1>2. TypeOK /\ OneRowPerMachine /\ [Next]_vars => OneRowPerMachine'
  <2> SUFFICES ASSUME TypeOK, OneRowPerMachine, [Next]_vars
               PROVE  OneRowPerMachine'
    OBVIOUS
  <2>1. CASE InitPrint
    <3>1. NoCard \in CardString
      BY DEF CardString
    <3> QED BY <2>1, <3>1, PublishLength DEF InitPrint, Publish
  <2>2. CASE PrintUserOn
    <3>1. GetCarNumber \in CardString
      BY DEF TypeOK, DbTypeOK
    <3> QED BY <2>2, <3>1, PublishLength DEF PrintUserOn, Publish
  <2>3. CASE UNCHANGED PrintUser
    BY <2>3 DEF OneRowPerMachine
  <2>4. CASE UNCHANGED vars
    BY <2>3, <2>4 DEF vars, dbVars
  <2> QED BY <2>1, <2>2, <2>3, <2>4, MainLeavesPrintUser, OthersLeavePrintUser DEF
     Next
<1> QED BY <1>1, <1>2, TypeCorrect, PTL DEF Spec
-----------------------------------------------------------------------------
\* A publication of the empty card that is reported as done leaves every row off.
LEMMA PublishedOff ==
  ASSUME TypeOK, OneRowPerMachine, UBOutcomes \subseteq {"crash"},
         NEW path \in PrintPaths \ {"crash"}, NEW o \in Outcome, o.ok,
         user_Print(NoCard, path, o)
  PROVE  /\ PrintUser' # << >>
         /\ \A i \in 1 .. Len(PrintUser') : PrintUser'[i].PrintMark = "off"
<1> DEFINE n == Len(PrintUser)
<1>1. o.applied
  BY DEF Outcome
<1>2. path = IF n = 1 THEN "update" ELSE "insert"
  BY DEF PrintPaths
<1>3. PrintUser \in Seq(PrintRow) /\ n \in Nat /\ n <= 1
  BY DEF TypeOK, DbTypeOK, OneRowPerMachine
<1>4. \A old : RowFor(NoCard, old).PrintMark = "off"
  BY DEF RowFor
<1>5. CASE path = "update"
  <2> DEFINE new == [i \in 1 .. n |-> RowFor(NoCard, PrintUser[i].CarNumber)]
  <2>1. Len(new) = 1 /\ new # << >> /\ new[1].PrintMark = "off"
    BY <1>2, <1>3, <1>4, <1>5
  <2>2. PrintUser' = new
    BY <1>1, <1>5 DEF user_Print
  <2> HIDE DEF new
  <2>3. Len(PrintUser') = 1 /\ PrintUser' # << >> /\ PrintUser'[1].PrintMark = "off"
    BY <2>1, <2>2
  <2>4. \A i \in 1 .. 1 : i = 1
    OBVIOUS
  <2> QED BY <2>3, <2>4
<1>6. CASE path # "update"
  <2> DEFINE row == RowFor(NoCard, NoCard)
  <2>1. n = 0
    <3> HIDE DEF n
    <3> QED BY <1>2, <1>3, <1>6
  <2>2. PrintUser = << >>
    BY <1>3, <2>1, EmptySeq
  <2>3. PrintUser' = <<row>>
    BY <1>1, <1>6, <2>2 DEF user_Print
  <2>4. row.PrintMark = "off"
    BY <1>4
  <2> HIDE DEF row
  <2> QED BY <2>3, <2>4
<1> QED BY <1>5, <1>6

(***************************************************************************)
(* Off line after initialization: an initialization that believes it has   *)
(* published the machine as off line has, whatever an earlier process left *)
(* in the table, as long as the garbage result pointer of user_Print ends  *)
(* the process and Enter is pressed in the EDIT box only.                  *)
(***************************************************************************)
THEOREM InitializationPublishes ==
  ASSUME EnterOnlyInEdit, UBOutcomes \subseteq {"crash"}
  PROVE  Spec => []OfflineAfterInit
<1>1. Init => OfflineAfterInit
  BY DEF Init, OfflineAfterInit
<1>2. TypeOK /\ PromptInv /\ OneRowPerMachine /\ OfflineAfterInit /\ [Next]_vars
        => OfflineAfterInit'
  <2> SUFFICES ASSUME TypeOK, PromptInv, OneRowPerMachine, OfflineAfterInit,
                      [Next]_vars, mpc' = "ready", isOK'
               PROVE  OfflineAfterInit'
    BY DEF OfflineAfterInit
  <2>1. CASE InitPrint
    BY <2>1, PublishedOff DEF InitPrint, Publish, OfflineAfterInit
  <2>2. CASE MainNext /\ ~InitPrint
    <3>1. mpc' # "ready"
      BY <2>2 DEF MainNext, Initialize, NoWindowThread, InitializeFails,
         GetConnectedStatus, PingFailed, NetText, InitPing, InitCrash, InitLogout,
         PrintCrash, Ready, TakeCard, ConnectDb, QueryFound, QueryNotFound, Prompt,
         ShowControl, ShowEdit, ShowBack, ShowLabel, Arm, AfterArm, FailText,
         AutoLogout, AutoPost, AutoJudge, AutoOkUi, AutoOk1, AutoOk2, AutoFail,
         Wake, BackClicked, Proceed, PrintUserOn, Publish, Insert, Inserted, Close,
         Welcome, InsertFail, FailUi, FailLog, Clear, ReopenClose, Reopen, Reopened,
         Die, Goto
    <3> QED BY <3>1
  <2>3. CASE LoginUpdate
    <3>1. mpc' \in AtPrompt
      BY <2>3 DEF LoginUpdate, PromptInv, LoginPossible, LoginRunning,
                  LoginConversing, mainVars
    <3> QED BY <3>1 DEF AtPrompt
  <2>4. CASE (WindowNext /\ ~LoginUpdate) \/ UserNext \/ Reader \/ UNCHANGED vars
    <3>1. UNCHANGED <<mpc, isOK, PrintUser>>
      BY <2>4 DEF WindowNext, UserNext, InitInstance, Login, LoginLogout, LoginPost,
         LoginPosted, LoginUpdated, LoginOk1, LoginOk2, LoginOk3, LoginRetry1,
         LoginRetry2, Back, Back1, Back2, ExitThread, Input, TypePassword, Reader,
         vars, mainVars, flagVars, dbVars
    <3> QED BY <3>1 DEF OfflineAfterInit
  <2>5. CASE RequestCrash \/ Restart
    BY <2>5 DEF RequestCrash, Die, Goto, Restart
  <2> QED BY <2>1, <2>2, <2>3, <2>4, <2>5 DEF Next
<1>3. "insert" \notin UBOutcomes
  OBVIOUS
<1> QED BY <1>1, <1>2, <1>3, TypeCorrect, PromptAlways, MachineHasOneRow, PTL DEF Spec
-----------------------------------------------------------------------------
(***************************************************************************)
(* The refinement.  First the three shapes a step without a row can have.  *)
(***************************************************************************)
TablesStay == UNCHANGED <<CarTable, loginTable, loginFTable>>

\* An attempt that is over, given up or not begun.
LEMMA LeaveRefines ==
  ASSUME TablesStay, stage' = "away"
  PROVE  Log!Next
BY DEF TablesStay, Log!Next, Log!Leave, cardAsked

\* A step inside a stage.
LEMMA StayRefines ==
  ASSUME TablesStay, stage' = stage, attempt'.card = attempt.card
  PROVE  UNCHANGED Log!vars
<1>1. cardAsked' = cardAsked
  BY DEF cardAsked
<1> QED BY <1>1 DEF TablesStay, Log!vars

\* The stage depends on these alone.
LEMMA StageOf ==
  ASSUME UNCHANGED <<mpc, fConnected>>, UNCHANGED isOK \/ mpc # "inserted"
  PROVE  stage' = stage
BY DEF stage

\* Main before a card is in hand, and after it has been let go.
LEMMA AwayRefines ==
  ASSUME TakenInv,
         \/ Initialize \/ NoWindowThread \/ InitializeFails \/ GetConnectedStatus
         \/ PingFailed \/ NetText \/ InitPing \/ InitCrash \/ InitLogout
         \/ InitPrint \/ PrintCrash \/ Ready
         \/ TakeCard \/ ConnectDb \/ BackClicked \/ Clear \/ ReopenClose
         \/ Reopen \/ Reopened
  PROVE  Log!Next
<1>1. TablesStay
  BY DEF TablesStay, Initialize, NoWindowThread, InitializeFails,
     GetConnectedStatus, PingFailed, NetText, InitPing, Connect, InitCrash,
     InitLogout, InitPrint, Publish, user_Print, PrintCrash, Ready, TakeCard,
     ConnectDb, BackClicked, Clear, ReopenClose, Reopen, Reopened, Die, dbVars
<1>2. /\ mpc \notin {"welcome", "idle", "dead"} \/ ~fConnected
      /\ UNCHANGED fConnected
      /\ mpc' \in {"idle", "dead", "loop", "netText", "initLogout", "initPrint", "spin",
                   "ready", "connect", "query", "reopen", "reopened"}
  BY DEF Initialize, NoWindowThread, InitializeFails, GetConnectedStatus,
     PingFailed, NetText, InitPing, InitCrash, InitLogout, InitPrint, Publish,
     PrintCrash, Ready, TakeCard, ConnectDb, BackClicked, Clear, ReopenClose,
     Reopen, Reopened, Die, Goto
<1>3. ~fConnected'
  BY <1>2 DEF TakenInv
<1>4. stage' = "away"
  BY <1>2, <1>3 DEF stage, CardInHand, AtPrompt
<1> QED BY <1>1, <1>4, LeaveRefines

\* The look-up asks about the card in Readinfo.
LEMMA QueryRefines ==
  ASSUME TypeOK, TakenInv, QueryFound \/ QueryNotFound
  PROVE  Log!Next
<1>1. /\ mpc = "query" /\ ~fConnected /\ ~fConnected'
      /\ mpc' \in {"prompt", "autoLogout", "failUi"}
  BY DEF QueryFound, QueryNotFound, TakenInv
<1>2. stage = "away" /\ stage' = "asked"
  BY <1>1 DEF stage, CardInHand, AtPrompt
<1>3. Readinfo \in Cards
  BY <1>1 DEF TypeOK, SerialTypeOK, CardString, TakenInv, CardTaken
<1>4. attempt'.card = Readinfo
  BY DEF QueryFound, QueryNotFound
<1>5. TablesStay
  BY DEF TablesStay, QueryFound, QueryNotFound, user_query
<1> QED BY <1>2, <1>3, <1>4, <1>5 DEF cardAsked, TablesStay, Log!Next, Log!Ask

\* Main with a card in hand, short of a row.
LEMMA AskedRefines ==
  ASSUME TypeOK, TakenInv,
         \/ Prompt \/ ShowEdit \/ ShowBack \/ ShowLabel \/ Arm \/ FailText
         \/ AutoLogout \/ AutoPost \/ AutoJudge \/ AutoOkUi \/ AutoOk1 \/ AutoOk2
         \/ AutoFail \/ Wake \/ Proceed \/ PrintUserOn
         \/ FailUi
  PROVE  Log!Next \/ UNCHANGED Log!vars
<1>1. TablesStay
  BY DEF TablesStay, Prompt, ShowControl, ShowEdit, ShowBack, ShowLabel, Arm,
     FailText, AutoLogout, AutoPost, AutoJudge, AutoOkUi,
     AutoOk1, AutoOk2, AutoFail, Wake, Proceed, PrintUserOn, Publish, user_Print,
     FailUi, dbVars
<1>2. /\ mpc \in CardInHand \cup {"failUi", "failLog"}
      /\ mpc' \in CardInHand \cup {"failUi", "failLog", "spin"}
      /\ UNCHANGED fConnected
  BY DEF CardInHand, AtPrompt, Prompt, ShowControl, ShowEdit, ShowBack, ShowLabel,
     Arm, AfterArm, FailText, AutoLogout, AutoPost, AutoJudge, AutoOkUi,
     AutoOk1, AutoOk2, AutoFail, Wake, Proceed, PrintUserOn, Publish, FailUi, Goto
<1>3. ~fConnected /\ ~fConnected'
  BY <1>2 DEF TakenInv, CardInHand, AtPrompt
<1>4. attempt'.card = attempt.card
  BY DEF Prompt, ShowControl, ShowEdit, ShowBack, ShowLabel, Arm, FailText,
     AutoLogout, AutoPost, AutoJudge, AutoOkUi, AutoOk1, AutoOk2, AutoFail, Wake,
     Proceed, PrintUserOn, Publish, FailUi, Goto, TypeOK, MainTypeOK
<1>5. CASE mpc' = "spin"
  <2>1. stage' = "away"
    BY <1>3, <1>5 DEF stage, CardInHand, AtPrompt
  <2> QED BY <1>1, <2>1, LeaveRefines
<1>6. CASE mpc' # "spin"
  <2>1. stage' = stage
    BY <1>2, <1>3, <1>6 DEF stage
  <2> QED BY <1>1, <1>4, <2>1, StayRefines
<1> QED BY <1>5, <1>6

\* The attendance insert: the row is the card's, because DbTconn still speaks
\* of it; isOK tells whether it is confirmed.
LEMMA InsertRefines ==
  ASSUME TypeOK, TakenInv, AttemptInv, Insert
  PROVE  Log!Next
<1>1. PICK o \in Outcome : InsertLogin(o) /\ isOK' = o.ok
  BY DEF Insert
<1>2. /\ mpc = "insert" /\ mpc' = "inserted"
      /\ UNCHANGED <<fConnected, attempt>>
  BY DEF Insert, Goto
<1>3. ~fConnected
  BY <1>2 DEF TakenInv
<1>4. GetCarNumber = attempt.card
  BY <1>2 DEF AttemptInv, CardInHand, AtPrompt
<1>5. stage = "asked" /\ stage' = (IF isOK' THEN "recorded" ELSE "spent")
  BY <1>2, <1>3 DEF stage, CardInHand, AtPrompt
<1>6. cardAsked = attempt.card /\ cardAsked' = attempt.card
  BY <1>2, <1>5 DEF cardAsked
<1>7. /\ loginTable' = IF o.applied THEN Append(loginTable, cardAsked) ELSE loginTable
      /\ UNCHANGED <<CarTable, loginFTable>>
  BY <1>1, <1>4, <1>6 DEF InsertLogin
<1>8. isOK' => o.applied
  BY <1>1 DEF Outcome
<1> QED BY <1>5, <1>6, <1>7, <1>8 DEF Log!Next, Log!Record

\* The failure row names the card DbTconn last looked up, whichever it is.
LEMMA FailLogRefines ==
  ASSUME TypeOK, TakenInv, FailLog
  PROVE  Log!Next
<1>1. PICK o \in Outcome : InsertFailure(o)
  BY DEF FailLog
<1>2. /\ mpc = "failLog" /\ mpc' = "clear"
      /\ UNCHANGED <<fConnected, attempt>>
  BY DEF FailLog, Goto
<1>3. ~fConnected
  BY <1>2 DEF TakenInv
<1>4. stage = "asked" /\ stage' = "spent"
  BY <1>2, <1>3 DEF stage, CardInHand, AtPrompt
<1>5. cardAsked' = cardAsked
  BY <1>2, <1>4 DEF cardAsked
<1>6. GetCarNumber \in Cards \cup {NoCard}
  BY DEF TypeOK, DbTypeOK, CardString
<1>7. /\ loginFTable' = loginFTable \/ loginFTable' = Append(loginFTable, GetCarNumber)
      /\ UNCHANGED <<CarTable, loginTable>>
  BY <1>1 DEF InsertFailure
<1> QED BY <1>4, <1>5, <1>6, <1>7 DEF Log!Next, Log!Refuse

\* Main after the row.
LEMMA RecordedRefines ==
  ASSUME TakenInv, Inserted \/ Close \/ Welcome \/ InsertFail
  PROVE  Log!Next \/ UNCHANGED Log!vars
<1>1. TablesStay
  BY DEF TablesStay, Inserted, Close, Welcome, InsertFail, dbVars
<1>2. attempt' = attempt
  BY DEF Inserted, Close, Welcome, InsertFail, Goto
<1>3. CASE Inserted \/ Welcome \/ InsertFail
  <2>1. \/ mpc = "inserted" /\ mpc' = IF isOK THEN "close" ELSE "insertFail"
        \/ mpc = "welcome" /\ mpc' = "idle"
        \/ mpc = "insertFail" /\ mpc' = "clear"
    BY <1>3 DEF Inserted, Welcome, InsertFail, Goto
  <2>2. UNCHANGED fConnected
    BY <1>3 DEF Inserted, Welcome, InsertFail, Goto
  <2>3. stage' = stage
    BY <2>1, <2>2 DEF stage, CardInHand, AtPrompt
  <2> QED BY <1>1, <1>2, <2>3, StayRefines
<1>4. CASE Close
  <2>1. mpc = "close" /\ ~fConnected /\ fConnected'
    BY <1>4 DEF Close, TakenInv
  <2>2. stage = "recorded" /\ stage' = "connected"
    BY <2>1 DEF stage, CardInHand, AtPrompt
  <2> QED BY <1>1, <1>2, <2>2 DEF cardAsked, TablesStay, Log!Next, Log!Connect
<1> QED BY <1>3, <1>4

\* The window thread stores a password only while the card is asked about.
LEMMA WindowRefines ==
  ASSUME TypeOK, TakenInv, PromptInv, AttemptInv, WindowNext
  PROVE  Log!Next \/ UNCHANGED Log!vars
<1>1. UNCHANGED <<mpc, fConnected>>
  BY DEF WindowNext, InitInstance, Login, LoginLogout, LoginPost, LoginPosted,
     LoginUpdate, LoginUpdated, LoginOk1, LoginOk2, LoginOk3, LoginRetry1,
     LoginRetry2, Back, Back1, Back2, ExitThread, mainVars
<1>2. CASE LoginUpdate
  <2>1. PICK o \in Outcome : user_update(getUpw, o)
    BY <1>2 DEF LoginUpdate
  <2>2. mpc \in AtPrompt /\ UNCHANGED attempt
    BY <1>2 DEF LoginUpdate, PromptInv, LoginPossible, LoginRunning,
                LoginConversing, mainVars
  <2>3. ~fConnected /\ GetCarNumber = attempt.card
    BY <2>2 DEF TakenInv, AttemptInv, CardInHand, AtPrompt
  <2>4. stage = "asked" /\ stage' = "asked"
    BY <1>1, <2>2, <2>3 DEF stage, CardInHand, AtPrompt
  <2>5. cardAsked = attempt.card /\ cardAsked' = attempt.card
    BY <2>2, <2>4 DEF cardAsked
  <2>6. getUpw \in PwString
    BY DEF TypeOK, WinTypeOK
  <2>7. /\ \/ CarTable' = [CarTable EXCEPT ![cardAsked] = getUpw]
           \/ CarTable' = CarTable
        /\ UNCHANGED <<loginTable, loginFTable>>
    BY <2>1, <2>3, <2>5 DEF user_update
  <2> QED BY <2>4, <2>5, <2>6, <2>7 DEF Log!Next, Log!Enrol, Log!vars
<1>3. CASE LoginPost
  <2>1. attempt'.card = attempt.card /\ UNCHANGED isOK /\ TablesStay
    BY <1>3 DEF LoginPost, flagVars, dbVars, TablesStay, TypeOK, MainTypeOK
  <2> QED BY <1>1, <2>1, StageOf, StayRefines
<1>4. CASE ~LoginUpdate /\ ~LoginPost
  <2>1. UNCHANGED <<attempt, isOK>> /\ TablesStay
    BY <1>4 DEF WindowNext, InitInstance, Login, LoginLogout, LoginPosted,
       LoginUpdated, LoginOk1, LoginOk2, LoginOk3, LoginRetry1, LoginRetry2, Back,
       Back1, Back2, ExitThread, mainVars, flagVars, dbVars, TablesStay
  <2> QED BY <1>1, <2>1, StageOf, StayRefines
<1> QED BY <1>2, <1>3, <1>4

\* The user, the reader, a crash and the machine leave the tables alone.
LEMMA EnvironmentRefines ==
  ASSUME UserNext \/ RequestCrash \/ Reader \/ Restart
  PROVE  Log!Next \/ UNCHANGED Log!vars
<1>1. CASE UserNext \/ Reader
  <2>1. UNCHANGED <<mpc, fConnected, isOK, attempt>> /\ TablesStay
    BY <1>1 DEF UserNext, Input, TypePassword, Reader, mainVars, flagVars, dbVars,
       TablesStay
  <2> QED BY <2>1, StageOf, StayRefines
<1>2. CASE Restart
  <2>1. stage' = "away"
    BY <1>2 DEF Restart, stage, CardInHand, AtPrompt
  <2>2. TablesStay
    BY <1>2 DEF Restart, DbReset, TablesStay
  <2> QED BY <2>1, <2>2, LeaveRefines
<1>3. CASE RequestCrash
  <2>1. /\ mpc' = "dead" /\ UNCHANGED <<fConnected, attempt>>
        /\ TablesStay
    BY <1>3 DEF RequestCrash, Die, Goto, dbVars, TablesStay
  <2>2. stage' = IF fConnected THEN stage ELSE "away"
    BY <2>1 DEF stage, CardInHand, AtPrompt
  <2> QED BY <2>1, <2>2, LeaveRefines, StayRefines
<1> QED BY <1>1, <1>2, <1>3

(***************************************************************************)
(* The refinement: for every value of the constants, any behaviour of the  *)
(* two threads, the reader, the network, the database and the machine is a *)
(* behaviour of the abstract login, as long as Enter is pressed in the     *)
(* EDIT box only.                                                          *)
(***************************************************************************)
THEOREM LoginImplementsAttendance ==
  ASSUME EnterOnlyInEdit
  PROVE  Spec => ImplementsAttendance
<1>1. Init => Log!Init
  BY DEF Init, DbInit, Log!Init, stage, cardAsked, CardInHand, AtPrompt
<1>2. TypeOK /\ TakenInv /\ PromptInv /\ AttemptInv /\ [Next]_vars
        => [Log!Next]_Log!vars
  <2> SUFFICES ASSUME TypeOK, TakenInv, PromptInv, AttemptInv, [Next]_vars
               PROVE  Log!Next \/ UNCHANGED Log!vars
    OBVIOUS
  <2>1. CASE MainNext
    BY <2>1, AwayRefines, QueryRefines, AskedRefines, InsertRefines, FailLogRefines,
       RecordedRefines DEF MainNext
  <2>2. CASE WindowNext \/ UserNext \/ RequestCrash \/ Reader \/ Restart
    BY <2>2, WindowRefines, EnvironmentRefines
  <2>3. CASE UNCHANGED vars
    <3>1. UNCHANGED <<mpc, fConnected, isOK, attempt>> /\ TablesStay
      BY <2>3 DEF vars, mainVars, flagVars, dbVars, TablesStay
    <3> QED BY <3>1, StageOf, StayRefines
  <2> QED BY <2>1, <2>2, <2>3 DEF Next
<1> QED BY <1>1, <1>2, TypeCorrect, TakenAlways, PromptAlways, AttemptAlways, PTL
        DEF Spec, ImplementsAttendance, Log!Spec

(***************************************************************************)
(* What the office relies on follows from the abstract login alone: a      *)
(* confirmed or connected login is the last row of the attendance table.   *)
(* It holds of the two threads because they implement it.                  *)
(***************************************************************************)
THEOREM OfficeSeesEveryLogin ==
  ASSUME EnterOnlyInEdit
  PROVE  Spec => []Log!ConnectedIsRecorded
<1>1. Log!Init => Log!ConnectedIsRecorded
  BY DEF Log!Init, Log!ConnectedIsRecorded
<1>2. TypeOK /\ Log!ConnectedIsRecorded /\ [Log!Next]_Log!vars
        => Log!ConnectedIsRecorded'
  <2> SUFFICES ASSUME TypeOK, Log!ConnectedIsRecorded, [Log!Next]_Log!vars
               PROVE  Log!ConnectedIsRecorded'
    OBVIOUS
  <2>1. CASE Log!Record
    <3>1. loginTable \in Seq(CardString)
      BY DEF TypeOK, DbTypeOK
    <3>2. /\ Append(loginTable, cardAsked) # << >>
          /\ Append(loginTable, cardAsked)[Len(Append(loginTable, cardAsked))] = cardAsked
      BY <3>1
    <3> QED BY <2>1, <3>2 DEF Log!Record, Log!ConnectedIsRecorded
  <2>2. CASE \/ \E c \in Cards : Log!Ask(c)
             \/ Log!Refuse \/ Log!Leave
    BY <2>2 DEF Log!Ask, Log!Refuse, Log!Leave, Log!ConnectedIsRecorded
  <2>3. CASE \/ \E pw \in PwString : Log!Enrol(pw)
             \/ Log!Connect \/ UNCHANGED Log!vars
    BY <2>3 DEF Log!Enrol, Log!Connect, Log!vars, Log!ConnectedIsRecorded
  <2> QED BY <2>1, <2>2, <2>3 DEF Log!Next
<1> QED BY <1>1, <1>2, TypeCorrect, LoginImplementsAttendance, PTL
        DEF ImplementsAttendance, Log!Spec

(***************************************************************************)
(* Rows are never changed or withdrawn, and the step that writes one ends  *)
(* the asking: no attempt writes two.                                      *)
(***************************************************************************)
THEOREM AttemptsWriteOneRow ==
  ASSUME EnterOnlyInEdit
  PROVE  Spec => Log!OneRowPerAttempt
<1>1. TypeOK /\ [Log!Next]_Log!vars => [Log!RowsOfAttempt]_Log!vars
  <2> SUFFICES ASSUME TypeOK, Log!Next PROVE Log!RowsOfAttempt
    OBVIOUS
  <2>1. CASE Log!Record
    BY <2>1 DEF Log!Record, Log!RowsOfAttempt
  <2>2. CASE Log!Refuse
    <3>1. \A c : Len(Append(loginFTable, c)) = Len(loginFTable) + 1
      BY DEF TypeOK, DbTypeOK
    <3> QED BY <2>2, <3>1 DEF Log!Refuse, Log!RowsOfAttempt
  <2>3. CASE UNCHANGED <<loginTable, loginFTable>>
    BY <2>3 DEF Log!RowsOfAttempt
  <2> QED BY <2>1, <2>2, <2>3 DEF Log!Next, Log!Ask, Log!Enrol, Log!Connect, Log!Leave
<1> QED BY <1>1, TypeCorrect, LoginImplementsAttendance, PTL
        DEF ImplementsAttendance, Log!Spec, Log!OneRowPerAttempt
=============================================================================
