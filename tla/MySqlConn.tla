------------------------------ MODULE MySqlConn ------------------------------
(***************************************************************************)
(* MySqlConn.cpp: the one connection object DbTconn and the four tables it *)
(* touches.  A statement may fail, and it may be carried out by the server *)
(* and still be reported as failed, when the reply is lost; the caller     *)
(* cannot tell the two apart.  Every operator is one method: its primed    *)
(* variables are all of dbVars.                                            *)
(***************************************************************************)
EXTENDS Domain

CONSTANT UBOutcomes  \* what user_Print may do with its uninitialised result

\* The three things the build can do with a garbage MYSQL_RES pointer.
ASSUME UBAssumption == UBOutcomes \subseteq {"crash", "update", "insert"}

VARIABLES
  conn,          \* m_sqlCon is connected
  GetCarNumber,  \* the card number the object last looked up
  CarTable,      \* known card -> stored password
  loginTable,    \* the cards of the successful logins, in order
  loginFTable,   \* the cards of the failed ones, in order
  PrintUser      \* the rows of this machine's MAC address

dbVars == <<conn, GetCarNumber, CarTable, loginTable, loginFTable, PrintUser>>

\* A row of PrintUser: whose card prints on this machine, and whether it may.
PrintRow == [PrintMark : {"on", "off"}, CarNumber : CardString]

\* How one statement can end: reported success implies it was applied.
Outcome ==
  {o \in [applied : BOOLEAN, ok : BOOLEAN] :
     (o.ok => o.applied) /\ (o.applied => conn)}

DbTypeOK ==
  /\ conn \in BOOLEAN
  /\ GetCarNumber \in CardString
  /\ CarTable \in [Known -> PwString]
  /\ loginTable \in Seq(CardString)
  /\ loginFTable \in Seq(CardString)
  /\ PrintUser \in Seq(PrintRow)

DbInit ==
  /\ conn = FALSE
  /\ GetCarNumber = NoCard
  /\ CarTable \in [Known -> PwString]
  /\ loginTable = << >>
  /\ loginFTable = << >>
  /\ PrintUser \in {<< >>} \cup {<<r>> : r \in PrintRow}

(***************************************************************************)
(* initConnection followed by info_query, as both callers do: ok is        *)
(* info_query's result, which overwrites initConnection's.                 *)
(***************************************************************************)
Connect(ok) ==
  /\ conn' \in BOOLEAN
  /\ ok => conn'
  /\ UNCHANGED <<GetCarNumber, CarTable, loginTable, loginFTable, PrintUser>>

(***************************************************************************)
(* user_query: a failed select leaves no result set, and then              *)
(* GetCarNumber keeps the card of an earlier call.                         *)
(***************************************************************************)
user_query(card, answer) ==
  /\ \/ answer = "error" /\ GetCarNumber' = GetCarNumber
     \/ /\ conn
        /\ answer = IF card \in Known THEN "found" ELSE "unknown"
        /\ GetCarNumber' = card
  /\ UNCHANGED <<conn, CarTable, loginTable, loginFTable, PrintUser>>

\* user_insert with the loginTable statement of the caller.
InsertLogin(o) ==
  /\ loginTable' = IF o.applied THEN Append(loginTable, GetCarNumber)
                                ELSE loginTable
  /\ UNCHANGED <<conn, GetCarNumber, CarTable, loginFTable, PrintUser>>

\* user_insert with the loginFTable statement of the caller.
InsertFailure(o) ==
  /\ loginFTable' = IF o.applied THEN Append(loginFTable, GetCarNumber)
                                 ELSE loginFTable
  /\ UNCHANGED <<conn, GetCarNumber, CarTable, loginTable, PrintUser>>

\* A variant of RowFor that leaves the mark of a row that names a card.
RowFor_KeepsMark(card, old) ==
  IF card # NoCard THEN [PrintMark |-> "on", CarNumber |-> card]
  ELSE [PrintMark |-> IF old = NoCard THEN "off" ELSE "on", CarNumber |-> old]

\* The row user_Print writes for a card; an empty card turns the mark off and
\* leaves the card of the old row in place.
RowFor(card, old) ==
  IF card = NoCard THEN [PrintMark |-> "off", CarNumber |-> old]
                   ELSE [PrintMark |-> "on", CarNumber |-> card]

\* A variant of PrintPaths that does not look for the machine's row.
PrintPaths_NoLookup == (IF conn THEN {"insert"} ELSE {}) \cup UBOutcomes

(***************************************************************************)
(* The ways through user_Print: a successful select chooses update when    *)
(* there is exactly one row; after a failed one the row count is that of   *)
(* an uninitialised pointer.                                               *)
(***************************************************************************)
PrintPaths ==
  (IF conn THEN {IF Len(PrintUser) = 1 THEN "update" ELSE "insert"} ELSE {})
     \cup UBOutcomes

\* user_Print with GetCarNumber = card, on a path that does not crash.
user_Print(card, path, o) ==
  /\ PrintUser' =
       IF ~o.applied THEN PrintUser
       ELSE IF path = "update"
       THEN [i \in 1 .. Len(PrintUser) |-> RowFor(card, PrintUser[i].CarNumber)]
       ELSE Append(PrintUser, RowFor(card, NoCard))
  /\ GetCarNumber' = card
  /\ UNCHANGED <<conn, CarTable, loginTable, loginFTable>>

\* user_update: the password goes to the row of GetCarNumber, if there is one.
user_update(pw, o) ==
  /\ CarTable' = IF o.applied /\ GetCarNumber \in Known
                 THEN [CarTable EXCEPT ![GetCarNumber] = pw]
                 ELSE CarTable
  /\ UNCHANGED <<conn, GetCarNumber, loginTable, loginFTable, PrintUser>>

\* The object's own state in a new process; the tables are the server's.
DbReset ==
  /\ conn' = FALSE
  /\ GetCarNumber' = NoCard
  /\ UNCHANGED <<CarTable, loginTable, loginFTable, PrintUser>>
=============================================================================
