----------------------------- MODULE Attendance -----------------------------
(***************************************************************************)
(* What the login with a card promises the office that reads the           *)
(* attendance tables, without threads, windows, sessions or connections.   *)
(* A card is asked about, at most one row is written for it, and the       *)
(* desktop is reached only over a row that the server has confirmed.  The  *)
(* login may be given up, or the machine restarted, at any point.          *)
(***************************************************************************)
EXTENDS Naturals, Sequences

CONSTANTS
  Cards,   \* the cards that can be asked about
  Known,   \* those with a stored password
  Stored,  \* what can be stored as a password
  NoCard   \* nobody's card

VARIABLES
  stage,       \* "away", "asked", "recorded", "spent", "connected"
  card,        \* the card asked about
  password,    \* known card -> stored password
  loginTable,  \* the cards of the successful logins
  loginFTable  \* the cards of the failed ones

vars == <<stage, card, password, loginTable, loginFTable>>

Stages == {"away", "asked", "recorded", "spent", "connected"}

Init ==
  /\ stage = "away"
  /\ card = NoCard
  /\ password \in [Known -> Stored]
  /\ loginTable = << >>
  /\ loginFTable = << >>

\* A card is read and asked about.
Ask(c) ==
  /\ stage = "away"
  /\ stage' = "asked"
  /\ card' = c
  /\ UNCHANGED <<password, loginTable, loginFTable>>

\* A password is stored for the card asked about, and for no other.
Enrol(pw) ==
  /\ stage = "asked"
  /\ password' = [password EXCEPT ![card] = pw]
  /\ UNCHANGED <<stage, card, loginTable, loginFTable>>

\* The row is written and confirmed; or the attempt is spent, whether the row
\* was written or not.
Record ==
  /\ stage = "asked"
  /\ \/ stage' = "recorded" /\ loginTable' = Append(loginTable, card)
     \/ stage' = "spent" /\ loginTable' \in {loginTable, Append(loginTable, card)}
  /\ UNCHANGED <<card, password, loginFTable>>

\* A failed attempt leaves at most one row, of this card or an earlier one.
Refuse ==
  /\ stage = "asked"
  /\ stage' = "spent"
  /\ \/ UNCHANGED loginFTable
     \/ \E c \in Cards \cup {NoCard} : loginFTable' = Append(loginFTable, c)
  /\ UNCHANGED <<card, password, loginTable>>

Connect ==
  /\ stage = "recorded"
  /\ stage' = "connected"
  /\ UNCHANGED <<card, password, loginTable, loginFTable>>

\* A spent attempt is over, or any attempt is given up, or the machine stops.
Leave ==
  /\ stage' = "away"
  /\ card' = NoCard
  /\ UNCHANGED <<password, loginTable, loginFTable>>

Next ==
  \/ \E c \in Cards : Ask(c)
  \/ \E pw \in Stored : Enrol(pw)
  \/ Record \/ Refuse \/ Connect \/ Leave

Spec == Init /\ [][Next]_vars
-----------------------------------------------------------------------------
(***************************************************************************)
(* What the office relies on: a confirmed or connected login is the last   *)
(* row of the attendance table.                                            *)
(***************************************************************************)
ConnectedIsRecorded ==
  stage \in {"recorded", "connected"} =>
    loginTable # << >> /\ loginTable[Len(loginTable)] = card

(***************************************************************************)
(* Rows are never changed or withdrawn, and an attempt that has written    *)
(* one writes no other.                                                    *)
(***************************************************************************)
RowsOfAttempt ==
  /\ loginTable' # loginTable =>
       /\ stage = "asked" /\ stage' # "asked"
       /\ loginTable' = Append(loginTable, card) /\ loginFTable' = loginFTable
  /\ loginFTable' # loginFTable =>
       /\ stage = "asked" /\ stage' # "asked"
       /\ Len(loginFTable') = Len(loginFTable) + 1

OneRowPerAttempt == [][RowsOfAttempt]_vars
=============================================================================
