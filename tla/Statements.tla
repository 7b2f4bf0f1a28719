----------------------------- MODULE Statements -----------------------------
(***************************************************************************)
(* The texts of one login and the buffers they are written to: the form    *)
(* posted to the gateway, what MachineInfo says of the machine's network   *)
(* cards, and the statements built from it.  A text is its length, a list  *)
(* of texts a sequence of lengths.  sprintf_s and strcpy_s end the process *)
(* when a text and its final 0 do not fit.                                 *)
(***************************************************************************)
EXTENDS Integers, Sequences

CONSTANTS
  AddressLengths,  \* bytes in a network card's hardware address
  IpLists,         \* texts of the IP addresses of one card
  MaxCards,        \* bound: network cards of the machine
  ComputerNames,   \* lengths of the machine's name
  UserNames,       \* lengths of a user's name
  NickNames,       \* and of the name shown
  Passwords,       \* lengths a user may type
  StoredPasswords, \* lengths the card table may hold
  MaxPlus,         \* bound: '+' characters in a password
  FormText         \* what BALLoginDt has besides its three fields

\* A typed password has more than seven characters (CommandWindow.cpp 952), a
\* stored one is not empty (411); every card has a text for its address,
\* "0.0.0.0" if it has none.
ASSUME StatementsAssumption ==
  /\ AddressLengths \subseteq Nat
  /\ IpLists \subseteq Seq(7 .. 15) \ {<< >>}
  /\ {MaxCards, MaxPlus, FormText} \subseteq Nat
  /\ ComputerNames \subseteq 1 .. 15
  /\ UserNames \cup NickNames \subseteq Nat
  /\ Passwords \subseteq 8 .. 1023
  /\ StoredPasswords \subseteq Nat \ {0}

VARIABLES
  at,        \* the next thing that is done; "ended" when the process is
  flow,      \* "init" publishes the machine as free, "unknown" refuses a card,
             \* "known" has a stored password, "prompt" asks for one
  cards,     \* what GetAdaptersInfo lists
  machine,   \* the machine's name
  names,     \* the user's name and nickname
  getUpw,    \* what the user typed, in "known" what is stored
  strUserPW, \* its escaped form
  plus,      \* '+' characters in strUserPW
  k,         \* pIpAdapterInfo: the cards that have been read
  strMAC,    \* the hardware addresses, "/" being a text of length 1
  strIP,     \* the IP addresses
  fields     \* what strtok finds: time, name, IP, MAC

machineVars == <<flow, cards, machine, names>>
formVars == <<getUpw, strUserPW, plus>>
infoVars == <<k, strMAC, strIP, fields>>
vars == <<at, machineVars, formVars, infoVars>>

\* The length of the string after each of the texts has been appended to it.
Sums(texts) ==
  LET sum[i \in 0 .. Len(texts)] == IF i = 0 THEN 0 ELSE sum[i - 1] + texts[i]
  IN  sum
Total(texts) == Sums(texts)[Len(texts)]
Fits(length, size) == length < size
AfterText(length, size, next) == IF Fits(length, size) THEN next ELSE "ended"

Separator == 1
CardNumber == 32
Time == 19
NoIpText == 10    \* "not found" for the IP addresses, in GBK
NoMacText == 11   \* the same for the hardware addresses

Init ==
  /\ \/ /\ flow \in {"init", "unknown"} /\ at = "cards"
        /\ getUpw = 0 /\ plus = 0
     \/ /\ flow = "known" /\ at = "stored"
        /\ getUpw \in StoredPasswords /\ plus = 0
     \/ /\ flow = "prompt" /\ at = "replace"
        /\ getUpw \in Passwords /\ plus \in 0 .. MaxPlus
  /\ cards \in UNION {[1 .. n -> [AddressLength : AddressLengths, ips : IpLists]] :
                      n \in 0 .. MaxCards}
  /\ machine \in ComputerNames
  /\ names \in UserNames \X NickNames
  /\ strUserPW = getUpw
  /\ k = 0
  /\ strMAC = << >>
  /\ strIP = << >>
  /\ fields = << >>
-----------------------------------------------------------------------------
\* What the form posted to the gateway has; the password is in it twice.
Form(pw) == FormText + names[1] + 2 * pw

\* chhttpPOST has 1000 bytes.  A stored password is posted as it is; one that is
\* refused is followed by the prompt, whose texts are those of "prompt".
PostStored ==
  /\ at = "stored"
  /\ at' = AfterText(Form(getUpw), 1000, "cards")
  /\ UNCHANGED <<machineVars, formVars, infoVars>>

(***************************************************************************)
(* The Login handler: every '+' becomes "%2b", the form is filled in, and  *)
(* the accepted password is stored as it was typed.                        *)
(***************************************************************************)
\* A variant of Replace whose replacement has a '+' of its own.
Replace_Again ==
  /\ at = "replace" /\ plus > 0
  /\ plus' = plus
  /\ strUserPW' = strUserPW + 2
  /\ UNCHANGED <<at, machineVars, getUpw, infoVars>>

Replace ==
  /\ at = "replace" /\ plus > 0
  /\ plus' = plus - 1
  /\ strUserPW' = strUserPW + 2
  /\ UNCHANGED <<at, machineVars, getUpw, infoVars>>

Post ==
  /\ at = "replace" /\ plus = 0
  /\ at' = AfterText(Form(strUserPW), 1000, "update")
  /\ UNCHANGED <<machineVars, formVars, infoVars>>

UpdateText == 68 + getUpw + CardNumber

user_update ==
  /\ at = "update"
  /\ at' = AfterText(UpdateText, 255, "cards")
  /\ UNCHANGED <<machineVars, formVars, infoVars>>
-----------------------------------------------------------------------------
(***************************************************************************)
(* MachineInfo.  A "/" goes in front of a card's texts if what there is    *)
(* has more than ten characters.                                           *)
(***************************************************************************)
Separated(texts) == IF Total(texts) > 10 THEN Append(texts, Separator) ELSE texts

\* "XX-" for every byte of the address but the last; nothing without a byte.
MacText(card) ==
  IF card.AddressLength = 0 THEN << >> ELSE <<3 * card.AddressLength - 1>>

\* A variant of NextCard that looks at the IP addresses for both separators.
NextCard_OneTest ==
  /\ at = "cards" /\ k < Len(cards)
  /\ k' = k + 1
  /\ strMAC' = (IF Total(strIP) > 10 THEN Append(strMAC, Separator) ELSE strMAC)
                 \o MacText(cards[k'])
  /\ strIP' = Separated(strIP) \o cards[k'].ips
  /\ UNCHANGED <<at, machineVars, formVars, fields>>

NextCard ==
  /\ at = "cards" /\ k < Len(cards)
  /\ k' = k + 1
  /\ strMAC' = Separated(strMAC) \o MacText(cards[k'])
  /\ strIP' = Separated(strIP) \o cards[k'].ips
  /\ UNCHANGED <<at, machineVars, formVars, fields>>

\* A variant of Assembled without the replacements.
Assembled_MayBeEmpty == <<Time, machine, Total(strIP), Total(strMAC)>>

\* The four fields in the order of the text, a replacement for an empty one.
Assembled ==
  <<Time, machine,
    IF Total(strIP) = 0 THEN NoIpText ELSE Total(strIP),
    IF Total(strMAC) = 0 THEN NoMacText ELSE Total(strMAC)>>

\* What strtok finds, call by call: it passes over empty texts.
strtok(texts) ==
  LET found[i \in 0 .. Len(texts)] ==
        IF i = 0 THEN << >>
        ELSE IF texts[i] = 0 THEN found[i - 1]
        ELSE Append(found[i - 1], texts[i])
  IN  found[Len(texts)]

\* The text is copied to 250 bytes and split.
MachineInfo ==
  /\ at = "cards" /\ k = Len(cards)
  /\ fields' = strtok(Assembled)
  /\ at' = AfterText(Total(Assembled) + 3, 250,
                     IF flow = "unknown" THEN "refuse" ELSE "print")
  /\ UNCHANGED <<machineVars, formVars, k, strMAC, strIP>>
-----------------------------------------------------------------------------
\* The texts of the statements: their own characters and the fields'.
InfoText == Total(fields)
Names == names[1] + names[2]

PrintText(exists) ==
  IF flow = "init"
  THEN IF exists THEN 64 + fields[1] + fields[4] + 3 ELSE 96 + InfoText + 3
  ELSE (IF exists THEN 143 ELSE 147) + InfoText + CardNumber + Names + 2

\* user_Print looks for the machine's row and updates it or inserts one.
user_Print(exists) ==
  /\ at = "print"
  /\ at' = IF ~Fits(43 + fields[4], 500) THEN "ended"
           ELSE AfterText(PrintText(exists), 500,
                          IF flow = "init" THEN "done" ELSE "insert")
  /\ UNCHANGED <<machineVars, formVars, infoVars>>

AttendanceText == 122 + CardNumber + Names + InfoText
FailureText == 98 + CardNumber + InfoText

\* A variant of user_insert that copies to 250 bytes.
user_insert_Narrow ==
  /\ \/ at = "insert" /\ at' = AfterText(AttendanceText, 250, "done")
     \/ at = "refuse" /\ at' = AfterText(FailureText, 250, "done")
  /\ UNCHANGED <<machineVars, formVars, infoVars>>

\* user_insert copies its caller's strSQL, of 500 bytes, to 255.
user_insert ==
  /\ \/ at = "insert" /\ at' = AfterText(AttendanceText, 255, "done")
     \/ at = "refuse" /\ at' = AfterText(FailureText, 255, "done")
  /\ UNCHANGED <<machineVars, formVars, infoVars>>

Next ==
  \/ PostStored \/ Replace \/ Post \/ user_update
  \/ NextCard \/ MachineInfo
  \/ \E exists \in BOOLEAN : user_Print(exists)
  \/ user_insert

Spec == Init /\ [][Next]_vars
-----------------------------------------------------------------------------
\* The variables keep their types; the escaped password grows by two characters
\* for each '+' it had (CommandWindow.cpp 966-972), so the replacing ends.
TypeOK ==
  /\ at \in {"stored", "replace", "update", "cards", "print", "insert", "refuse",
             "done", "ended"}
  /\ flow \in {"init", "prompt", "known", "unknown"}
  /\ plus \in 0 .. MaxPlus
  /\ strUserPW \in getUpw .. getUpw + 2 * (MaxPlus - plus)
  /\ k \in 0 .. Len(cards)
  /\ {strMAC, strIP, fields} \subseteq Seq(Nat \ {0})

(***************************************************************************)
(* The hardware addresses, by which the machine's row in PrintUser is      *)
(* found, are told apart by "/", whatever IP addresses the cards have      *)
(* (MachineInfo looks at the length of what there is, not at the card      *)
(* before).                                                                *)
(***************************************************************************)
MacsApart ==
  \A i \in 1 .. Len(strMAC) - 1 : Separator \in {strMAC[i], strMAC[i + 1]}

\* The hardware it holds for: an address of less than four bytes has a text of
\* ten characters or fewer (an Ethernet card's has six).
LongAddresses == AddressLengths \cap (1 .. 3) = {}

(***************************************************************************)
(* Every caller of strtok finds the four fields in their places: none is   *)
(* empty, however few cards and addresses the machine has, so that no      *)
(* statement is given a NULL or a neighbour's text.                        *)
(***************************************************************************)
FieldsInPlace ==
  fields # << >> =>
    /\ Len(fields) = 4
    /\ fields[1] = Time /\ fields[2] = machine
    /\ cards # << >> => fields[3] = Total(strIP)
    /\ strMAC # << >> => fields[4] = Total(strMAC)

\* A machine with one card of one address, names and a password of usual
\* length, and a form that leaves room for the escaped password.
Ordinary ==
  /\ Len(cards) <= 1
  /\ \A i \in DOMAIN cards : cards[i].AddressLength <= 6 /\ Len(cards[i].ips) = 1
  /\ Names <= 34
  /\ getUpw <= 154
  /\ FormText + names[1] + 2 * (getUpw + 2 * MaxPlus) < 1000

(***************************************************************************)
(* Nothing ends the process on an ordinary machine.  The narrowest place   *)
(* is user_insert's query[255]: 34 bytes are left for the two names, and   *)
(* none once a second card has added its addresses.                        *)
(***************************************************************************)
OrdinaryNeverEnds == Ordinary => at # "ended"
=============================================================================
