----------------------------- MODULE SerialLine -----------------------------
(***************************************************************************)
(* What the authentication loop sees of ComAsy.cpp: the port, the reader   *)
(* thread behind it, and the globals they share.  A card is delivered      *)
(* whole; how OnRecv assembles it from bytes is left out here.             *)
(***************************************************************************)
EXTENDS Domain

CONSTANTS
  ReadyLen,  \* sizeof(chData): length of the request sent to the reader
  MaxSwipes  \* bound: cards delivered in a behaviour

\* A request has at least one byte, and the bound is a number.
ASSUME SerialAssumption == ReadyLen \in Nat \ {0} /\ MaxSwipes \in Nat

VARIABLES
  portOpen,   \* m_hCom holds a handle
  reader,     \* the OnRecv thread: "none", "starting", "running"
  isopenCOM,  \* 1 when the reader has seen an error
  Readinfo,   \* the card waiting to be processed, NoCard when ""
  len,        \* the global passed by reference to ComWrite
  swipes      \* cards delivered so far

serialVars == <<portOpen, reader, isopenCOM, Readinfo, len, swipes>>

SerialTypeOK ==
  /\ portOpen \in BOOLEAN
  /\ reader \in {"none", "starting", "running"}
  /\ isopenCOM \in {0, 1}
  /\ Readinfo \in CardString
  /\ len \in 0 .. ReadyLen
  /\ swipes \in 0 .. MaxSwipes

SerialInit ==
  /\ portOpen = FALSE
  /\ reader = "none"
  /\ isopenCOM = 0
  /\ Readinfo = NoCard
  /\ len = ReadyLen
  /\ swipes = 0

\* InitCOM: CreateFile may fail; otherwise the reader thread is created.
InitCOM(ok) ==
  /\ portOpen' = ok
  /\ reader' = IF ok THEN "starting" ELSE "none"
  /\ UNCHANGED <<isopenCOM, Readinfo, len, swipes>>

\* UninitCOM: closing the handle fails the running reader's wait, and it marks
\* the line as broken on its way out, unless it was about to test m_IsOpen.
UninitCOM ==
  /\ portOpen' = FALSE
  /\ reader' = "none"
  /\ isopenCOM' \in IF reader = "running" THEN {isopenCOM, 1} ELSE {isopenCOM}
  /\ UNCHANGED <<Readinfo, len, swipes>>

\* A variant of ComWrite that adds up the bytes written.
ComWrite_Adds ==
  /\ len' \in len .. 2 * len
  /\ UNCHANGED <<portOpen, reader, isopenCOM, Readinfo, swipes>>

\* ComWrite: len comes back as the number of bytes written, and shrinks with it.
ComWrite ==
  /\ len' \in IF portOpen THEN 0 .. len ELSE {0}
  /\ UNCHANGED <<portOpen, reader, isopenCOM, Readinfo, swipes>>

\* OnRecv starts: it clears Readinfo, and ends at once if InitCOM has not set
\* m_IsOpen yet.
OnRecvStart ==
  /\ reader = "starting"
  /\ reader' \in {"running", "none"}
  /\ Readinfo' = NoCard
  /\ UNCHANGED <<portOpen, isopenCOM, len, swipes>>

\* OnRecv has 32 characters of a card: the previous card is overwritten.
OnRecvCard(card) ==
  /\ reader = "running"
  /\ swipes < MaxSwipes
  /\ swipes' = swipes + 1
  /\ Readinfo' = card
  /\ UNCHANGED <<portOpen, reader, isopenCOM, len>>

\* OnRecv's wait fails: the line is marked, and the thread keeps going.
OnRecvError ==
  /\ reader = "running"
  /\ isopenCOM' = 1
  /\ UNCHANGED <<portOpen, reader, Readinfo, len, swipes>>

OnRecvNext ==
  \/ OnRecvStart
  \/ \E card \in Cards : OnRecvCard(card)
  \/ OnRecvError

\* A new process has fresh globals and no port.
SerialReset ==
  /\ portOpen' = FALSE
  /\ reader' = "none"
  /\ isopenCOM' = 0
  /\ Readinfo' = NoCard
  /\ len' = ReadyLen
  /\ UNCHANGED swipes

\* The two globals main sets back itself: Readinfo when it is done with a card,
\* isopenCOM when the port is open again.
ClearReadinfo ==
  /\ Readinfo' = NoCard
  /\ UNCHANGED <<portOpen, reader, isopenCOM, len, swipes>>

ClearMark ==
  /\ isopenCOM' = 0
  /\ UNCHANGED <<portOpen, reader, Readinfo, len, swipes>>

\* The line by itself, whatever its user does.
SerialNext ==
  \/ OnRecvNext
  \/ \E ok \in BOOLEAN : InitCOM(ok)
  \/ UninitCOM \/ ComWrite \/ ClearReadinfo \/ ClearMark \/ SerialReset
=============================================================================
