------------------------------- MODULE ComAsy -------------------------------
(***************************************************************************)
(* ComAsy.cpp in detail: characters of a card arrive one by one in the     *)
(* driver's queue, OnRecv reads, assembles and purges them, and the        *)
(* authentication loop opens and closes the port under it.  SerialLine is  *)
(* the abstraction of this module that CommandWindow uses.                 *)
(*                                                                         *)
(* A character is its number in the order of sending: swipe n consists of  *)
(* the characters (n-1)*FrameLen+1 .. n*FrameLen.  UninitCOM waits one     *)
(* second for the reader; a reader that is slower works on with the next   *)
(* handle, since m_hCom, m_IsOpen and Readinfo are shared by all readers.  *)
(***************************************************************************)
EXTENDS Integers, Sequences, FiniteSets, Functions

CONSTANTS
  FrameLen,  \* characters of a card: 32 in the code
  MaxSwipes, \* bound: cards swiped in a behaviour
  MaxOpens,  \* bound: ports opened, each with a reader of its own
  ReadyLen   \* sizeof(chData): length of the request sent to the reader

\* Frames and requests are not empty; the bounds are numbers.
ASSUME ComAsyAssumption ==
  /\ FrameLen \in Nat \ {0}
  /\ MaxSwipes \in Nat
  /\ MaxOpens \in Nat
  /\ ReadyLen \in Nat \ {0}

Chars == 1 .. MaxSwipes * FrameLen
Readers == 1 .. MaxOpens

VARIABLES
  sent,       \* characters the device has sent
  queue,      \* the driver's input queue
  m_hCom,     \* the handle is valid
  m_IsOpen,   \* the flag OnRecv loops on
  mpc,        \* where main is in InitCOM and UninitCOM
  opens,      \* readers created; the last one belongs to the open port
  rpc,        \* where each reader is in OnRecv
  temp,       \* its TempReadinfo
  isopenCOM,  \* the line has been seen broken
  Readinfo,   \* the card waiting to be processed
  hand,       \* the card main is working on, << >> when none
  len,        \* the global passed by reference to ComWrite
  lost,       \* history: characters purged, or sent with no port open
  delivered,  \* history: characters given to main in Readinfo
  done,       \* history: characters of the cards main has finished with
  early,      \* history: the open port's reader ended on its first test
  straggler   \* history: a reader of this process has outlived its wait

readerVars == <<rpc, temp>>
mainVars == <<mpc, opens, hand, len>>
history == <<lost, delivered, done, early, straggler>>
vars == <<sent, queue, m_hCom, m_IsOpen, isopenCOM, Readinfo, readerVars,
          mainVars, history>>

Init ==
  /\ sent = 0
  /\ queue = << >>
  /\ m_hCom = FALSE
  /\ m_IsOpen = FALSE
  /\ mpc = "boot"
  /\ opens = 0
  /\ rpc = [r \in Readers |-> "none"]
  /\ temp = [r \in Readers |-> << >>]
  /\ isopenCOM = 0
  /\ Readinfo = << >>
  /\ hand = << >>
  /\ len = ReadyLen
  /\ lost = {}
  /\ delivered = {}
  /\ done = {}
  /\ early = FALSE
  /\ straggler = FALSE
-----------------------------------------------------------------------------
\* The device sends a character: into the queue of an open port, or nowhere.
Send ==
  /\ sent + 1 \in Chars
  /\ sent' = sent + 1
  /\ queue' = IF m_hCom THEN Append(queue, sent + 1) ELSE queue
  /\ lost' = IF m_hCom THEN lost ELSE lost \cup {sent + 1}
  /\ UNCHANGED <<m_hCom, m_IsOpen, isopenCOM, Readinfo, readerVars, mainVars,
                 delivered, done, early, straggler>>
-----------------------------------------------------------------------------
Alive(r) == rpc[r] \notin {"none", "gone"}

\* A reader leaves OnRecv; what it has assembled is lost.
End(r) ==
  /\ rpc' = [rpc EXCEPT ![r] = "gone"]
  /\ temp' = [temp EXCEPT ![r] = << >>]
  /\ lost' = lost \cup Range(temp[r])

\* A variant of OnRecvStart that leaves Readinfo as it is.
OnRecvStart_KeepsCard(r) ==
  /\ rpc[r] = "starting"
  /\ IF m_IsOpen
       THEN /\ rpc' = [rpc EXCEPT ![r] = "wait"]
            /\ UNCHANGED <<temp, lost, early>>
       ELSE /\ End(r)
            /\ early' = (early \/ r = opens)
  /\ UNCHANGED <<sent, queue, m_hCom, m_IsOpen, isopenCOM, Readinfo, mainVars,
                 delivered, done, straggler>>

\* OnRecv clears Readinfo and tests m_IsOpen, which InitCOM may not have set yet.
OnRecvStart(r) ==
  /\ rpc[r] = "starting"
  /\ Readinfo' = << >>
  /\ IF m_IsOpen
       THEN /\ rpc' = [rpc EXCEPT ![r] = "wait"]
            /\ UNCHANGED <<temp, lost, early>>
       ELSE /\ End(r)
            /\ early' = (early \/ r = opens)
  /\ UNCHANGED <<sent, queue, m_hCom, m_IsOpen, isopenCOM, mainVars,
                 delivered, done, straggler>>

\* WaitCommEvent reports characters that are still in the queue; or it fails,
\* because the device has gone or the handle is closed.
Wait(r) ==
  /\ rpc[r] = "wait"
  /\ \/ m_hCom /\ queue # << >> /\ rpc' = [rpc EXCEPT ![r] = "read"]
     \/ rpc' = [rpc EXCEPT ![r] = "result"]
  /\ UNCHANGED <<sent, queue, m_hCom, m_IsOpen, isopenCOM, Readinfo, temp,
                 mainVars, history>>

\* A variant of Assemble that does not empty TempReadinfo.
Assemble_KeepsTemp(r, text) ==
  /\ temp' = [temp EXCEPT ![r] = text]
  /\ IF Len(text) = FrameLen
       THEN Readinfo' = text /\ delivered' = delivered \cup Range(text)
       ELSE UNCHANGED <<Readinfo, delivered>>

\* A variant of Assemble that takes FrameLen characters or more for a card.
Assemble_AtLeast(r, text) ==
  IF Len(text) >= FrameLen
    THEN /\ Readinfo' = text
         /\ temp' = [temp EXCEPT ![r] = << >>]
         /\ delivered' = delivered \cup Range(text)
    ELSE /\ temp' = [temp EXCEPT ![r] = text]
         /\ UNCHANGED <<Readinfo, delivered>>

\* Readinfo is assigned when there are FrameLen characters, no fewer and no more.
Assemble(r, text) ==
  IF Len(text) = FrameLen
    THEN /\ Readinfo' = text
         /\ temp' = [temp EXCEPT ![r] = << >>]
         /\ delivered' = delivered \cup Range(text)
    ELSE /\ temp' = [temp EXCEPT ![r] = text]
         /\ UNCHANGED <<Readinfo, delivered>>

\* A variant of Read that puts what was read before what was there.
Read_Prepends(r) ==
  /\ rpc[r] = "read"
  /\ rpc' = [rpc EXCEPT ![r] = "purge"]
  /\ queue' = << >>
  /\ Assemble(r, queue \o temp[r])
  /\ UNCHANGED <<sent, m_hCom, m_IsOpen, isopenCOM, mainVars, lost, done,
                 early, straggler>>

\* ReadFile takes all that is queued (nothing, if the handle has been closed or
\* another reader was faster).
Read(r) ==
  /\ rpc[r] = "read"
  /\ rpc' = [rpc EXCEPT ![r] = "purge"]
  /\ queue' = << >>
  /\ Assemble(r, temp[r] \o queue)
  /\ UNCHANGED <<sent, m_hCom, m_IsOpen, isopenCOM, mainVars, lost, done,
                 early, straggler>>

\* PurgeComm discards what has arrived since ReadFile.
Purge(r) ==
  /\ rpc[r] = "purge"
  /\ rpc' = [rpc EXCEPT ![r] = "result"]
  /\ queue' = << >>
  /\ lost' = lost \cup Range(queue)
  /\ UNCHANGED <<sent, m_hCom, m_IsOpen, isopenCOM, Readinfo, temp, mainVars,
                 delivered, done, early, straggler>>

\* A variant of Result that counts the errors.
Result_Counts(r) ==
  /\ rpc[r] = "result"
  /\ rpc' = [rpc EXCEPT ![r] = "test"]
  /\ isopenCOM' \in {isopenCOM, isopenCOM + 1}
  /\ UNCHANGED <<sent, queue, m_hCom, m_IsOpen, Readinfo, temp, mainVars, history>>

\* The second GetOverlappedResult: its failure marks the line as broken.
Result(r) ==
  /\ rpc[r] = "result"
  /\ rpc' = [rpc EXCEPT ![r] = "test"]
  /\ isopenCOM' \in {isopenCOM, 1}
  /\ UNCHANGED <<sent, queue, m_hCom, m_IsOpen, Readinfo, temp, mainVars, history>>

\* The loop's condition, broken line or not.
Test(r) ==
  /\ rpc[r] = "test"
  /\ IF m_IsOpen
       THEN rpc' = [rpc EXCEPT ![r] = "wait"] /\ UNCHANGED <<temp, lost>>
       ELSE End(r)
  /\ UNCHANGED <<sent, queue, m_hCom, m_IsOpen, isopenCOM, Readinfo, mainVars,
                 delivered, done, early, straggler>>

OnRecv(r) ==
  OnRecvStart(r) \/ Wait(r) \/ Read(r) \/ Purge(r) \/ Result(r) \/ Test(r)
-----------------------------------------------------------------------------
\* InitCOM: CreateFile may fail; otherwise the port is purged and a reader made.
\* Main calls it in Initialize and, once the line is marked, in its loop.
InitCOM(ok) ==
  /\ mpc = "boot" \/ (mpc = "closed" /\ hand = << >> /\ isopenCOM = 1)
  /\ opens < MaxOpens
  /\ m_hCom' = ok
  /\ IF ok
       THEN /\ opens' = opens + 1
            /\ rpc' = [rpc EXCEPT ![opens + 1] = "starting"]
            /\ mpc' = IF mpc = "boot" THEN "opening" ELSE "reopening"
            /\ early' = FALSE
       ELSE /\ mpc' = "closed"
            /\ UNCHANGED <<opens, rpc, early>>
  /\ UNCHANGED <<sent, queue, m_IsOpen, isopenCOM, Readinfo, temp, hand, len,
                 lost, delivered, done, straggler>>

\* Only now m_IsOpen is set, with the new reader, and perhaps an old one, running.
SetIsOpen ==
  /\ mpc \in {"opening", "reopening"}
  /\ m_IsOpen' = TRUE
  /\ mpc' = IF mpc = "opening" THEN "open" ELSE "reopened"
  /\ UNCHANGED <<sent, queue, m_hCom, isopenCOM, Readinfo, readerVars, opens,
                 hand, len, history>>

\* After a reopening that succeeded the loop takes the mark away.
ClearMark ==
  /\ mpc = "reopened"
  /\ mpc' = "open"
  /\ isopenCOM' = 0
  /\ UNCHANGED <<sent, queue, m_hCom, m_IsOpen, Readinfo, readerVars, opens,
                 hand, len, history>>

\* UninitCOM, for a marked line or at the end of a login: the flag falls first.
ClearIsOpen ==
  /\ mpc = "open"
  /\ isopenCOM = 1 \/ hand # << >>
  /\ mpc' = "closing"
  /\ m_IsOpen' = FALSE
  /\ UNCHANGED <<sent, queue, m_hCom, isopenCOM, Readinfo, readerVars, opens,
                 hand, len, history>>

\* Then the handle is closed, with what is still in its queue.
CloseCom ==
  /\ mpc = "closing"
  /\ mpc' = "waiting"
  /\ m_hCom' = FALSE
  /\ queue' = << >>
  /\ lost' = lost \cup Range(queue)
  /\ UNCHANGED <<sent, m_IsOpen, isopenCOM, Readinfo, readerVars, opens, hand,
                 len, delivered, done, early, straggler>>

\* The wait ends with the reader, or after a second without its end.  After a
\* login the port is not opened again.
UninitCOM ==
  /\ mpc = "waiting"
  /\ mpc' = IF hand = << >> THEN "closed" ELSE "done"
  /\ straggler' = (straggler \/ Alive(opens))
  /\ UNCHANGED <<sent, queue, m_hCom, m_IsOpen, isopenCOM, Readinfo, readerVars,
                 opens, hand, len, lost, delivered, done, early>>

\* A login over a card that came before the port was lost: there is nothing to close.
UninitClosed ==
  /\ mpc = "closed"
  /\ hand # << >>
  /\ mpc' = "done"
  /\ UNCHANGED <<sent, queue, m_hCom, m_IsOpen, isopenCOM, Readinfo, readerVars,
                 opens, hand, len, history>>

\* ComWrite: len comes back as the number of bytes written.
ComWrite ==
  /\ mpc \in {"open", "closed"}
  /\ hand # << >>
  /\ len' \in IF m_hCom THEN 0 .. len ELSE {0}
  /\ UNCHANGED <<sent, queue, m_hCom, m_IsOpen, isopenCOM, Readinfo, readerVars,
                 mpc, opens, hand, history>>
-----------------------------------------------------------------------------
\* The loop finds FrameLen characters and goes to work on them.
TakeCard ==
  /\ mpc \in {"open", "closed"}
  /\ hand = << >>
  /\ Len(Readinfo) = FrameLen
  /\ hand' = Readinfo
  /\ UNCHANGED <<sent, queue, m_hCom, m_IsOpen, isopenCOM, Readinfo, readerVars,
                 mpc, opens, len, history>>

\* The attempt is given up before the card is cleared: it will be taken again.
Retry ==
  /\ mpc \in {"open", "closed"}
  /\ hand # << >>
  /\ hand' = << >>
  /\ UNCHANGED <<sent, queue, m_hCom, m_IsOpen, isopenCOM, Readinfo, readerVars,
                 mpc, opens, len, history>>

\* A variant of Clear that leaves the card for the next round.
Clear_KeepsCard ==
  /\ mpc \in {"open", "closed", "done"}
  /\ hand # << >>
  /\ hand' = << >>
  /\ done' = done \cup Range(hand)
  /\ UNCHANGED <<sent, queue, m_hCom, m_IsOpen, isopenCOM, Readinfo, readerVars,
                 mpc, opens, len, lost, delivered, early, straggler>>

\* Readinfo is cleared, whichever card it holds by now.
Clear ==
  /\ mpc \in {"open", "closed", "done"}
  /\ hand # << >>
  /\ hand' = << >>
  /\ Readinfo' = << >>
  /\ done' = done \cup Range(hand)
  /\ UNCHANGED <<sent, queue, m_hCom, m_IsOpen, isopenCOM, readerVars, mpc,
                 opens, len, lost, delivered, early, straggler>>

\* The process ends, with its threads, its handle and its globals.
Restart ==
  /\ mpc # "boot"
  /\ mpc' = "boot"
  /\ m_hCom' = FALSE
  /\ m_IsOpen' = FALSE
  /\ queue' = << >>
  /\ rpc' = [r \in Readers |-> IF r <= opens THEN "gone" ELSE "none"]
  /\ temp' = [r \in Readers |-> << >>]
  /\ lost' = lost \cup Range(queue) \cup UNION {Range(temp[r]) : r \in Readers}
  /\ isopenCOM' = 0
  /\ Readinfo' = << >>
  /\ hand' = << >>
  /\ len' = ReadyLen
  /\ early' = FALSE
  /\ straggler' = FALSE
  /\ UNCHANGED <<sent, opens, delivered, done>>

MainNext ==
  \/ \E ok \in BOOLEAN : InitCOM(ok)
  \/ SetIsOpen \/ ClearMark \/ ClearIsOpen \/ CloseCom \/ UninitCOM \/ UninitClosed
  \/ ComWrite \/ TakeCard \/ Retry \/ Clear

Next == Send \/ (\E r \in Readers : OnRecv(r)) \/ MainNext \/ Restart

Spec == Init /\ [][Next]_vars
-----------------------------------------------------------------------------
(***************************************************************************)
(* The types of all variables.                                             *)
(***************************************************************************)
TypeOK ==
  /\ sent \in 0 .. MaxSwipes * FrameLen
  /\ queue \in Seq(Chars)
  /\ m_hCom \in BOOLEAN
  /\ m_IsOpen \in BOOLEAN
  /\ mpc \in {"boot", "opening", "reopening", "reopened", "open", "closing",
              "waiting", "closed", "done"}
  /\ opens \in 0 .. MaxOpens
  /\ rpc \in [Readers -> {"none", "starting", "wait", "read", "purge",
                          "result", "test", "gone"}]
  /\ temp \in [Readers -> Seq(Chars)]
  /\ isopenCOM \in {0, 1}
  /\ Readinfo \in Seq(Chars)
  /\ hand \in Seq(Chars)
  /\ len \in 0 .. ReadyLen
  /\ lost \subseteq Chars
  /\ delivered \subseteq Chars
  /\ done \subseteq Chars
  /\ early \in BOOLEAN
  /\ straggler \in BOOLEAN

\* No character of s is there twice, and they are in the order of sending.
Ordered(s) == \A i, j \in DOMAIN s : i < j => s[i] < s[j]

(***************************************************************************)
(* Every character sent is in one place only: in the queue, in one         *)
(* reader's TempReadinfo, delivered, or lost.  So no character is ever     *)
(* read twice or delivered in two cards, however often the port is opened  *)
(* and however many readers are left over.                                 *)
(***************************************************************************)
OnePlace ==
  /\ Range(queue) \cap (delivered \cup lost) = {}
  /\ delivered \cap lost = {}
  /\ \A r \in Readers :
       /\ Range(temp[r]) \cap (Range(queue) \cup delivered \cup lost) = {}
       /\ \A q \in Readers \ {r} : Range(temp[r]) \cap Range(temp[q]) = {}
  /\ 1 .. sent = Range(queue) \cup delivered \cup lost
                   \cup UNION {Range(temp[r]) : r \in Readers}

(***************************************************************************)
(* A card that is waiting is in the order of sending, and between its      *)
(* characters nothing is missing but what was lost, unless a reader has    *)
(* outlived UninitCOM's wait.                                              *)
(***************************************************************************)
InOrder ==
  ~straggler =>
    /\ Ordered(Readinfo)
    /\ \A i \in 1 .. Len(Readinfo) - 1 :
         \A k \in Readinfo[i] + 1 .. Readinfo[i + 1] - 1 : k \in lost

\* The characters of one swipe.
Whole(s) == \E n \in 0 .. MaxSwipes - 1 : s = [i \in 1 .. FrameLen |-> n * FrameLen + i]

(***************************************************************************)
(* What main takes for a card is one swipe, and not the end of one and the *)
(* beginning of another, unless characters were lost or a reader has       *)
(* outlived its wait.                                                      *)
(***************************************************************************)
CardIsOneSwipe ==
  Readinfo # << >> /\ ~Whole(Readinfo) => lost # {} \/ straggler

(***************************************************************************)
(* A card main has finished with never comes back: not from a reader that  *)
(* is left over, not after a reopening, not after a restart.               *)
(***************************************************************************)
NeverReplayed == Range(Readinfo) \cap done = {}
-----------------------------------------------------------------------------
\* The state of the open port's reader as SerialLine tells it.
lineReader ==
  IF mpc \in {"boot", "closed", "done"} THEN "none"
  ELSE IF rpc[opens] = "starting" THEN "starting"
  ELSE IF early \/ (rpc[opens] = "gone" /\ m_IsOpen) THEN "none"
  ELSE "running"

\* What the readers may deliver: any frame of characters.
Frames == [1 .. FrameLen -> Chars]

Line == INSTANCE SerialLine WITH
  portOpen  <- mpc \notin {"boot", "closed", "done"},
  reader    <- lineReader,
  swipes    <- Cardinality(delivered) \div FrameLen,
  Cards     <- Frames,
  NoCard    <- << >>,
  Known     <- {},
  Users     <- {},
  Owner     <- << >>,
  Passwords <- {},
  Long      <- {},
  Plus      <- {},
  GatewayPw <- << >>,
  NoUser    <- 0,
  NoPw      <- 0

(***************************************************************************)
(* The reader thread, its queue and the three steps of closing implement   *)
(* the line CommandWindow is checked with: every step is one of its steps, *)
(* until a reader has outlived UninitCOM's wait.                           *)
(***************************************************************************)
ImplementsSerialLine ==
  Line!SerialInit /\ [][straggler \/ straggler' \/ Line!SerialNext]_(Line!serialVars)
=============================================================================
