------------------------------ MODULE LineProofs ------------------------------
(***************************************************************************)
(* ComAsy implements SerialLine, for any length of a frame and any number  *)
(* of swipes and openings, until a reader has outlived UninitCOM's wait.   *)
(***************************************************************************)
EXTENDS ComAsyProofs, FiniteSetTheorems

\* Main has a handle and a reader that belongs to it.
InPort == mpc \notin {"boot", "closed", "done"}

(***************************************************************************)
(* How the handle, the flag and the open port's reader hang together.  A   *)
(* reader that ended in an open port did so on its first test: only then   *)
(* was the flag not set yet.                                               *)
(***************************************************************************)
LinkInv ==
  /\ mpc \in {"boot", "opening", "reopening", "reopened", "open", "closing",
              "waiting", "closed", "done"}
  /\ m_IsOpen \in BOOLEAN /\ m_hCom \in BOOLEAN /\ early \in BOOLEAN
  /\ m_IsOpen <=> mpc \in {"open", "reopened"}
  /\ m_hCom <=> mpc \in {"opening", "reopening", "reopened", "open", "closing"}
  /\ InPort => opens \in Readers /\ (early => rpc[opens] = "gone")
  /\ mpc \in {"opening", "reopening"} =>
       rpc[opens] = "starting" \/ (rpc[opens] = "gone" /\ early)
  /\ mpc \in {"open", "reopened"} /\ rpc[opens] = "gone" => early

LEMMA LinkInit == Init => LinkInv
  BY DEF Init, LinkInv, InPort

\* A reader's step.
LEMMA LinkReader ==
  ASSUME OrderTypes, LinkInv, NEW r \in Readers, OnRecv(r) PROVE LinkInv'
  <1>1. CASE OnRecvStart(r)
    BY <1>1 DEF OnRecvStart, End, LinkInv, InPort, OrderTypes, mainVars
  <1>2. CASE Wait(r) \/ Read(r) \/ Purge(r) \/ Result(r)
    BY <1>2 DEF Wait, Read, Purge, Result, LinkInv, InPort, OrderTypes,
       mainVars, history
  <1>3. CASE Test(r)
    BY <1>3 DEF Test, End, LinkInv, InPort, OrderTypes, mainVars
  <1> QED
    BY <1>1, <1>2, <1>3 DEF OnRecv

\* Opening gives the port a reader of its own; closing is the flag first.
LEMMA LinkMain ==
  ASSUME OrderTypes, LinkInv, MainNext PROVE LinkInv'
  <1>1. CASE \E ok \in BOOLEAN : InitCOM(ok)
    <2>1. PICK ok \in BOOLEAN : InitCOM(ok)
      BY <1>1
    <2>2. CASE ok
      <3>1. opens + 1 \in Readers
        BY <2>1, ComAsyAssumption DEF InitCOM, Readers, OrderTypes
      <3> QED
        BY <2>1, <2>2, <3>1 DEF InitCOM, LinkInv, InPort, OrderTypes
    <2>3. CASE ~ok
      BY <2>1, <2>3 DEF InitCOM, LinkInv, InPort
    <2> QED
      BY <2>2, <2>3
  <1>2. CASE SetIsOpen
    BY <1>2 DEF SetIsOpen, LinkInv, InPort, readerVars, history
  <1>3. CASE ClearMark
    BY <1>3 DEF ClearMark, LinkInv, InPort, readerVars, history
  <1>4. CASE ClearIsOpen
    BY <1>4 DEF ClearIsOpen, LinkInv, InPort, readerVars, history
  <1>5. CASE CloseCom
    BY <1>5 DEF CloseCom, LinkInv, InPort, readerVars
  <1>6. CASE UninitCOM
    BY <1>6 DEF UninitCOM, LinkInv, InPort, readerVars
  <1>7. CASE UninitClosed
    BY <1>7 DEF UninitClosed, LinkInv, InPort, readerVars, history
  <1>8. CASE ComWrite \/ TakeCard \/ Retry \/ Clear
    BY <1>8 DEF ComWrite, TakeCard, Retry, Clear, LinkInv, InPort, readerVars,
       history
  <1> QED
    BY <1>1, <1>2, <1>3, <1>4, <1>5, <1>6, <1>7, <1>8 DEF MainNext

LEMMA LinkNext ==
  ASSUME OrderTypes, LinkInv, [Next]_vars PROVE LinkInv'
  <1>1. CASE Send
    BY <1>1 DEF Send, LinkInv, InPort, readerVars, mainVars
  <1>2. CASE Restart
    BY <1>2 DEF Restart, LinkInv, InPort
  <1>3. CASE UNCHANGED vars
    BY <1>3 DEF vars, LinkInv, InPort, readerVars, mainVars, history
  <1> QED
    BY <1>1, <1>2, <1>3, LinkReader, LinkMain DEF Next
-----------------------------------------------------------------------------
\* A text without repetitions has as many characters as its length.
LEMMA CountRange ==
  ASSUME NEW s \in Seq(Nat), IsInjective(s)
  PROVE  IsFiniteSet(Range(s)) /\ Cardinality(Range(s)) = Len(s)
  <1>1. Len(s) \in Nat /\ DOMAIN s = 1 .. Len(s) /\ s \in [1 .. Len(s) -> Range(s)]
    BY DEF Range
  <1>2. s \in Bijection(1 .. Len(s), Range(s))
    BY <1>1 DEF Bijection, Injection, Surjection, Range
  <1>3. ExistsBijection(1 .. Len(s), Range(s))
    BY <1>2 DEF ExistsBijection
  <1>4. IsFiniteSet(1 .. Len(s)) /\ Cardinality(1 .. Len(s)) = Len(s)
    BY <1>1, FS_Interval
  <1> QED
    BY <1>3, <1>4, FS_Bijection

\* Two texts without repetitions and without a common character, joined.
LEMMA InjectiveJoin ==
  ASSUME NEW s \in Seq(Nat), NEW t \in Seq(Nat), IsInjective(s), IsInjective(t),
         Range(s) \cap Range(t) = {}
  PROVE  IsInjective(s \o t)
  <1>1. /\ DOMAIN (s \o t) = 1 .. Len(s) + Len(t)
        /\ DOMAIN s = 1 .. Len(s) /\ DOMAIN t = 1 .. Len(t)
        /\ Len(s) \in Nat /\ Len(t) \in Nat
    OBVIOUS
  <1>2. ASSUME NEW i \in DOMAIN (s \o t)
        PROVE  \/ i \in DOMAIN s /\ (s \o t)[i] = s[i] /\ s[i] \in Range(s)
               \/ /\ i > Len(s) /\ i - Len(s) \in DOMAIN t
                  /\ (s \o t)[i] = t[i - Len(s)] /\ t[i - Len(s)] \in Range(t)
    <2>1. CASE i <= Len(s)
      <3>1. i \in DOMAIN s
        BY <1>1, <2>1
      <3>2. (s \o t)[i] = s[i]
        BY <1>1, <3>1
      <3> QED
        BY <3>1, <3>2 DEF Range
    <2>2. CASE i > Len(s)
      <3>1. i - Len(s) \in DOMAIN t
        BY <1>1, <2>2
      <3>2. (s \o t)[i] = t[i - Len(s)]
        BY <1>1, <2>2, <3>1
      <3> QED
        BY <2>2, <3>1, <3>2 DEF Range
    <2> QED
      BY <1>1, <2>1, <2>2
  <1>3. ASSUME NEW i \in DOMAIN (s \o t), NEW j \in DOMAIN (s \o t),
               (s \o t)[i] = (s \o t)[j]
        PROVE  i = j
    <2>1. CASE i \in DOMAIN s /\ j \in DOMAIN s
      BY <1>1, <1>2, <1>3, <2>1 DEF IsInjective
    <2>2. CASE /\ i - Len(s) \in DOMAIN t /\ j - Len(s) \in DOMAIN t
               /\ i > Len(s) /\ j > Len(s)
      <3>1. i - Len(s) = j - Len(s)
        BY <1>1, <1>2, <1>3, <2>2 DEF IsInjective
      <3> QED
        BY <1>1, <3>1
    <2>3. ~(i \in DOMAIN s /\ j > Len(s) /\ j - Len(s) \in DOMAIN t)
      BY <1>1, <1>2, <1>3
    <2>4. ~(j \in DOMAIN s /\ i > Len(s) /\ i - Len(s) \in DOMAIN t)
      BY <1>1, <1>2, <1>3
    <2> QED
      BY <1>2, <2>1, <2>2, <2>3, <2>4
  <1> QED
    BY <1>3 DEF IsInjective

\* A new character after a text without repetitions.
LEMMA InjectiveAppend ==
  ASSUME NEW s \in Seq(Nat), NEW c \in Nat, IsInjective(s), c \notin Range(s)
  PROVE  IsInjective(Append(s, c))
  <1>1. /\ DOMAIN Append(s, c) = 1 .. Len(s) + 1 /\ DOMAIN s = 1 .. Len(s)
        /\ Len(s) \in Nat /\ Append(s, c)[Len(s) + 1] = c
    OBVIOUS
  <1>2. ASSUME NEW i \in 1 .. Len(s)
        PROVE  Append(s, c)[i] = s[i] /\ s[i] # c
    BY <1>1 DEF Range
  <1> QED
    BY <1>1, <1>2 DEF IsInjective

(***************************************************************************)
(* Characters do not repeat, and what was delivered are whole frames,      *)
(* stragglers or not: that is why the swipes of SerialLine can be counted  *)
(* by the characters, and stay within its bound.                           *)
(***************************************************************************)
CountInv ==
  /\ IsInjective(queue)
  /\ \A r \in Readers : IsInjective(temp[r])
  /\ sent <= MaxSwipes * FrameLen
  /\ IsFiniteSet(delivered)
  /\ \E k \in Nat : Cardinality(delivered) = k * FrameLen

\* A step that only drops characters.
LEMMA CountKept ==
  ASSUME CountInv, queue' = queue \/ queue' = << >>,
         \A r \in Readers : temp'[r] = temp[r] \/ temp'[r] = << >>,
         UNCHANGED <<sent, delivered>>
  PROVE  CountInv'
  <1>1. IsInjective(<< >>)
    BY DEF IsInjective
  <1> QED
    BY <1>1 DEF CountInv

\* A character that is sent is greater than all before it.
LEMMA CountSend ==
  ASSUME PlaceInv, CountInv, Send PROVE CountInv'
  <1>1. sent + 1 \in Nat /\ sent + 1 \notin 1 .. sent
    BY DEF PlaceInv, Texts
  <1>2. sent + 1 \notin Range(queue)
    BY <1>1 DEF PlaceInv, OnePlace
  <1>3. IsInjective(queue')
    BY <1>1, <1>2, InjectiveAppend DEF Send, PlaceInv, Texts, CountInv
  <1>4. sent' <= MaxSwipes * FrameLen
    BY ComAsyAssumption, <1>1 DEF Send, Chars
  <1> QED
    BY <1>3, <1>4 DEF Send, CountInv, readerVars

\* What a reader delivers adds a frame to what was delivered.
LEMMA FrameDelivered ==
  ASSUME PlaceInv, CountInv, NEW r \in Readers, Read(r),
         NEW text, text = temp[r] \o queue, Len(text) = FrameLen
  PROVE  /\ IsFiniteSet(delivered \cup Range(text))
         /\ Cardinality(delivered \cup Range(text)) = Cardinality(delivered) + FrameLen
  <1>1. /\ text \in Seq(Nat) /\ Range(text) = Range(temp[r]) \cup Range(queue)
        /\ IsInjective(text)
    <2>1. Range(temp[r]) \cap Range(queue) = {}
      BY DEF PlaceInv, OnePlace
    <2> QED
      BY <2>1, RangeOf, InjectiveJoin DEF CountInv, PlaceInv, Texts
  <1>2. IsFiniteSet(Range(text)) /\ Cardinality(Range(text)) = FrameLen
    BY <1>1, CountRange
  <1>3. delivered \cap Range(text) = {}
    BY <1>1 DEF PlaceInv, OnePlace
  <1>4. IsFiniteSet(delivered) /\ Cardinality(delivered) \in Nat /\ Cardinality({}) = 0
    BY FS_CardinalityType, FS_EmptySet DEF CountInv
  <1>5. /\ IsFiniteSet(delivered \cup Range(text))
        /\ Cardinality(delivered \cup Range(text))
             = Cardinality(delivered) + Cardinality(Range(text))
                 - Cardinality(delivered \cap Range(text))
    BY <1>2, <1>4, FS_Union
  <1>6. Cardinality(delivered \cap Range(text)) = 0
    BY <1>3, <1>4
  <1> QED
    BY <1>2, <1>4, <1>5, <1>6, ComAsyAssumption

LEMMA CountRead ==
  ASSUME PlaceInv, CountInv, NEW r \in Readers, Read(r) PROVE CountInv'
  <1> DEFINE text == temp[r] \o queue
  <1>1. IsInjective(text) /\ IsInjective(<< >>)
    <2>1. Range(temp[r]) \cap Range(queue) = {}
      BY DEF PlaceInv, OnePlace
    <2>2. IsInjective(<< >>)
      BY DEF IsInjective
    <2> QED
      BY <2>1, <2>2, InjectiveJoin DEF CountInv, PlaceInv, Texts
  <1>2. queue' = << >> /\ sent' = sent
    BY DEF Read
  <1>3. CASE Len(text) = FrameLen
    <2>1. temp' = [temp EXCEPT ![r] = << >>] /\ delivered' = delivered \cup Range(text)
      BY <1>3 DEF Read, Assemble
    <2>2. /\ IsFiniteSet(delivered')
          /\ Cardinality(delivered') = Cardinality(delivered) + FrameLen
      BY <1>3, <2>1, FrameDelivered
    <2>3. PICK k \in Nat : Cardinality(delivered) = k * FrameLen
      BY DEF CountInv
    <2>4. k + 1 \in Nat /\ Cardinality(delivered') = (k + 1) * FrameLen
      BY <2>2, <2>3, ComAsyAssumption
    <2>5. \A q \in Readers : IsInjective(temp'[q])
      BY <1>1, <2>1 DEF CountInv, PlaceInv, Texts
    <2> QED
      BY <1>1, <1>2, <2>2, <2>4, <2>5 DEF CountInv
  <1>4. CASE Len(text) # FrameLen
    <2>1. temp' = [temp EXCEPT ![r] = text] /\ delivered' = delivered
      BY <1>4 DEF Read, Assemble
    <2> HIDE DEF text
    <2>2. \A q \in Readers : IsInjective(temp'[q])
      BY <1>1, <2>1 DEF CountInv, PlaceInv, Texts
    <2> QED
      BY <1>1, <1>2, <2>1, <2>2 DEF CountInv
  <1> QED
    BY <1>3, <1>4

LEMMA CountNext ==
  ASSUME PlaceInv, CountInv, [Next]_vars PROVE CountInv'
  <1>1. ASSUME NEW r \in Readers, OnRecv(r) PROVE CountInv'
    <2>1. CASE Read(r)
      BY <2>1, CountRead
    <2>2. CASE OnRecvStart(r) \/ Test(r)
      <3>1. /\ temp' = temp \/ temp' = [temp EXCEPT ![r] = << >>]
            /\ UNCHANGED <<queue, sent, delivered>>
        BY <2>2 DEF OnRecvStart, Test, End
      <3> QED
        BY <3>1, CountKept DEF PlaceInv, Texts
    <2>3. CASE Wait(r) \/ Purge(r) \/ Result(r)
      <3>1. /\ queue' = queue \/ queue' = << >>
            /\ UNCHANGED <<temp, sent, delivered>>
        BY <2>3 DEF Wait, Purge, Result, history
      <3> QED
        BY <3>1, CountKept
    <2> QED
      BY <1>1, <2>1, <2>2, <2>3 DEF OnRecv
  <1>2. CASE MainNext
    <2>1. /\ queue' = queue \/ queue' = << >>
          /\ UNCHANGED <<temp, sent, delivered>>
      BY <1>2 DEF MainNext, InitCOM, SetIsOpen, ClearMark, ClearIsOpen, CloseCom,
         UninitCOM, UninitClosed, ComWrite, TakeCard, Retry, Clear, readerVars,
         history
    <2> QED
      BY <2>1, CountKept
  <1>3. CASE Restart
    BY <1>3, CountKept DEF Restart
  <1>4. CASE UNCHANGED vars
    BY <1>4, CountKept DEF vars, readerVars, history
  <1> QED
    BY <1>1, <1>2, <1>3, <1>4, CountSend DEF Next

LEMMA CountInit == Init => CountInv
  <1> SUFFICES ASSUME Init PROVE CountInv
    OBVIOUS
  <1>1. IsInjective(<< >>)
    BY DEF IsInjective
  <1>2. IsFiniteSet({}) /\ Cardinality({}) = 0
    BY FS_EmptySet
  <1>3. 0 * FrameLen = 0 /\ 0 <= MaxSwipes * FrameLen
    BY ComAsyAssumption
  <1> QED
    BY <1>1, <1>2, <1>3 DEF Init, CountInv
-----------------------------------------------------------------------------
\* Only characters that were sent are delivered.
LEMMA DeliveredAreChars ==
  ASSUME PlaceInv', CountInv' PROVE delivered' \subseteq Chars
  <1>1. delivered' \subseteq 1 .. sent'
    BY DEF PlaceInv, OnePlace
  <1>2. sent' \in Nat /\ MaxSwipes * FrameLen \in Nat /\ sent' <= MaxSwipes * FrameLen
    BY ComAsyAssumption DEF PlaceInv, Texts, CountInv
  <1>3. 1 .. sent' \subseteq 1 .. MaxSwipes * FrameLen
    BY <1>2
  <1> QED
    BY <1>1, <1>3 DEF Chars

\* A text of FrameLen characters is one of SerialLine's cards.
LEMMA FrameIs ==
  ASSUME NEW s \in Seq(Nat), Len(s) = FrameLen, Range(s) \subseteq Chars
  PROVE  s \in Frames
  <1>1. s \in [1 .. Len(s) -> Nat] /\ DOMAIN s = 1 .. Len(s)
    OBVIOUS
  <1>2. \A i \in 1 .. Len(s) : s[i] \in Chars
    BY <1>1 DEF Range
  <1> QED
    BY <1>1, <1>2 DEF Frames

\* One frame more is one swipe more, and one that was still to come.
LEMMA SwipesCounted ==
  ASSUME CountInv, PlaceInv', CountInv',
         Cardinality(delivered') = Cardinality(delivered) + FrameLen
  PROVE  /\ Cardinality(delivered') \div FrameLen
              = Cardinality(delivered) \div FrameLen + 1
         /\ Cardinality(delivered) \div FrameLen < MaxSwipes
  <1>1. PICK k \in Nat : Cardinality(delivered) = k * FrameLen
    BY DEF CountInv
  <1>2. k + 1 \in Nat /\ Cardinality(delivered') = (k + 1) * FrameLen
    BY <1>1, ComAsyAssumption
  <1>3. \A n \in Nat : (n * FrameLen) \div FrameLen = n
    BY ComAsyAssumption
  <1>4. Cardinality(delivered') <= sent' /\ sent' <= MaxSwipes * FrameLen
    <2>1. sent' \in Nat /\ delivered' \in SUBSET (1 .. sent')
      BY DEF PlaceInv, OnePlace, Texts
    <2>2. IsFiniteSet(1 .. sent') /\ Cardinality(1 .. sent') = sent'
      BY <2>1, FS_Interval
    <2>3. Cardinality(delivered') <= sent'
      BY <2>1, <2>2, FS_Subset
    <2> QED
      BY <2>3 DEF CountInv
  <1>5. (k + 1) * FrameLen <= MaxSwipes * FrameLen
    BY <1>2, <1>4, ComAsyAssumption DEF PlaceInv, Texts
  <1>6. k < MaxSwipes
    BY <1>5, ComAsyAssumption
  <1> QED
    BY <1>1, <1>2, <1>3, <1>6

\* What SerialLine is told of the reader, case by case.
ReaderCases ==
  /\ ~InPort => lineReader = "none"
  /\ InPort /\ rpc[opens] = "starting" => lineReader = "starting"
  /\ InPort /\ rpc[opens] # "starting" /\ early => lineReader = "none"
  /\ InPort /\ rpc[opens] # "starting" /\ ~early /\ ~(rpc[opens] = "gone" /\ m_IsOpen)
       => lineReader = "running"

LEMMA LineReaderIs == ReaderCases /\ ReaderCases'
  BY DEF lineReader, InPort, ReaderCases

\* A step between two of SerialLine's.
LEMMA LineStutter ==
  ASSUME UNCHANGED <<isopenCOM, Readinfo, len, delivered, lineReader>>,
         InPort' = InPort
  PROVE  UNCHANGED Line!serialVars
  BY DEF Line!serialVars, InPort

LEMMA LineInit == Init => Line!SerialInit
  <1> SUFFICES ASSUME Init PROVE Line!SerialInit
    OBVIOUS
  <1>1. Cardinality({}) = 0 /\ 0 \div FrameLen = 0
    BY FS_EmptySet, ComAsyAssumption
  <1> QED
    BY <1>1, LineReaderIs DEF Init, Line!SerialInit, InPort, ReaderCases

\* What the open port's reader does.
LEMMA LineReaderStep ==
  ASSUME OrderTypes, LinkInv, PlaceInv, CountInv, LinkInv', PlaceInv', CountInv',
         InPort, OnRecv(opens)
  PROVE  [Line!SerialNext]_(Line!serialVars)
  <1>1. /\ opens \in Readers /\ opens' = opens /\ InPort' /\ InPort' = InPort
        /\ len' = len
    BY DEF OnRecv, OnRecvStart, Wait, Read, Purge, Result, Test, mainVars, InPort,
       LinkInv
  <1>2. CASE OnRecvStart(opens)
    <2>1. lineReader = "starting" /\ ~early
      BY <1>2, LineReaderIs DEF OnRecvStart, LinkInv, ReaderCases
    <2>2. lineReader' \in {"running", "none"}
      BY <1>1, <1>2, <2>1, LineReaderIs
         DEF OnRecvStart, End, OrderTypes, ReaderCases
    <2>3. Line!OnRecvStart
      BY <1>1, <1>2, <2>1, <2>2 DEF Line!OnRecvStart, OnRecvStart, InPort
    <2> QED
      BY <2>3 DEF Line!SerialNext, Line!OnRecvNext
  <1>3. CASE Wait(opens) \/ Purge(opens) \/ Test(opens)
    <2>1. UNCHANGED <<isopenCOM, Readinfo, delivered, early, m_IsOpen>>
      BY <1>3 DEF Wait, Purge, Test, history
    <2>2. lineReader = "running" /\ ~early
      BY <1>1, <1>3, LineReaderIs DEF Wait, Purge, Test, LinkInv, ReaderCases
    <2>3. /\ rpc'[opens] # "starting"
          /\ ~(rpc'[opens] = "gone" /\ m_IsOpen)
      BY <1>1, <1>3 DEF Wait, Purge, Test, End, OrderTypes
    <2>4. lineReader' = "running"
      BY <1>1, <2>1, <2>2, <2>3, LineReaderIs DEF ReaderCases
    <2> QED
      BY <1>1, <2>1, <2>2, <2>4, LineStutter
  <1>4. CASE Result(opens)
    <2>1. UNCHANGED <<Readinfo, delivered, early, m_IsOpen>>
      BY <1>4 DEF Result, history
    <2>2. lineReader = "running" /\ ~early
      BY <1>1, <1>4, LineReaderIs DEF Result, LinkInv, ReaderCases
    <2>3. rpc'[opens] = "test"
      BY <1>1, <1>4 DEF Result, OrderTypes
    <2>4. lineReader' = "running"
      BY <1>1, <2>1, <2>2, <2>3, LineReaderIs DEF ReaderCases
    <2>5. CASE isopenCOM' = isopenCOM
      BY <1>1, <2>1, <2>2, <2>4, <2>5, LineStutter
    <2>6. CASE isopenCOM' = 1
      <3>1. Line!OnRecvError
        BY <1>1, <2>1, <2>2, <2>4, <2>6 DEF Line!OnRecvError, InPort
      <3> QED
        BY <3>1 DEF Line!SerialNext, Line!OnRecvNext
    <2> QED
      BY <1>4, <2>5, <2>6 DEF Result
  <1>5. CASE Read(opens)
    <2>1. UNCHANGED <<isopenCOM, early, m_IsOpen>>
      BY <1>5 DEF Read
    <2>2. lineReader = "running" /\ ~early
      BY <1>1, <1>5, LineReaderIs DEF Read, LinkInv, ReaderCases
    <2>3. rpc'[opens] = "purge"
      BY <1>1, <1>5 DEF Read, OrderTypes
    <2>4. lineReader' = "running"
      BY <1>1, <2>1, <2>2, <2>3, LineReaderIs DEF ReaderCases
    <2> DEFINE text == temp[opens] \o queue
    <2>5. CASE Len(text) # FrameLen
      <3>1. Readinfo' = Readinfo /\ delivered' = delivered
        BY <1>5, <2>5 DEF Read, Assemble
      <3> QED
        BY <1>1, <2>1, <2>2, <2>4, <3>1, LineStutter
    <2>6. CASE Len(text) = FrameLen
      <3>1. Readinfo' = text /\ delivered' = delivered \cup Range(text)
        BY <1>5, <2>6 DEF Read, Assemble
      <3>2. text \in Seq(Nat) /\ Range(text) \subseteq Chars
        BY <1>1, <3>1, RangeOf, DeliveredAreChars DEF PlaceInv, Texts
      <3>3. Readinfo' \in Frames
        BY <2>6, <3>1, <3>2, FrameIs
      <3>4. Cardinality(delivered') = Cardinality(delivered) + FrameLen
        BY <1>1, <1>5, <2>6, <3>1, FrameDelivered
      <3>5. /\ Cardinality(delivered') \div FrameLen
                 = Cardinality(delivered) \div FrameLen + 1
            /\ Cardinality(delivered) \div FrameLen < MaxSwipes
        BY <3>4, SwipesCounted
      <3>6. Line!OnRecvCard(Readinfo')
        BY <1>1, <2>1, <2>2, <2>4, <3>5 DEF Line!OnRecvCard, InPort
      <3> QED
        BY <3>3, <3>6 DEF Line!SerialNext, Line!OnRecvNext
    <2> QED
      BY <2>5, <2>6
  <1> QED
    BY <1>2, <1>3, <1>4, <1>5 DEF OnRecv

\* What main does with the line.  Opening and closing are one step each for
\* SerialLine: that which says whether the port is open.
LEMMA LineMainStep ==
  ASSUME OrderTypes, LinkInv, LinkInv', MainNext
  PROVE  [Line!SerialNext]_(Line!serialVars)
  <1>1. CASE \E ok \in BOOLEAN : InitCOM(ok)
    <2>1. PICK ok \in BOOLEAN : InitCOM(ok)
      BY <1>1
    <2>2. InPort' = ok /\ UNCHANGED <<isopenCOM, Readinfo, len, delivered>>
      BY <2>1 DEF InitCOM, InPort
    <2>3. lineReader' = IF ok THEN "starting" ELSE "none"
      <3>1. CASE ok
        <4>1. rpc'[opens'] = "starting"
          BY <2>1, <2>2, <3>1 DEF InitCOM, LinkInv, OrderTypes
        <4> QED
          BY <2>2, <3>1, <4>1, LineReaderIs DEF ReaderCases
      <3>2. CASE ~ok
        BY <2>2, <3>2, LineReaderIs DEF ReaderCases
      <3> QED
        BY <3>1, <3>2
    <2>4. Line!InitCOM(ok)
      BY <2>2, <2>3 DEF Line!InitCOM, InPort
    <2> QED
      BY <2>1, <2>4 DEF Line!SerialNext
  <1>2. CASE SetIsOpen \/ ClearIsOpen \/ CloseCom
    <2>1. /\ InPort /\ InPort' = InPort
          /\ UNCHANGED <<rpc, opens, early, isopenCOM, Readinfo, len, delivered>>
      BY <1>2 DEF SetIsOpen, ClearIsOpen, CloseCom, InPort, readerVars, history
    <2>2. rpc[opens] = "gone" /\ (m_IsOpen \/ m_IsOpen') => early
      BY <1>2, <2>1 DEF SetIsOpen, ClearIsOpen, CloseCom, LinkInv
    <2>3. lineReader' = lineReader
      BY <2>1, <2>2, LineReaderIs DEF ReaderCases
    <2> QED
      BY <2>1, <2>3, LineStutter
  <1>3. CASE UninitCOM
    <2>1. InPort' = FALSE /\ UNCHANGED <<isopenCOM, Readinfo, len, delivered>>
      BY <1>3 DEF UninitCOM, InPort
    <2>2. lineReader' = "none"
      BY <2>1, LineReaderIs DEF ReaderCases
    <2>3. Line!UninitCOM
      BY <2>1, <2>2 DEF Line!UninitCOM, InPort
    <2> QED
      BY <2>3 DEF Line!SerialNext
  <1>4. CASE \/ ClearMark \/ UninitClosed \/ ComWrite \/ TakeCard \/ Retry \/ Clear
    <2>1. InPort' = InPort
      BY <1>4 DEF ClearMark, UninitClosed, ComWrite, TakeCard, Retry, Clear, InPort
    <2>2. UNCHANGED <<rpc, opens, early, m_IsOpen, delivered>>
      BY <1>4 DEF ClearMark, UninitClosed, ComWrite, TakeCard, Retry, Clear,
         readerVars, history
    <2>3. lineReader' = lineReader
      BY <2>1, <2>2 DEF lineReader, InPort
    <2>4. CASE ClearMark
      <3>1. Line!ClearMark
        BY <2>1, <2>2, <2>3, <2>4 DEF ClearMark, Line!ClearMark, InPort
      <3> QED
        BY <3>1 DEF Line!SerialNext
    <2>5. CASE ComWrite
      <3>1. InPort = m_hCom
        BY <2>5 DEF ComWrite, LinkInv, InPort
      <3>2. Line!ComWrite
        BY <2>1, <2>2, <2>3, <2>5, <3>1 DEF ComWrite, Line!ComWrite, InPort
      <3> QED
        BY <3>2 DEF Line!SerialNext
    <2>6. CASE Clear
      <3>1. Line!ClearReadinfo
        BY <2>1, <2>2, <2>3, <2>6 DEF Clear, Line!ClearReadinfo, InPort
      <3> QED
        BY <3>1 DEF Line!SerialNext
    <2>7. CASE UninitClosed \/ TakeCard \/ Retry
      <3>1. UNCHANGED <<isopenCOM, Readinfo, len>>
        BY <2>7 DEF UninitClosed, TakeCard, Retry
      <3> QED
        BY <2>1, <2>2, <2>3, <3>1, LineStutter
    <2> QED
      BY <1>4, <2>4, <2>5, <2>6, <2>7
  <1> QED
    BY <1>1, <1>2, <1>3, <1>4 DEF MainNext

LEMMA LineNext ==
  ASSUME PlaceInv, OrderInv, LinkInv, CountInv,
         PlaceInv', LinkInv', CountInv', [Next]_vars
  PROVE  [straggler \/ straggler' \/ Line!SerialNext]_(Line!serialVars)
  <1>1. ASSUME ~straggler, NEW r \in Readers, OnRecv(r)
        PROVE  [Line!SerialNext]_(Line!serialVars)
    <2>1. Alive(r)
      BY <1>1 DEF OnRecv, OnRecvStart, Wait, Read, Purge, Result, Test, Alive
    <2>2. r = opens /\ InPort
      BY <1>1, <2>1 DEF OrderInv, OneReader, InPort
    <2> QED
      BY <1>1, <2>2, LineReaderStep DEF OrderInv
  <1>2. CASE MainNext
    BY <1>2, LineMainStep DEF OrderInv
  <1>3. CASE Send
    <2>1. /\ UNCHANGED <<isopenCOM, Readinfo, len, delivered>>
          /\ InPort' = InPort /\ lineReader' = lineReader
      BY <1>3 DEF Send, readerVars, mainVars, lineReader, InPort
    <2> QED
      BY <2>1, LineStutter
  <1>4. CASE Restart
    <2>1. /\ InPort' = FALSE /\ isopenCOM' = 0 /\ Readinfo' = << >>
          /\ len' = ReadyLen /\ delivered' = delivered
      BY <1>4 DEF Restart, InPort
    <2>2. lineReader' = "none"
      BY <2>1, LineReaderIs DEF ReaderCases
    <2>3. Line!SerialReset
      BY <2>1, <2>2 DEF Line!SerialReset, InPort
    <2> QED
      BY <2>3 DEF Line!SerialNext
  <1>5. CASE UNCHANGED vars
    <2>1. /\ UNCHANGED <<isopenCOM, Readinfo, len, delivered>>
          /\ InPort' = InPort /\ lineReader' = lineReader
      BY <1>5 DEF vars, readerVars, mainVars, history, lineReader, InPort
    <2> QED
      BY <2>1, LineStutter
  <1> QED
    BY <1>1, <1>2, <1>3, <1>4, <1>5 DEF Next

(***************************************************************************)
(* The thread, its queue and the steps of opening and closing are the line *)
(* CommandWindow is proved about: OnRecv, InitCOM and UninitCOM do nothing *)
(* else to the port, the mark, the card and the length, until a reader has *)
(* outlived UninitCOM's wait.                                              *)
(***************************************************************************)
THEOREM ReaderImplementsLine == Spec => ImplementsSerialLine
  <1>1. OrderInv => OrderTypes
    BY DEF OrderInv
  <1> QED
    BY <1>1, PlaceInit, PlaceNext, OrderInit, OrderNext, LinkInit, LinkNext,
       CountInit, CountNext, LineInit, LineNext, PTL
       DEF Spec, ImplementsSerialLine
-----------------------------------------------------------------------------
(***************************************************************************)
(* As long as nothing is lost and no reader outlives its wait, the         *)
(* characters stand in a row: k swipes delivered, then what a reader has   *)
(* assembled, then the queue, up to the last one sent.                     *)
(***************************************************************************)
InRow(k) ==
  /\ delivered = 1 .. k * FrameLen
  /\ \A r \in Readers : \A i \in 1 .. Len(temp[r]) : temp[r][i] = k * FrameLen + i
  /\ \A j \in 1 .. Len(queue) : queue[j] = sent - Len(queue) + j
  /\ \A r \in Readers : Alive(r) =>
       k * FrameLen + Len(temp[r]) + Len(queue) = sent

WholeInv ==
  /\ ~m_hCom => queue = << >>
  /\ ~straggler /\ lost = {} =>
       /\ Readinfo = << >> \/ Whole(Readinfo)
       /\ \E k \in Nat : InRow(k)

\* A text without characters is empty.
LEMMA EmptyRange ==
  ASSUME NEW s \in Seq(Nat), Range(s) = {} PROVE s = << >>
  <1>1. Len(s) \in Nat /\ DOMAIN s = 1 .. Len(s)
    OBVIOUS
  <1>2. DOMAIN s = {}
    BY DEF Range
  <1>3. Len(s) = 0
    BY <1>1, <1>2
  <1> QED
    BY <1>3

\* A step that only drops texts that were empty, readers that are through, or
\* the card.
LEMMA RowKept ==
  ASSUME PlaceInv, WholeInv, sent' = sent, delivered' = delivered,
         lost \subseteq lost', straggler => straggler',
         Readinfo' = Readinfo \/ Readinfo' = << >>,
         lost' = {} => queue' = queue /\ temp' = temp,
         ~straggler' => \A r \in Readers : Alive(r)' => Alive(r),
         ~m_hCom' => queue' = << >>
  PROVE  WholeInv'
  <1> SUFFICES ASSUME ~straggler', lost' = {}
               PROVE  /\ Readinfo' = << >> \/ Whole(Readinfo')
                      /\ \E k \in Nat : InRow(k)'
    BY DEF WholeInv, Whole
  <1>1. lost = {} /\ ~straggler /\ queue' = queue /\ temp' = temp
    OBVIOUS
  <1>2. PICK k \in Nat : InRow(k)
    BY <1>1 DEF WholeInv
  <1>3. InRow(k)'
    BY <1>1, <1>2 DEF InRow
  <1>4. Readinfo' = << >> \/ Whole(Readinfo')
    BY <1>1 DEF WholeInv
  <1> QED
    BY <1>3, <1>4

\* A character sent into an open port is the next one of the row.
LEMMA RowSend ==
  ASSUME PlaceInv, WholeInv, Send PROVE WholeInv'
  <1> SUFFICES ASSUME ~straggler', lost' = {}
               PROVE  \E k \in Nat : InRow(k)'
    BY DEF WholeInv, Whole, Send
  <1>1. /\ m_hCom /\ lost = {} /\ ~straggler
        /\ queue' = Append(queue, sent + 1) /\ sent' = sent + 1
        /\ temp' = temp /\ rpc' = rpc /\ delivered' = delivered
    BY DEF Send, readerVars
  <1>2. PICK k \in Nat : InRow(k)
    BY <1>1 DEF WholeInv
  <1>3. /\ Len(queue) \in Nat /\ Len(queue') = Len(queue) + 1 /\ sent \in Nat
        /\ queue'[Len(queue) + 1] = sent + 1
        /\ \A j \in 1 .. Len(queue) : queue'[j] = queue[j]
    BY <1>1 DEF PlaceInv, Texts
  <1>4. \A j \in 1 .. Len(queue') : queue'[j] = sent' - Len(queue') + j
    BY <1>1, <1>2, <1>3 DEF InRow
  <1>5. ASSUME NEW r \in Readers, Alive(r)'
        PROVE  k * FrameLen + Len(temp'[r]) + Len(queue') = sent'
    <2>1. k * FrameLen + Len(temp[r]) + Len(queue) = sent
      BY <1>1, <1>2, <1>5 DEF InRow, Alive
    <2>2. Len(temp[r]) \in Nat /\ k * FrameLen \in Nat
      BY ComAsyAssumption DEF PlaceInv, Texts
    <2> QED
      BY <1>1, <1>3, <2>1, <2>2
  <1>6. InRow(k)'
    BY <1>1, <1>2, <1>4, <1>5 DEF InRow
  <1> QED
    BY <1>6

\* When everything sent is delivered, the row is there with an empty queue.
LEMMA RowStarts ==
  ASSUME PlaceInv', CountInv', lost' = {}, queue' = << >>,
         \A r \in Readers : temp'[r] = << >>
  PROVE  \E k \in Nat : InRow(k)'
  <1>1. Range(<< >>) = {} /\ Len(<< >>) = 0
    BY DEF Range
  <1>2. 1 .. sent' = delivered' /\ sent' \in Nat
    <2>1. Range(queue') = {} /\ UNION {Range(temp'[r]) : r \in Readers} = {}
      BY <1>1
    <2>2. 1 .. sent' = Range(queue') \cup delivered' \cup lost'
                         \cup UNION {Range(temp'[r]) : r \in Readers}
      BY DEF PlaceInv, OnePlace
    <2> QED
      BY <2>1, <2>2 DEF PlaceInv, Texts
  <1>3. Cardinality(delivered') = sent'
    BY <1>2, FS_Interval
  <1>4. PICK k \in Nat : sent' = k * FrameLen
    BY <1>3 DEF CountInv
  <1>5. InRow(k)'
    BY <1>1, <1>2, <1>4 DEF InRow
  <1> QED
    BY <1>5

\* ReadFile moves the queue behind what was assembled; a full frame is a swipe.
LEMMA RowRead ==
  ASSUME PlaceInv, OrderInv, CountInv, WholeInv, PlaceInv', CountInv',
         NEW r \in Readers, Read(r)
  PROVE  WholeInv'
  <1> DEFINE text == temp[r] \o queue
  <1>1. /\ queue' = << >> /\ sent' = sent /\ lost' = lost /\ straggler' = straggler
        /\ rpc' = [rpc EXCEPT ![r] = "purge"] /\ Alive(r)
    BY DEF Read, Alive
  <1> SUFFICES ASSUME ~straggler, lost = {}
               PROVE  /\ Readinfo' = << >> \/ Whole(Readinfo')
                      /\ \E k \in Nat : InRow(k)'
    BY <1>1 DEF WholeInv, Whole
  <1>2. PICK k \in Nat : InRow(k)
    BY DEF WholeInv
  <1>3. /\ Len(temp[r]) \in Nat /\ Len(queue) \in Nat /\ sent \in Nat
        /\ k * FrameLen \in Nat /\ Len(text) = Len(temp[r]) + Len(queue)
        /\ k * FrameLen + Len(temp[r]) + Len(queue) = sent
    BY <1>1, <1>2, ComAsyAssumption DEF PlaceInv, Texts, InRow
  <1>4. ASSUME NEW i \in 1 .. Len(text) PROVE text[i] = k * FrameLen + i
    <2>1. CASE i <= Len(temp[r])
      <3>1. text[i] = temp[r][i] /\ i \in 1 .. Len(temp[r])
        BY <1>3, <2>1 DEF PlaceInv, Texts
      <3> QED
        BY <1>2, <3>1 DEF InRow
    <2>2. CASE i > Len(temp[r])
      <3>1. i - Len(temp[r]) \in 1 .. Len(queue)
        BY <1>3, <2>2
      <3>2. text[i] = queue[i - Len(temp[r])]
        BY <1>3, <2>2, <3>1 DEF PlaceInv, Texts
      <3>3. queue[i - Len(temp[r])] = sent - Len(queue) + (i - Len(temp[r]))
        BY <1>2, <3>1 DEF InRow
      <3>4. sent - Len(queue) + (i - Len(temp[r])) = k * FrameLen + i
        <4> DEFINE front == k * FrameLen
        <4> HIDE DEF front
        <4>1. /\ front \in Nat /\ Len(temp[r]) \in Nat /\ Len(queue) \in Nat
              /\ front + Len(temp[r]) + Len(queue) = sent
          BY <1>3 DEF front
        <4>2. i \in Int
          BY <1>3
        <4>3. sent - Len(queue) + (i - Len(temp[r])) = front + i
          BY <4>1, <4>2
        <4> QED
          BY <4>3 DEF front
      <3> QED
        BY <3>2, <3>3, <3>4
    <2> QED
      BY <1>3, <2>1, <2>2
  <1>5. \A q \in Readers \ {r} : ~Alive(q) /\ temp[q] = << >>
    BY <1>1 DEF OrderInv, OneReader, OrderTypes
  <1>6. CASE Len(text) = FrameLen
    <2>1. /\ Readinfo' = text /\ temp' = [temp EXCEPT ![r] = << >>]
          /\ delivered' = delivered \cup Range(text)
      BY <1>6 DEF Read, Assemble
    <2>2. \A q \in Readers : temp'[q] = << >>
      BY <1>5, <2>1 DEF PlaceInv, Texts
    <2>3. k < MaxSwipes
      <3>1. Cardinality(delivered) = k * FrameLen
        BY <1>2, <1>3, FS_Interval DEF InRow
      <3>2. Cardinality(delivered') = Cardinality(delivered) + FrameLen
        BY <1>6, <2>1, FrameDelivered
      <3>3. Cardinality(delivered) \div FrameLen < MaxSwipes
        BY <3>2, SwipesCounted
      <3>4. (k * FrameLen) \div FrameLen = k
        BY ComAsyAssumption
      <3> QED
        BY <3>1, <3>3, <3>4
    <2>4. Whole(Readinfo')
      <3>1. text = [i \in 1 .. FrameLen |-> k * FrameLen + i]
        <4>1. text \in Seq(Nat)
          BY DEF PlaceInv, Texts
        <4> HIDE DEF text
        <4>2. text = [i \in 1 .. Len(text) |-> text[i]]
          BY <4>1
        <4> QED
          BY <1>4, <1>6, <4>2
      <3>2. k \in 0 .. MaxSwipes - 1
        BY <2>3, ComAsyAssumption
      <3> QED
        BY <2>1, <3>1, <3>2 DEF Whole
    <2>5. \E n \in Nat : InRow(n)'
      BY <1>1, <2>2, RowStarts
    <2> QED
      BY <2>4, <2>5
  <1>7. CASE Len(text) # FrameLen
    <2>1. /\ Readinfo' = Readinfo /\ temp' = [temp EXCEPT ![r] = text]
          /\ delivered' = delivered
      BY <1>7 DEF Read, Assemble
    <2>2. temp'[r] = text /\ \A q \in Readers \ {r} : temp'[q] = << >> /\ ~Alive(q)'
      BY <1>1, <1>5, <2>1 DEF PlaceInv, Texts, OrderInv, OrderTypes, Alive
    <2>3. Len(<< >>) = 0 /\ Len(text) \in Nat
      BY <1>3
    <2>4. Len(temp'[r]) = Len(text) /\ Len(queue') = 0
      BY <1>1, <2>2, <2>3
    <2> HIDE DEF text
    <2>5. \A q \in Readers : \A i \in 1 .. Len(temp'[q]) : temp'[q][i] = k * FrameLen + i
      BY <1>4, <2>2, <2>3
    <2>6. \A q \in Readers : Alive(q)' =>
            k * FrameLen + Len(temp'[q]) + Len(queue') = sent'
      BY <1>1, <1>3, <2>2, <2>4
    <2>7. InRow(k)'
      BY <1>1, <1>2, <2>1, <2>4, <2>5, <2>6 DEF InRow
    <2> QED
      BY <2>1, <2>7 DEF WholeInv
  <1> QED
    BY <1>6, <1>7

LEMMA RowReader ==
  ASSUME PlaceInv, OrderInv, CountInv, WholeInv, PlaceInv', CountInv',
         NEW r \in Readers, OnRecv(r)
  PROVE  WholeInv'
  <1>1. CASE Read(r)
    BY <1>1, RowRead
  <1>2. CASE OnRecvStart(r) \/ Test(r)
    <2>1. /\ UNCHANGED <<sent, queue, delivered, m_hCom, straggler>>
          /\ Readinfo' = Readinfo \/ Readinfo' = << >>
      BY <1>2 DEF OnRecvStart, Test
    <2>2. Alive(r) /\ (\A q \in Readers : Alive(q)' => Alive(q))
      BY <1>2 DEF OnRecvStart, Test, End, Alive, OrderInv, OrderTypes
    <2>3. \/ temp' = temp /\ lost' = lost
          \/ temp' = [temp EXCEPT ![r] = << >>] /\ lost' = lost \cup Range(temp[r])
      BY <1>2 DEF OnRecvStart, Test, End
    <2>4. lost' = {} => temp' = temp
      BY <2>3, EmptyRange DEF PlaceInv, Texts
    <2>5. ~m_hCom' => queue' = << >>
      BY <2>1 DEF WholeInv
    <2> QED
      BY <2>1, <2>2, <2>3, <2>4, <2>5, RowKept
  <1>3. CASE Wait(r) \/ Result(r)
    <2>1. UNCHANGED <<sent, queue, temp, delivered, m_hCom, straggler, Readinfo, lost>>
      BY <1>3 DEF Wait, Result, history
    <2>2. \A q \in Readers : Alive(q)' => Alive(q)
      BY <1>3 DEF Wait, Result, Alive, OrderInv, OrderTypes
    <2> QED
      BY <2>1, <2>2, RowKept DEF WholeInv
  <1>4. CASE Purge(r)
    <2>1. /\ UNCHANGED <<sent, temp, delivered, m_hCom, straggler, Readinfo>>
          /\ queue' = << >> /\ lost' = lost \cup Range(queue)
      BY <1>4 DEF Purge
    <2>2. \A q \in Readers : Alive(q)' => Alive(q)
      BY <1>4 DEF Purge, Alive, OrderInv, OrderTypes
    <2>3. lost' = {} => queue' = queue
      BY <2>1, EmptyRange DEF PlaceInv, Texts
    <2> QED
      BY <2>1, <2>2, <2>3, RowKept
  <1> QED
    BY <1>1, <1>2, <1>3, <1>4 DEF OnRecv

\* A reader that is made finds an empty queue, and all that was sent delivered.
LEMMA RowOpen ==
  ASSUME PlaceInv, OrderInv, LinkInv, CountInv, WholeInv, PlaceInv', CountInv',
         NEW ok \in BOOLEAN, InitCOM(ok)
  PROVE  WholeInv'
  <1>1. /\ UNCHANGED <<sent, queue, temp, Readinfo, lost, delivered, straggler>>
        /\ mpc \in {"boot", "closed"}
    BY DEF InitCOM
  <1>2. queue = << >>
    BY <1>1 DEF LinkInv, WholeInv
  <1> SUFFICES ASSUME ~straggler, lost = {} PROVE \E k \in Nat : InRow(k)'
    BY <1>1, <1>2 DEF WholeInv, Whole
  <1>3. \A r \in Readers : temp[r] = << >>
    BY <1>1 DEF OrderInv, OrderTypes, OneReader
  <1> QED
    BY <1>1, <1>2, <1>3, RowStarts

LEMMA RowMain ==
  ASSUME PlaceInv, OrderInv, LinkInv, CountInv, WholeInv, PlaceInv', CountInv',
         MainNext
  PROVE  WholeInv'
  <1>1. CASE \E ok \in BOOLEAN : InitCOM(ok)
    BY <1>1, RowOpen
  <1>2. CASE CloseCom
    <2>1. /\ UNCHANGED <<sent, temp, rpc, delivered, straggler, Readinfo>>
          /\ queue' = << >> /\ lost' = lost \cup Range(queue)
      BY <1>2 DEF CloseCom, readerVars
    <2>2. lost' = {} => queue' = queue
      BY <2>1, EmptyRange DEF PlaceInv, Texts
    <2> QED
      BY <2>1, <2>2, RowKept DEF Alive
  <1>3. CASE UninitCOM
    <2>1. /\ UNCHANGED <<sent, queue, temp, rpc, delivered, lost, m_hCom, Readinfo>>
          /\ straggler' = (straggler \/ Alive(opens))
      BY <1>3 DEF UninitCOM, readerVars
    <2>2. straggler => straggler'
      BY <2>1
    <2> QED
      BY <2>1, <2>2, RowKept DEF Alive, WholeInv
  <1>4. CASE \/ SetIsOpen \/ ClearMark \/ ClearIsOpen \/ UninitClosed
             \/ ComWrite \/ TakeCard \/ Retry \/ Clear
    <2>1. /\ UNCHANGED <<sent, queue, temp, rpc, delivered, lost, m_hCom, straggler>>
          /\ Readinfo' = Readinfo \/ Readinfo' = << >>
      BY <1>4 DEF SetIsOpen, ClearMark, ClearIsOpen, UninitClosed,
         ComWrite, TakeCard, Retry, Clear, readerVars, history
    <2> QED
      BY <2>1, RowKept DEF Alive, WholeInv
  <1> QED
    BY <1>1, <1>2, <1>3, <1>4 DEF MainNext

LEMMA RowRestart ==
  ASSUME PlaceInv, PlaceInv', CountInv', Restart PROVE WholeInv'
  <1>1. /\ queue' = << >> /\ Readinfo' = << >> /\ \A r \in Readers : temp'[r] = << >>
    BY DEF Restart
  <1>2. lost' = {} => \E k \in Nat : InRow(k)'
    BY <1>1, RowStarts
  <1> QED
    BY <1>1, <1>2 DEF WholeInv

LEMMA WholeNext ==
  ASSUME PlaceInv, OrderInv, LinkInv, CountInv, WholeInv, PlaceInv', CountInv',
         [Next]_vars
  PROVE  WholeInv'
  <1>1. CASE UNCHANGED vars
    BY <1>1, RowKept DEF vars, readerVars, history, Alive, WholeInv
  <1> QED
    BY <1>1, RowSend, RowReader, RowMain, RowRestart DEF Next

LEMMA WholeInit == Init => WholeInv
  <1> SUFFICES ASSUME Init PROVE WholeInv
    OBVIOUS
  <1>1. Len(<< >>) = 0 /\ 0 \in Nat /\ 0 * FrameLen = 0 /\ 1 .. 0 = {}
    BY ComAsyAssumption
  <1>2. InRow(0)
    BY <1>1 DEF Init, InRow, Alive
  <1> QED
    BY <1>1, <1>2 DEF Init, WholeInv

(***************************************************************************)
(* What main takes for a card is one swipe: OnRecv's count of 32 never     *)
(* straddles two, unless characters were lost or a reader has outlived     *)
(* UninitCOM's wait.                                                       *)
(***************************************************************************)
THEOREM CardsAreSwipes == Spec => []CardIsOneSwipe
  <1>1. WholeInv => CardIsOneSwipe
    BY DEF WholeInv, CardIsOneSwipe
  <1>2. OrderInv => OrderTypes
    BY DEF OrderInv
  <1> QED
    BY <1>1, <1>2, PlaceInit, PlaceNext, OrderInit, OrderNext, LinkInit, LinkNext,
       CountInit, CountNext, WholeInit, WholeNext, PTL DEF Spec
-----------------------------------------------------------------------------
\* The types no other invariant has.
TypeInv ==
  /\ isopenCOM \in {0, 1}
  /\ len \in 0 .. ReadyLen
  /\ opens \in 0 .. MaxOpens
  /\ hand \in Seq(Nat)

LEMMA TypeNext ==
  ASSUME OrderTypes, TypeInv, [Next]_vars PROVE TypeInv'
  <1>1. ASSUME NEW r \in Readers, OnRecv(r) PROVE TypeInv'
    BY <1>1 DEF OnRecv, OnRecvStart, Wait, Read, Purge, Result, Test, mainVars,
       TypeInv
  <1>2. CASE \E ok \in BOOLEAN : InitCOM(ok)
    BY <1>2, ComAsyAssumption DEF InitCOM, TypeInv
  <1>3. CASE ComWrite \/ TakeCard
    BY <1>3, ComAsyAssumption DEF ComWrite, TakeCard, TypeInv, OrderTypes
  <1>4. CASE \/ SetIsOpen \/ ClearMark \/ ClearIsOpen \/ CloseCom \/ UninitCOM
             \/ UninitClosed \/ Retry \/ Clear
    <2>1. UNCHANGED <<len, opens>> /\ hand' \in {hand, << >>}
          /\ isopenCOM' \in {isopenCOM, 0}
      BY <1>4 DEF SetIsOpen, ClearMark, ClearIsOpen, CloseCom, UninitCOM,
         UninitClosed, Retry, Clear
    <2>2. << >> \in Seq(Nat)
      OBVIOUS
    <2> QED
      BY <2>1, <2>2 DEF TypeInv
  <1>5. CASE Restart
    BY <1>5, ComAsyAssumption DEF Restart, TypeInv
  <1>6. CASE Send \/ UNCHANGED vars
    BY <1>6 DEF Send, vars, mainVars, TypeInv
  <1> QED
    BY <1>1, <1>2, <1>3, <1>4, <1>5, <1>6 DEF Next, MainNext

(***************************************************************************)
(* The types of ComAsy's variables: what is in its sequences was sent.     *)
(***************************************************************************)
THEOREM ReaderTypes == Spec => []TypeOK
  <1>1. Init => TypeInv
    BY ComAsyAssumption DEF Init, TypeInv
  <1>2. PlaceInv /\ HandInv /\ OrderInv /\ LinkInv /\ CountInv /\ TypeInv => TypeOK
    <2> SUFFICES ASSUME PlaceInv, HandInv, OrderInv, LinkInv, CountInv, TypeInv
                 PROVE  TypeOK
      OBVIOUS
    <2>1. 1 .. sent \subseteq Chars /\ sent \in 0 .. MaxSwipes * FrameLen
      BY ComAsyAssumption DEF PlaceInv, Texts, CountInv, Chars
    <2>2. /\ Range(queue) \subseteq Chars /\ delivered \subseteq Chars
          /\ lost \subseteq Chars
          /\ \A r \in Readers : Range(temp[r]) \subseteq Chars
      BY <2>1 DEF PlaceInv, OnePlace
    <2>3. ASSUME NEW s \in Seq(Nat), Range(s) \subseteq Chars PROVE s \in Seq(Chars)
      BY <2>3 DEF Range
    <2>4. /\ queue \in Seq(Chars) /\ Readinfo \in Seq(Chars) /\ hand \in Seq(Chars)
          /\ done \subseteq Chars
      BY <2>2, <2>3 DEF PlaceInv, Texts, HandInv, OrderInv, OrderTypes, TypeInv
    <2>5. temp \in [Readers -> Seq(Chars)]
      BY <2>2, <2>3 DEF PlaceInv, Texts
    <2> QED
      BY <2>1, <2>2, <2>4, <2>5 DEF TypeOK, OrderInv, OrderTypes, LinkInv, TypeInv
  <1>3. OrderInv => OrderTypes
    BY DEF OrderInv
  <1> QED
    BY <1>1, <1>2, <1>3, PlaceInit, PlaceNext, HandInit, HandNext, OrderInit,
       OrderNext, LinkInit, LinkNext, CountInit, CountNext, TypeNext, PTL DEF Spec
=============================================================================
