---------------------------- MODULE ComAsyProofs ----------------------------
(***************************************************************************)
(* The characters of ComAsy, for any length of a frame, any number of      *)
(* swipes and of readers, in time or left over.                            *)
(***************************************************************************)
EXTENDS ComAsy, TLAPS

\* What the proofs need to know of the sequences.
Texts ==
  /\ sent \in Nat
  /\ queue \in Seq(Nat)
  /\ temp \in [Readers -> Seq(Nat)]

\* A sequence of characters, extended or joined to another.
LEMMA RangeOf ==
  ASSUME NEW s \in Seq(Nat), NEW t \in Seq(Nat), NEW c \in Nat
  PROVE  /\ Range(<< >>) = {}
         /\ Append(s, c) \in Seq(Nat) /\ Range(Append(s, c)) = Range(s) \cup {c}
         /\ s \o t \in Seq(Nat) /\ Range(s \o t) = Range(s) \cup Range(t)
  <1>1. Range(<< >>) = {}
    BY DEF Range
  <1>2. Append(s, c) \in Seq(Nat) /\ Range(Append(s, c)) = Range(s) \cup {c}
    <2>1. DOMAIN Append(s, c) = 1 .. Len(s) + 1 /\ DOMAIN s = 1 .. Len(s)
      OBVIOUS
    <2>2. ASSUME NEW i \in 1 .. Len(s) PROVE Append(s, c)[i] = s[i]
      OBVIOUS
    <2>3. Append(s, c)[Len(s) + 1] = c
      OBVIOUS
    <2>4. Range(Append(s, c)) \subseteq Range(s) \cup {c}
      BY <2>1, <2>2, <2>3 DEF Range
    <2>5. Range(s) \cup {c} \subseteq Range(Append(s, c))
      BY <2>1, <2>2, <2>3 DEF Range
    <2> QED
      BY <2>4, <2>5
  <1>3. s \o t \in Seq(Nat) /\ Range(s \o t) = Range(s) \cup Range(t)
    <2>1. /\ DOMAIN (s \o t) = 1 .. Len(s) + Len(t)
          /\ DOMAIN s = 1 .. Len(s) /\ DOMAIN t = 1 .. Len(t)
          /\ Len(s) \in Nat /\ Len(t) \in Nat
      OBVIOUS
    <2>2. ASSUME NEW i \in 1 .. Len(s) PROVE (s \o t)[i] = s[i]
      OBVIOUS
    <2>3. ASSUME NEW i \in 1 .. Len(t) PROVE (s \o t)[Len(s) + i] = t[i]
      OBVIOUS
    <2>4. ASSUME NEW x \in Range(s \o t) PROVE x \in Range(s) \cup Range(t)
      <3>1. PICK i \in 1 .. Len(s) + Len(t) : x = (s \o t)[i]
        BY <2>1 DEF Range
      <3>2. CASE i <= Len(s)
        BY <2>1, <2>2, <3>1, <3>2 DEF Range
      <3>3. CASE i > Len(s)
        <4>1. i - Len(s) \in 1 .. Len(t) /\ Len(s) + (i - Len(s)) = i
          BY <2>1, <3>1, <3>3
        <4>2. x = t[i - Len(s)]
          BY <2>3, <3>1, <4>1
        <4> QED
          BY <2>1, <4>1, <4>2 DEF Range
      <3> QED
        BY <2>1, <3>1, <3>2, <3>3
    <2>5. ASSUME NEW x \in Range(s) PROVE x \in Range(s \o t)
      BY <2>1, <2>2 DEF Range
    <2>6. ASSUME NEW x \in Range(t) PROVE x \in Range(s \o t)
      <3>1. PICK i \in 1 .. Len(t) : x = t[i]
        BY <2>1 DEF Range
      <3>2. Len(s) + i \in DOMAIN (s \o t)
        BY <2>1
      <3> QED
        BY <2>3, <3>1, <3>2 DEF Range
    <2> QED
      BY <2>4, <2>5, <2>6
  <1> QED
    BY <1>1, <1>2, <1>3

PlaceInv == Texts /\ OnePlace

\* The characters some reader has assembled.
Assembled == UNION {Range(temp[r]) : r \in Readers}

\* They are one reader's and those of the others.
LEMMA AssembledSplit ==
  ASSUME NEW r \in Readers
  PROVE  /\ Assembled = Range(temp[r])
                          \cup UNION {Range(temp[q]) : q \in Readers \ {r}}
         /\ Assembled' = Range(temp'[r])
                           \cup UNION {Range(temp'[q]) : q \in Readers \ {r}}
  BY DEF Assembled

placeVars == <<sent, queue, temp, lost, delivered>>

\* A step that moves no character.
LEMMA PlaceStutter == ASSUME PlaceInv, UNCHANGED placeVars PROVE PlaceInv'
  BY DEF PlaceInv, Texts, OnePlace, placeVars

\* A character that is sent is new, and goes to the queue or nowhere.
LEMMA PlaceSend == ASSUME PlaceInv, Send PROVE PlaceInv'
  <1> DEFINE c == sent + 1
  <1>1. c \in Nat /\ sent' = c /\ temp' = temp /\ delivered' = delivered
    BY DEF Send, PlaceInv, Texts, readerVars
  <1>2. c \notin 1 .. sent /\ 1 .. sent' = (1 .. sent) \cup {c}
    BY <1>1 DEF PlaceInv, Texts
  <1>3. /\ queue' \in Seq(Nat)
        /\ \/ Range(queue') = Range(queue) \cup {c} /\ lost' = lost
           \/ queue' = queue /\ lost' = lost \cup {c}
    BY <1>1, RangeOf DEF Send, PlaceInv, Texts
  <1>4. Texts'
    BY <1>1, <1>3 DEF PlaceInv, Texts
  <1> HIDE DEF c
  <1>5. c \notin Range(queue) \cup delivered \cup lost
          \cup UNION {Range(temp[r]) : r \in Readers}
    BY <1>2 DEF PlaceInv, OnePlace
  <1>6. OnePlace'
    <2>1. \A r \in Readers : Range(temp'[r]) = Range(temp[r])
      BY <1>1
    <2>2. 1 .. sent = Range(queue) \cup delivered \cup lost \cup Assembled
      BY DEF PlaceInv, OnePlace, Assembled
    <2>3. Assembled' = Assembled
      BY <1>1 DEF Assembled
    <2>4. 1 .. sent' = Range(queue') \cup delivered' \cup lost' \cup Assembled'
      BY <1>1, <1>2, <1>3, <2>2, <2>3
    <2>5. \A r \in Readers : c \notin Range(temp[r])
      BY <1>5
    <2>6. /\ Range(queue)' \cap (delivered' \cup lost') = {}
          /\ delivered' \cap lost' = {}
      BY <1>1, <1>3, <1>5 DEF PlaceInv, OnePlace
    <2>7. ASSUME NEW r \in Readers
          PROVE  /\ Range(temp'[r]) \cap (Range(queue') \cup delivered' \cup lost') = {}
                 /\ \A q \in Readers \ {r} : Range(temp'[r]) \cap Range(temp'[q]) = {}
      BY <1>1, <1>3, <2>1, <2>5 DEF PlaceInv, OnePlace
    <2> QED
      BY <2>4, <2>6, <2>7 DEF OnePlace, Assembled
  <1> QED
    BY <1>4, <1>6 DEF PlaceInv

\* One reader's characters, with what is queued, move without being copied.
LEMMA PlaceOne ==
  ASSUME PlaceInv, NEW r \in Readers, sent' = sent,
         \A q \in Readers \ {r} : temp'[q] = temp[q],
         \/ /\ queue' = queue /\ delivered' = delivered
            /\ Range(temp'[r]) = {} /\ lost' = lost \cup Range(temp[r])
         \/ /\ Range(queue') = {} /\ lost' = lost
            /\ Range(temp'[r]) = {}
            /\ delivered' = delivered \cup (Range(temp[r]) \cup Range(queue))
         \/ /\ Range(queue') = {} /\ lost' = lost /\ delivered' = delivered
            /\ Range(temp'[r]) = Range(temp[r]) \cup Range(queue)
  PROVE  OnePlace'
  <1> DEFINE Others == UNION {Range(temp[q]) : q \in Readers \ {r}}
             OthersNext == UNION {Range(temp'[q]) : q \in Readers \ {r}}
  <1>1. OthersNext = Others
    OBVIOUS
  <1>2. /\ Range(temp[r]) \cap (Range(queue) \cup delivered \cup lost) = {}
        /\ Range(queue) \cap (delivered \cup lost) = {}
        /\ delivered \cap lost = {}
    BY DEF PlaceInv, OnePlace
  <1>3. ASSUME NEW q \in Readers \ {r}
        PROVE  /\ Range(temp[q]) \cap (Range(queue) \cup delivered \cup lost) = {}
               /\ Range(temp[q]) \cap Range(temp[r]) = {}
               /\ \A p \in Readers \ {q} : Range(temp[q]) \cap Range(temp[p]) = {}
    BY DEF PlaceInv, OnePlace
  <1>4. 1 .. sent = Range(queue) \cup delivered \cup lost \cup Range(temp[r]) \cup Others
    BY AssembledSplit DEF PlaceInv, OnePlace, Assembled
  <1> HIDE DEF Others, OthersNext
  <1>5. 1 .. sent' = Range(queue') \cup delivered' \cup lost'
                       \cup Range(temp'[r]) \cup OthersNext
    BY <1>1, <1>4
  <1>6. /\ Range(queue') \cap (delivered' \cup lost') = {}
        /\ delivered' \cap lost' = {}
        /\ Range(temp'[r]) \cap (Range(queue') \cup delivered' \cup lost') = {}
    BY <1>2
  <1>7. ASSUME NEW q \in Readers \ {r}
        PROVE  /\ Range(temp'[q]) \cap (Range(queue') \cup delivered' \cup lost') = {}
               /\ Range(temp'[q]) \cap Range(temp'[r]) = {}
    BY <1>3
  <1>8. ASSUME NEW q \in Readers, NEW p \in Readers \ {q}
        PROVE  Range(temp'[q]) \cap Range(temp'[p]) = {}
    <2>1. CASE q = r
      BY <2>1, <1>7
    <2>2. CASE p = r
      BY <2>2, <1>7
    <2>3. CASE q # r /\ p # r
      BY <2>3, <1>3
    <2> QED
      BY <2>1, <2>2, <2>3
  <1>9. Assembled' = Range(temp'[r]) \cup OthersNext
    BY AssembledSplit DEF OthersNext
  <1> QED
    BY <1>5, <1>6, <1>7, <1>8, <1>9 DEF OnePlace, Assembled

\* A reader that ends loses what it had assembled.
LEMMA PlaceEnd ==
  ASSUME PlaceInv, NEW r \in Readers, End(r), UNCHANGED <<sent, queue, delivered>>
  PROVE  PlaceInv'
  <1>1. /\ temp' = [temp EXCEPT ![r] = << >>]
        /\ lost' = lost \cup Range(temp[r])
    BY DEF End
  <1>2. Texts'
    BY <1>1 DEF PlaceInv, Texts
  <1>3. Range(temp'[r]) = {} /\ \A q \in Readers \ {r} : temp'[q] = temp[q]
    BY <1>1, RangeOf DEF PlaceInv, Texts
  <1>4. OnePlace'
    BY <1>1, <1>3, PlaceOne
  <1> QED
    BY <1>2, <1>4 DEF PlaceInv

\* What is read moves from the queue to TempReadinfo, or on to Readinfo.
LEMMA PlaceRead ==
  ASSUME PlaceInv, NEW r \in Readers, Read(r) PROVE PlaceInv'
  <1> DEFINE text == temp[r] \o queue
  <1>1. text \in Seq(Nat) /\ Range(text) = Range(temp[r]) \cup Range(queue)
    BY RangeOf DEF PlaceInv, Texts
  <1>2. /\ queue' = << >> /\ Range(queue') = {}
        /\ sent' = sent /\ lost' = lost
    BY RangeOf DEF Read, PlaceInv, Texts
  <1>3. \/ /\ temp' = [temp EXCEPT ![r] = << >>]
           /\ delivered' = delivered \cup Range(text)
        \/ temp' = [temp EXCEPT ![r] = text] /\ delivered' = delivered
    BY DEF Read, Assemble
  <1> HIDE DEF text
  <1>4. Texts'
    <2>1. queue' \in Seq(Nat)
      BY <1>2
    <2>2. << >> \in Seq(Nat)
      OBVIOUS
    <2>3. PICK new \in Seq(Nat) : temp' = [temp EXCEPT ![r] = new]
      BY <1>1, <1>3, <2>2
    <2>4. temp' \in [Readers -> Seq(Nat)]
      BY <2>3 DEF PlaceInv, Texts
    <2> QED
      BY <1>2, <2>1, <2>4 DEF PlaceInv, Texts
  <1>5. /\ \A q \in Readers \ {r} : temp'[q] = temp[q]
        /\ \/ Range(temp'[r]) = {} /\ delivered' = delivered \cup Range(text)
           \/ Range(temp'[r]) = Range(text) /\ delivered' = delivered
    BY <1>3, RangeOf DEF PlaceInv, Texts
  <1>6. OnePlace'
    BY <1>1, <1>2, <1>5, PlaceOne
  <1> QED
    BY <1>4, <1>6 DEF PlaceInv

\* Purging, or closing the handle, loses what is queued.
LEMMA PlacePurge ==
  ASSUME PlaceInv, queue' = << >>, lost' = lost \cup Range(queue),
         UNCHANGED <<sent, temp, delivered>>
  PROVE  PlaceInv'
  <1>1. Range(queue') = {}
    BY RangeOf DEF PlaceInv, Texts
  <1>2. Texts'
    BY DEF PlaceInv, Texts
  <1>3. OnePlace'
    BY <1>1 DEF PlaceInv, OnePlace
  <1> QED
    BY <1>2, <1>3 DEF PlaceInv

\* The end of a process loses what is queued and what its readers had.
LEMMA PlaceRestart == ASSUME PlaceInv, Restart PROVE PlaceInv'
  <1>1. /\ queue' = << >> /\ Range(queue') = {} /\ Range(<< >>) = {}
        /\ temp' = [r \in Readers |-> << >>]
        /\ sent' = sent /\ delivered' = delivered
        /\ lost' = lost \cup Range(queue) \cup UNION {Range(temp[r]) : r \in Readers}
    BY RangeOf DEF Restart, PlaceInv, Texts
  <1>2. Texts'
    BY <1>1 DEF PlaceInv, Texts
  <1>3. OnePlace'
    BY <1>1 DEF PlaceInv, OnePlace
  <1> QED
    BY <1>2, <1>3 DEF PlaceInv

\* A step of a reader.
LEMMA PlaceReader ==
  ASSUME PlaceInv, NEW r \in Readers, OnRecv(r) PROVE PlaceInv'
  <1>1. CASE OnRecvStart(r)
    <2>1. CASE m_IsOpen
      BY <1>1, <2>1, PlaceStutter DEF OnRecvStart, placeVars
    <2>2. CASE ~m_IsOpen
      BY <1>1, <2>2, PlaceEnd DEF OnRecvStart
    <2> QED
      BY <2>1, <2>2
  <1>2. CASE Wait(r)
    BY <1>2, PlaceStutter DEF Wait, placeVars, history
  <1>3. CASE Read(r)
    BY <1>3, PlaceRead
  <1>4. CASE Purge(r)
    BY <1>4, PlacePurge DEF Purge
  <1>5. CASE Result(r)
    BY <1>5, PlaceStutter DEF Result, placeVars, history
  <1>6. CASE Test(r)
    <2>1. CASE m_IsOpen
      BY <1>6, <2>1, PlaceStutter DEF Test, placeVars
    <2>2. CASE ~m_IsOpen
      BY <1>6, <2>2, PlaceEnd DEF Test
    <2> QED
      BY <2>1, <2>2
  <1> QED
    BY <1>1, <1>2, <1>3, <1>4, <1>5, <1>6 DEF OnRecv

\* A step of main: only closing the handle touches a character.
LEMMA PlaceMain == ASSUME PlaceInv, MainNext PROVE PlaceInv'
  <1>1. CASE CloseCom
    BY <1>1, PlacePurge DEF CloseCom, readerVars
  <1>2. CASE UNCHANGED placeVars
    BY <1>2, PlaceStutter
  <1>3. CASE \E ok \in BOOLEAN : InitCOM(ok)
    BY <1>3, <1>2 DEF InitCOM, placeVars
  <1>4. CASE SetIsOpen \/ ClearMark \/ ClearIsOpen \/ UninitCOM \/ UninitClosed
             \/ ComWrite \/ TakeCard \/ Retry \/ Clear
    BY <1>4, <1>2 DEF SetIsOpen, ClearMark, ClearIsOpen, UninitCOM,
       UninitClosed, ComWrite, TakeCard, Retry, Clear, placeVars, readerVars,
       history
  <1> QED
    BY <1>1, <1>3, <1>4 DEF MainNext

\* Every step leaves every character in one place.
LEMMA PlaceNext == ASSUME PlaceInv, [Next]_vars PROVE PlaceInv'
  <1>1. CASE UNCHANGED vars
    BY <1>1, PlaceStutter DEF vars, placeVars, readerVars, history
  <1> QED
    BY <1>1, PlaceSend, PlaceReader, PlaceMain, PlaceRestart DEF Next

LEMMA PlaceInit == Init => PlaceInv
  <1> SUFFICES ASSUME Init PROVE PlaceInv
    OBVIOUS
  <1>1. Range(<< >>) = {}
    BY DEF Range
  <1>2. Texts
    BY DEF Init, Texts
  <1>3. OnePlace
    BY <1>1 DEF Init, OnePlace
  <1> QED
    BY <1>2, <1>3 DEF PlaceInv

(***************************************************************************)
(* No character is read twice or delivered in two cards: not with several  *)
(* readers on one port, not over a reopening, not over a restart.          *)
(***************************************************************************)
THEOREM CharactersInOnePlace == Spec => []OnePlace
  <1>1. PlaceInv => OnePlace
    BY DEF PlaceInv
  <1> QED
    BY <1>1, PlaceInit, PlaceNext, PTL DEF Spec

(***************************************************************************)
(* What main has was delivered, and what is delivered later is new: that   *)
(* is why a card main has finished with cannot come back.                  *)
(***************************************************************************)
HandInv ==
  /\ Range(Readinfo) \subseteq delivered
  /\ Range(hand) \subseteq delivered
  /\ done \subseteq delivered
  /\ NeverReplayed

handVars == <<Readinfo, hand, done, delivered>>

\* A step that leaves main's card and its history alone.
LEMMA HandStutter == ASSUME HandInv, UNCHANGED handVars PROVE HandInv'
  BY DEF HandInv, NeverReplayed, handVars

\* A frame that is read consists of characters never delivered before.
LEMMA HandRead ==
  ASSUME PlaceInv, HandInv, NEW r \in Readers, Read(r) PROVE HandInv'
  <1> DEFINE text == temp[r] \o queue
  <1>1. Range(text) = Range(temp[r]) \cup Range(queue)
    BY RangeOf DEF PlaceInv, Texts
  <1>2. Range(text) \cap delivered = {}
    BY <1>1 DEF PlaceInv, OnePlace
  <1>3. hand' = hand /\ done' = done
    BY DEF Read, mainVars
  <1>4. \/ Readinfo' = text /\ delivered' = delivered \cup Range(text)
        \/ Readinfo' = Readinfo /\ delivered' = delivered
    BY DEF Read, Assemble
  <1> HIDE DEF text
  <1> QED
    BY <1>2, <1>3, <1>4 DEF HandInv, NeverReplayed

\* Every step keeps finished cards away from Readinfo.
LEMMA HandNext == ASSUME PlaceInv, HandInv, [Next]_vars PROVE HandInv'
  <1>0. Range(<< >>) = {}
    BY DEF Range
  <1>1. CASE UNCHANGED handVars
    BY <1>1, HandStutter
  <1>2. ASSUME NEW r \in Readers, OnRecv(r) PROVE HandInv'
    <2>1. CASE OnRecvStart(r)
      BY <2>1, <1>0 DEF OnRecvStart, HandInv, NeverReplayed, mainVars
    <2>2. CASE Read(r)
      BY <2>2, HandRead
    <2>3. CASE Wait(r) \/ Purge(r) \/ Result(r) \/ Test(r)
      BY <2>3, <1>1 DEF Wait, Purge, Result, Test, handVars, mainVars, history
    <2> QED
      BY <1>2, <2>1, <2>2, <2>3 DEF OnRecv
  <1>3. CASE TakeCard
    BY <1>3 DEF TakeCard, HandInv, NeverReplayed, history
  <1>4. CASE Retry
    BY <1>4, <1>0 DEF Retry, HandInv, NeverReplayed, history
  <1>5. CASE Clear
    BY <1>5, <1>0 DEF Clear, HandInv, NeverReplayed
  <1>6. CASE Restart
    BY <1>6, <1>0 DEF Restart, HandInv, NeverReplayed
  <1>7. CASE Send \/ SetIsOpen \/ ClearMark \/ ClearIsOpen \/ CloseCom
             \/ UninitCOM \/ UninitClosed \/ ComWrite
    BY <1>7, <1>1 DEF Send, SetIsOpen, ClearMark, ClearIsOpen, CloseCom,
       UninitCOM, UninitClosed, ComWrite, handVars, mainVars, history
  <1>8. CASE \E ok \in BOOLEAN : InitCOM(ok)
    BY <1>8, <1>1 DEF InitCOM, handVars
  <1>9. CASE UNCHANGED vars
    BY <1>9, <1>1 DEF vars, handVars, mainVars, history
  <1> QED
    BY <1>2, <1>3, <1>4, <1>5, <1>6, <1>7, <1>8, <1>9 DEF Next, MainNext

LEMMA HandInit == Init => HandInv
  <1> SUFFICES ASSUME Init PROVE HandInv
    OBVIOUS
  <1>1. Range(<< >>) = {}
    BY DEF Range
  <1> QED
    BY <1>1 DEF Init, HandInv, NeverReplayed

(***************************************************************************)
(* A card main has finished with never comes back, from whichever reader.  *)
(***************************************************************************)
THEOREM FinishedCardsStayAway == Spec => []NeverReplayed
  <1>1. HandInv => NeverReplayed
    BY DEF HandInv
  <1> QED
    BY <1>1, PlaceInit, PlaceNext, HandInit, HandNext, PTL DEF Spec

(***************************************************************************)
(* The order of the characters.  As long as no reader outlives its wait,   *)
(* the open port's reader is the only one with characters, they precede    *)
(* those in the queue, and both follow all that was delivered.  By         *)
(* OnePlace, what is missing in between can only be lost.                  *)
(***************************************************************************)
Flow(r) ==
  /\ Ordered(temp[r])
  /\ \A x \in Range(temp[r]) :
       /\ \A y \in Range(queue) : x < y
       /\ \A d \in delivered : d < x

OneReader ==
  /\ \A r \in Readers : Alive(r) => r = opens /\ mpc \notin {"boot", "closed", "done"}
  /\ Ordered(queue)
  /\ \A y \in Range(queue) : \A d \in delivered : d < y
  /\ \A r \in Readers : Flow(r)

OrderTypes ==
  /\ opens \in Nat
  /\ rpc \in [Readers -> {"none", "starting", "wait", "read", "purge",
                          "result", "test", "gone"}]
  /\ straggler \in BOOLEAN
  /\ Readinfo \in Seq(Nat)
  /\ \A r \in Readers : ~Alive(r) => temp[r] = << >>

OrderInv == OrderTypes /\ InOrder /\ (~straggler => OneReader)

\* Two sequences in order, the first before the second, joined.
LEMMA OrderedJoin ==
  ASSUME NEW s \in Seq(Nat), NEW t \in Seq(Nat), Ordered(s), Ordered(t),
         \A x \in Range(s) : \A y \in Range(t) : x < y
  PROVE  Ordered(s \o t)
  <1>1. /\ DOMAIN (s \o t) = 1 .. Len(s) + Len(t)
        /\ DOMAIN s = 1 .. Len(s) /\ DOMAIN t = 1 .. Len(t)
        /\ Len(s) \in Nat /\ Len(t) \in Nat
    OBVIOUS
  <1>2. ASSUME NEW i \in 1 .. Len(s) PROVE (s \o t)[i] = s[i] /\ s[i] \in Range(s)
    BY <1>1 DEF Range
  <1>3. ASSUME NEW i \in Len(s) + 1 .. Len(s) + Len(t)
        PROVE  /\ (s \o t)[i] = t[i - Len(s)] /\ t[i - Len(s)] \in Range(t)
               /\ i - Len(s) \in 1 .. Len(t)
    <2>1. i - Len(s) \in 1 .. Len(t)
      BY <1>1
    <2> QED
      BY <1>1, <2>1 DEF Range
  <1>4. ASSUME NEW i \in DOMAIN (s \o t), NEW j \in DOMAIN (s \o t), i < j
        PROVE  (s \o t)[i] < (s \o t)[j]
    <2>1. CASE j <= Len(s)
      <3>1. i \in DOMAIN s /\ j \in DOMAIN s
        BY <1>1, <1>4, <2>1
      <3> QED
        BY <1>1, <1>2, <1>4, <3>1 DEF Ordered
    <2>2. CASE i <= Len(s) /\ j > Len(s)
      <3>1. i \in 1 .. Len(s) /\ j \in Len(s) + 1 .. Len(s) + Len(t)
        BY <1>1, <2>2
      <3> QED
        BY <1>2, <1>3, <3>1
    <2>3. CASE i > Len(s)
      <3>1. i \in Len(s) + 1 .. Len(s) + Len(t) /\ j \in Len(s) + 1 .. Len(s) + Len(t)
        BY <1>1, <1>4, <2>3
      <3>2. i - Len(s) \in DOMAIN t /\ j - Len(s) \in DOMAIN t
            /\ i - Len(s) < j - Len(s)
        BY <1>1, <1>3, <1>4, <3>1
      <3> QED
        BY <1>3, <3>1, <3>2 DEF Ordered
    <2> QED
      BY <1>1, <2>1, <2>2, <2>3
  <1> QED
    BY <1>4 DEF Ordered

\* A sequence in order, with a greater character after it.
LEMMA OrderedAppend ==
  ASSUME NEW s \in Seq(Nat), NEW c \in Nat, Ordered(s), \A x \in Range(s) : x < c
  PROVE  Ordered(Append(s, c))
  <1>1. /\ DOMAIN Append(s, c) = 1 .. Len(s) + 1
        /\ DOMAIN s = 1 .. Len(s) /\ Len(s) \in Nat
        /\ Append(s, c)[Len(s) + 1] = c
    OBVIOUS
  <1>2. ASSUME NEW i \in 1 .. Len(s) PROVE Append(s, c)[i] = s[i] /\ s[i] \in Range(s)
    BY <1>1 DEF Range
  <1>3. ASSUME NEW i \in DOMAIN Append(s, c), NEW j \in DOMAIN Append(s, c), i < j
        PROVE  Append(s, c)[i] < Append(s, c)[j]
    <2>1. i \in 1 .. Len(s)
      BY <1>1, <1>3
    <2>2. CASE j = Len(s) + 1
      BY <1>1, <1>2, <2>1, <2>2
    <2>3. CASE j \in 1 .. Len(s)
      BY <1>1, <1>2, <1>3, <2>1, <2>3 DEF Ordered
    <2> QED
      BY <1>1, <2>2, <2>3
  <1> QED
    BY <1>3 DEF Ordered

\* Readinfo stays in order when it is left alone or cleared.
LEMMA InOrderKept ==
  ASSUME OrderTypes, InOrder, lost \subseteq lost',
         Readinfo' = << >> \/ (Readinfo' = Readinfo /\ (straggler => straggler'))
  PROVE  InOrder' /\ Readinfo' \in Seq(Nat)
  <1>1. CASE Readinfo' = << >>
    <2>1. Len(<< >>) = 0 /\ DOMAIN << >> = {} /\ << >> \in Seq(Nat)
      OBVIOUS
    <2>2. Ordered(<< >>) /\ 1 .. 0 - 1 = {}
      BY <2>1 DEF Ordered
    <2> QED
      BY <1>1, <2>1, <2>2 DEF InOrder
  <1>2. CASE Readinfo' = Readinfo /\ (straggler => straggler')
    BY <1>2 DEF InOrder, Ordered, OrderTypes
  <1> QED
    BY <1>1, <1>2

\* Characters keep their order when some of them go.
LEMMA FlowKept ==
  ASSUME Texts, OneReader,
         queue' = queue \/ queue' = << >>,
         \A r \in Readers : temp'[r] = temp[r] \/ temp'[r] = << >>,
         delivered' = delivered
  PROVE  /\ Ordered(queue)'
         /\ (\A y \in Range(queue) : \A d \in delivered : d < y)'
         /\ \A r \in Readers : Flow(r)'
  <1>1. Range(<< >>) = {} /\ Ordered(<< >>)
    BY DEF Range, Ordered
  <1>2. Range(queue') \subseteq Range(queue) /\ Ordered(queue')
    BY <1>1 DEF OneReader
  <1>3. ASSUME NEW r \in Readers PROVE Flow(r)'
    <2>1. Range(temp'[r]) \subseteq Range(temp[r]) /\ Ordered(temp'[r])
      BY <1>1 DEF OneReader, Flow
    <2> QED
      BY <1>2, <2>1 DEF OneReader, Flow
  <1> QED
    BY <1>2, <1>3 DEF OneReader

\* A step of the port or of a reader that delivers nothing.
LEMMA OrderKept ==
  ASSUME PlaceInv, OrderInv,
         lost \subseteq lost', delivered' = delivered,
         Readinfo' = << >> \/ Readinfo' = Readinfo,
         queue' = queue \/ queue' = << >>,
         \A r \in Readers : temp'[r] = temp[r] \/ temp'[r] = << >>,
         straggler' \in BOOLEAN, straggler => straggler',
         opens' \in Nat,
         rpc' \in [Readers -> {"none", "starting", "wait", "read", "purge",
                               "result", "test", "gone"}],
         \A r \in Readers : ~Alive(r)' => temp'[r] = << >>,
         ~straggler' /\ OneReader =>
           \A r \in Readers : Alive(r)' => r = opens' /\ mpc' \notin {"boot", "closed", "done"}
  PROVE  OrderInv'
  <1>1. InOrder' /\ Readinfo' \in Seq(Nat)
    BY InOrderKept DEF OrderInv
  <1>2. OrderTypes'
    BY <1>1 DEF OrderTypes
  <1>3. ASSUME ~straggler' PROVE OneReader'
    <2>1. OneReader
      BY <1>3 DEF OrderInv, OrderTypes
    <2> QED
      BY <1>3, <2>1, FlowKept DEF OneReader, PlaceInv
  <1> QED
    BY <1>1, <1>2, <1>3 DEF OrderInv

\* A character that is sent follows all that were sent before it.
LEMMA OrderSend ==
  ASSUME PlaceInv, OrderInv, Send PROVE OrderInv'
  <1> DEFINE c == sent + 1
  <1>1. /\ UNCHANGED <<temp, rpc, mpc, opens, Readinfo, delivered, straggler>>
        /\ lost \subseteq lost'
    BY DEF Send, readerVars, mainVars
  <1>2. CASE queue' = queue
    BY <1>1, <1>2, OrderKept DEF OrderInv, OrderTypes, OneReader, Alive
  <1>3. CASE queue' = Append(queue, c)
    <2>1. /\ c \in Nat
          /\ \A x \in Range(queue) \cup delivered : x < c
          /\ \A r \in Readers : \A x \in Range(temp[r]) : x < c
      <3>1. \A x \in 1 .. sent : x < c
        BY DEF PlaceInv, Texts
      <3>2. ASSUME NEW r \in Readers PROVE Range(temp[r]) \subseteq 1 .. sent
        BY DEF PlaceInv, OnePlace
      <3>3. Range(queue) \cup delivered \subseteq 1 .. sent
        BY DEF PlaceInv, OnePlace
      <3> QED
        BY <3>1, <3>2, <3>3 DEF PlaceInv, Texts
    <2> HIDE DEF c
    <2>2. Range(queue') = Range(queue) \cup {c}
      BY <1>3, <2>1, RangeOf DEF PlaceInv, Texts
    <2>3. ASSUME OneReader PROVE OneReader'
      <3>1. Ordered(queue')
        BY <1>3, <2>1, <2>3, OrderedAppend DEF OneReader, PlaceInv, Texts
      <3>2. ASSUME NEW r \in Readers PROVE Flow(r)'
        BY <1>1, <2>1, <2>2, <2>3 DEF Flow, OneReader
      <3> QED
        BY <1>1, <2>1, <2>2, <2>3, <3>1, <3>2 DEF OneReader, Alive
    <2>4. InOrder' /\ Readinfo' \in Seq(Nat)
      BY <1>1, InOrderKept DEF OrderInv
    <2>5. OrderTypes'
      BY <1>1 DEF OrderInv, OrderTypes, Alive
    <2> QED
      BY <1>1, <2>3, <2>4, <2>5 DEF OrderInv
  <1> QED
    BY <1>2, <1>3 DEF Send

\* A frame in order lacks nothing but lost characters: those before its last
\* one that are not in it were not delivered, not queued and not read.
LEMMA FrameGaps ==
  ASSUME PlaceInv, PlaceInv', NEW s \in Seq(Nat), Ordered(s),
         Range(s) \subseteq delivered',
         NEW before, \A x \in Range(s) : \A d \in before : d < x,
         delivered' = before \cup Range(s),
         Range(queue') = {}, \A r \in Readers : Range(temp'[r]) = {},
         NEW i \in 1 .. Len(s) - 1, NEW k \in s[i] + 1 .. s[i + 1] - 1
  PROVE  k \in lost'
  <1>1. /\ DOMAIN s = 1 .. Len(s) /\ Len(s) \in Nat
        /\ i \in DOMAIN s /\ i + 1 \in DOMAIN s /\ s[i] \in Nat /\ s[i + 1] \in Nat
    OBVIOUS
  <1>2. s[i] \in Range(s) /\ s[i + 1] \in Range(s) /\ k \in Nat /\ s[i] < k /\ k < s[i + 1]
    BY <1>1 DEF Range
  <1>3. s[i + 1] \in 1 .. sent' /\ s[i] \in 1 .. sent' /\ sent' \in Nat
    BY <1>2 DEF PlaceInv, OnePlace, Texts
  <1>4. k \in 1 .. sent'
    BY <1>1, <1>2, <1>3
  <1>5. k \notin before
    <2> SUFFICES ASSUME k \in before PROVE FALSE
      OBVIOUS
    <2>1. k < s[i]
      BY <1>2
    <2> QED
      BY <1>1, <1>2, <2>1
  <1>6. k \notin Range(s)
    <2> SUFFICES ASSUME NEW j \in 1 .. Len(s), k = s[j] PROVE FALSE
      BY <1>1 DEF Range
    <2>1. CASE j < i
      <3>1. s[j] < s[i]
        BY <1>1, <2>1 DEF Ordered
      <3> QED
        BY <1>1, <1>2, <3>1
    <2>2. CASE j = i \/ j = i + 1
      BY <1>1, <1>2, <2>2
    <2>3. CASE j > i + 1
      <3>1. s[i + 1] < s[j]
        BY <1>1, <2>3 DEF Ordered
      <3> QED
        BY <1>1, <1>2, <3>1
    <2> QED
      BY <1>1, <2>1, <2>2, <2>3
  <1>7. 1 .. sent' = Range(queue') \cup delivered' \cup lost'
                       \cup UNION {Range(temp'[r]) : r \in Readers}
    BY DEF PlaceInv, OnePlace
  <1>8. UNION {Range(temp'[r]) : r \in Readers} = {}
    OBVIOUS
  <1>9. k \in Range(queue') \cup delivered' \cup lost'
    BY <1>4, <1>7, <1>8
  <1> QED
    BY <1>5, <1>6, <1>9

\* ReadFile joins what was assembled and what is queued.
LEMMA OrderRead ==
  ASSUME PlaceInv, PlaceInv', OrderInv, NEW r \in Readers, Read(r)
  PROVE  OrderInv'
  <1> DEFINE text == temp[r] \o queue
  <1>1. /\ rpc[r] = "read" /\ rpc' = [rpc EXCEPT ![r] = "purge"]
        /\ queue' = << >>
        /\ UNCHANGED <<sent, mpc, opens, lost, straggler>>
    BY DEF Read, mainVars
  <1>2. Alive(r)
    BY <1>1 DEF Alive
  <1>3. text \in Seq(Nat) /\ Range(text) = Range(temp[r]) \cup Range(queue)
    BY RangeOf DEF PlaceInv, Texts
  <1>4. \/ /\ Readinfo' = text /\ temp' = [temp EXCEPT ![r] = << >>]
           /\ delivered' = delivered \cup Range(text)
        \/ /\ temp' = [temp EXCEPT ![r] = text]
           /\ delivered' = delivered /\ Readinfo' = Readinfo
    BY DEF Read, Assemble
  <1>5. OneReader => Ordered(text)
    BY OrderedJoin DEF OneReader, Flow, PlaceInv, Texts
  <1> HIDE DEF text
  <1>6. /\ Range(queue') = {} /\ Range(<< >>) = {}
        /\ Ordered(<< >>) /\ Ordered(queue')
    BY <1>1 DEF Range, Ordered
  <1>7. /\ \A q \in Readers \ {r} : temp'[q] = temp[q] /\ Alive(q)' = Alive(q)
        /\ Alive(r)'
        /\ temp'[r] = << >> \/ temp'[r] = text
    BY <1>1, <1>4 DEF Alive, PlaceInv, Texts, OrderInv, OrderTypes
  <1>8. OrderTypes'
    <2>1. Readinfo' \in Seq(Nat)
      BY <1>3, <1>4 DEF OrderInv, OrderTypes
    <2>2. rpc' \in [Readers -> {"none", "starting", "wait", "read", "purge",
                                "result", "test", "gone"}]
      BY <1>1 DEF OrderInv, OrderTypes
    <2>3. \A q \in Readers : ~Alive(q)' => temp'[q] = << >>
      BY <1>7 DEF OrderInv, OrderTypes
    <2> QED
      BY <1>1, <2>1, <2>2, <2>3 DEF OrderInv, OrderTypes
  <1>9. ASSUME OneReader PROVE OneReader'
    <2>1. \A q \in Readers : Alive(q)' => q = opens' /\ mpc' \notin {"boot", "closed", "done"}
      BY <1>1, <1>2, <1>7, <1>9 DEF OneReader
    <2>2. \A x \in Range(text) : \A d \in delivered : d < x
      BY <1>3, <1>9 DEF OneReader, Flow
    <2>3. \A q \in Readers \ {r} : Range(temp'[q]) = {} /\ Ordered(temp'[q])
      <3>1. \A q \in Readers \ {r} : ~Alive(q)
        BY <1>2, <1>9 DEF OneReader
      <3> QED
        BY <3>1, <1>6, <1>7 DEF OrderInv, OrderTypes
    <2>4. ASSUME NEW q \in Readers PROVE Flow(q)'
      <3>1. CASE q # r
        BY <2>3, <3>1 DEF Flow
      <3>2. CASE q = r
        <4>1. CASE temp' = [temp EXCEPT ![r] = << >>]
          <5>1. temp'[r] = << >>
            BY <4>1 DEF PlaceInv, Texts
          <5> QED
            BY <1>6, <3>2, <5>1 DEF Flow
        <4>2. CASE temp' = [temp EXCEPT ![r] = text] /\ delivered' = delivered
          <5>1. temp'[r] = text
            BY <4>2 DEF PlaceInv, Texts
          <5> QED
            BY <1>5, <1>6, <1>9, <2>2, <3>2, <4>2, <5>1 DEF Flow
        <4> QED
          BY <1>4, <4>1, <4>2
      <3> QED
        BY <3>1, <3>2
    <2> QED
      BY <1>6, <2>1, <2>4 DEF OneReader
  <1>10. InOrder'
    <2>1. CASE Readinfo' = Readinfo
      BY <1>1, <2>1, InOrderKept DEF OrderInv
    <2>2. CASE Readinfo' = text /\ temp' = [temp EXCEPT ![r] = << >>]
               /\ delivered' = delivered \cup Range(text)
      <3> SUFFICES ASSUME ~straggler'
                   PROVE  /\ Ordered(text)
                          /\ \A i \in 1 .. Len(text) - 1 :
                               \A k \in text[i] + 1 .. text[i + 1] - 1 : k \in lost'
        BY <2>2 DEF InOrder, Ordered
      <3>1. OneReader
        BY <1>1 DEF OrderInv
      <3>2. \A x \in Range(text) : \A d \in delivered : d < x
        BY <1>3, <3>1 DEF OneReader, Flow
      <3>3. \A q \in Readers : Range(temp'[q]) = {}
        <4>1. \A q \in Readers \ {r} : ~Alive(q)
          BY <1>2, <3>1 DEF OneReader
        <4>2. temp'[r] = << >>
          BY <2>2 DEF PlaceInv, Texts
        <4> QED
          BY <4>1, <4>2, <1>6, <1>7 DEF OrderInv, OrderTypes
      <3> QED
        BY <1>3, <1>5, <1>6, <2>2, <3>1, <3>2, <3>3, FrameGaps
    <2> QED
      BY <1>4, <2>1, <2>2
  <1> QED
    BY <1>1, <1>8, <1>9, <1>10 DEF OrderInv

\* A reader that ends keeps the order: what it leaves is lost.
LEMMA OrderEnd ==
  ASSUME PlaceInv, OrderInv, NEW r \in Readers, End(r),
         Readinfo' = << >> \/ Readinfo' = Readinfo,
         UNCHANGED <<queue, mpc, opens, delivered, straggler>>
  PROVE  OrderInv'
  <1>1. /\ temp' = [temp EXCEPT ![r] = << >>]
        /\ rpc' = [rpc EXCEPT ![r] = "gone"]
        /\ lost \subseteq lost'
    BY DEF End
  <1>2. /\ \A q \in Readers : temp'[q] = temp[q] \/ temp'[q] = << >>
        /\ \A q \in Readers : ~Alive(q)' => temp'[q] = << >>
        /\ \A q \in Readers : Alive(q)' => Alive(q)
    BY <1>1 DEF PlaceInv, Texts, OrderInv, OrderTypes, Alive
  <1>3. rpc' \in [Readers -> {"none", "starting", "wait", "read", "purge",
                              "result", "test", "gone"}]
    BY <1>1 DEF OrderInv, OrderTypes
  <1> QED
    BY <1>1, <1>2, <1>3, OrderKept DEF OrderInv, OrderTypes, OneReader

\* A reader that goes on keeps the order.
LEMMA OrderGoesOn ==
  ASSUME PlaceInv, OrderInv, NEW r \in Readers, Alive(r),
         NEW pc \in {"wait", "read", "purge", "result", "test"},
         rpc' = [rpc EXCEPT ![r] = pc],
         queue' = queue \/ queue' = << >>, lost \subseteq lost',
         Readinfo' = << >> \/ Readinfo' = Readinfo,
         UNCHANGED <<temp, mpc, opens, delivered, straggler>>
  PROVE  OrderInv'
  <1>1. rpc' \in [Readers -> {"none", "starting", "wait", "read", "purge",
                              "result", "test", "gone"}]
    BY DEF OrderInv, OrderTypes
  <1>2. \A q \in Readers : Alive(q)' = Alive(q)
    BY DEF OrderInv, OrderTypes, Alive
  <1> QED
    BY <1>1, <1>2, OrderKept DEF OrderInv, OrderTypes, OneReader

LEMMA OrderReader ==
  ASSUME PlaceInv, PlaceInv', OrderInv, NEW r \in Readers, OnRecv(r)
  PROVE  OrderInv'
  <1>1. CASE OnRecvStart(r)
    BY <1>1, OrderEnd, OrderGoesOn DEF OnRecvStart, mainVars, Alive
  <1>2. CASE Wait(r)
    BY <1>2, OrderGoesOn DEF Wait, mainVars, history, Alive
  <1>3. CASE Read(r)
    BY <1>3, OrderRead
  <1>4. CASE Purge(r)
    BY <1>4, OrderGoesOn DEF Purge, mainVars, Alive
  <1>5. CASE Result(r)
    BY <1>5, OrderGoesOn DEF Result, mainVars, history, Alive
  <1>6. CASE Test(r)
    BY <1>6, OrderEnd, OrderGoesOn DEF Test, mainVars, Alive
  <1> QED
    BY <1>1, <1>2, <1>3, <1>4, <1>5, <1>6 DEF OnRecv

\* Opening, closing and the work on a card.
LEMMA OrderMain ==
  ASSUME PlaceInv, OrderInv, MainNext PROVE OrderInv'
  <1>1. CASE \E ok \in BOOLEAN : InitCOM(ok)
    <2>1. PICK ok \in BOOLEAN : InitCOM(ok)
      BY <1>1
    <2>2. UNCHANGED <<queue, temp, Readinfo, lost, delivered, straggler>>
      BY <2>1 DEF InitCOM
    <2>3. CASE ok
      <3>1. /\ mpc \in {"boot", "closed"} /\ mpc' \in {"opening", "reopening"}
            /\ opens' = opens + 1 /\ opens + 1 \in Readers
            /\ rpc' = [rpc EXCEPT ![opens + 1] = "starting"]
        BY <2>1, <2>3, ComAsyAssumption DEF InitCOM, Readers, OrderInv, OrderTypes
      <3>2. rpc' \in [Readers -> {"none", "starting", "wait", "read", "purge",
                                  "result", "test", "gone"}]
        BY <3>1 DEF OrderInv, OrderTypes
      <3>3. \A q \in Readers : Alive(q)' <=> Alive(q) \/ q = opens + 1
        BY <3>1 DEF OrderInv, OrderTypes, Alive
      <3> QED
        BY <2>2, <3>1, <3>2, <3>3, OrderKept DEF OrderInv, OrderTypes, OneReader
    <2>4. CASE ~ok
      <3>1. mpc \in {"boot", "closed"} /\ opens' = opens /\ rpc' = rpc
        BY <2>1, <2>4 DEF InitCOM
      <3> QED
        BY <2>2, <3>1, OrderKept DEF OrderInv, OrderTypes, OneReader, Alive
    <2> QED
      BY <2>3, <2>4
  <1>2. CASE UninitCOM
    <2>1. /\ UNCHANGED <<queue, rpc, temp, Readinfo, lost, delivered, opens>>
          /\ straggler' = (straggler \/ Alive(opens))
      BY <1>2 DEF UninitCOM, readerVars
    <2>2. straggler' \in BOOLEAN /\ (straggler => straggler')
      BY <2>1 DEF Alive
    <2>3. ~straggler' /\ OneReader => \A q \in Readers : ~Alive(q)
      BY <2>1 DEF OneReader
    <2> QED
      BY <2>1, <2>2, <2>3, OrderKept DEF OrderInv, OrderTypes, Alive
  <1>3. CASE UninitClosed
    BY <1>3, OrderKept DEF UninitClosed, OrderInv, OrderTypes, OneReader, Alive,
       readerVars, history
  <1>4. CASE SetIsOpen \/ ClearMark \/ ClearIsOpen \/ CloseCom
    <2>1. /\ UNCHANGED <<rpc, temp, Readinfo, delivered, opens, straggler>>
          /\ queue' = queue \/ queue' = << >>
          /\ lost \subseteq lost'
          /\ mpc' \notin {"boot", "closed", "done"}
      BY <1>4 DEF SetIsOpen, ClearMark, ClearIsOpen, CloseCom, readerVars, history
    <2> QED
      BY <2>1, OrderKept DEF OrderInv, OrderTypes, OneReader, Alive
  <1>5. CASE ComWrite \/ TakeCard \/ Retry \/ Clear
    <2>1. /\ UNCHANGED <<queue, rpc, temp, lost, delivered, opens, straggler, mpc>>
          /\ Readinfo' = Readinfo \/ Readinfo' = << >>
      BY <1>5 DEF ComWrite, TakeCard, Retry, Clear, readerVars, history
    <2> QED
      BY <2>1, OrderKept DEF OrderInv, OrderTypes, OneReader, Alive
  <1> QED
    BY <1>1, <1>2, <1>3, <1>4, <1>5 DEF MainNext

\* A new process begins with nothing, stragglers of the old one included.
LEMMA OrderRestart ==
  ASSUME PlaceInv, OrderInv, Restart PROVE OrderInv'
  <1>1. /\ queue' = << >> /\ Readinfo' = << >> /\ straggler' = FALSE
        /\ temp' = [r \in Readers |-> << >>]
        /\ rpc' = [r \in Readers |-> IF r <= opens THEN "gone" ELSE "none"]
        /\ opens' = opens /\ lost \subseteq lost'
    BY DEF Restart
  <1>2. InOrder' /\ Readinfo' \in Seq(Nat)
    BY <1>1, InOrderKept DEF OrderInv
  <1>3. OrderTypes'
    BY <1>1, <1>2 DEF OrderInv, OrderTypes
  <1>4. OneReader'
    BY <1>1 DEF OneReader, Flow, Alive, Range, Ordered
  <1> QED
    BY <1>2, <1>3, <1>4 DEF OrderInv

LEMMA OrderNext ==
  ASSUME PlaceInv, PlaceInv', OrderInv, [Next]_vars PROVE OrderInv'
  <1>1. CASE UNCHANGED vars
    BY <1>1, OrderKept DEF vars, readerVars, mainVars, history, OrderInv,
       OrderTypes, OneReader, Alive
  <1> QED
    BY <1>1, OrderSend, OrderReader, OrderMain, OrderRestart DEF Next

LEMMA OrderInit == Init => OrderInv
  <1> SUFFICES ASSUME Init PROVE OrderInv
    OBVIOUS
  <1>1. Range(<< >>) = {} /\ Ordered(<< >>) /\ << >> \in Seq(Nat) /\ Len(<< >>) = 0
    BY DEF Range, Ordered
  <1>2. OrderTypes
    BY <1>1 DEF Init, OrderTypes
  <1>3. InOrder
    BY <1>1 DEF Init, InOrder
  <1>4. OneReader
    BY <1>1 DEF Init, OneReader, Flow, Alive
  <1> QED
    BY <1>2, <1>3, <1>4 DEF OrderInv

(***************************************************************************)
(* A card that waits is in the order of sending and lacks only characters  *)
(* that were lost, as long as no reader has outlived UninitCOM's wait.     *)
(***************************************************************************)
THEOREM CardsInOrder == Spec => []InOrder
  <1>1. OrderInv => InOrder
    BY DEF OrderInv
  <1> QED
    BY <1>1, PlaceInit, PlaceNext, OrderInit, OrderNext, PTL DEF Spec
=============================================================================
