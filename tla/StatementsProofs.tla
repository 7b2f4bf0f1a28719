-------------------------- MODULE StatementsProofs --------------------------
(***************************************************************************)
(* Theorems on Statements: the types of the texts, the hardware addresses  *)
(* kept apart, the fields in their places, and the buffers of an ordinary  *)
(* machine, for any number of cards, addresses and '+' characters.  The    *)
(* lengths are sums over lists; the first part is what is needed of sums.  *)
(***************************************************************************)
EXTENDS Statements, TLAPS, FiniteSetTheorems

(***************************************************************************)
(* Induction up to a number, with a set for what is shown: the least       *)
(* number that is missing from the set cannot be there.                    *)
(***************************************************************************)
LEMMA UpTo ==
  ASSUME NEW m \in Nat, NEW S, 0 \in S,
         \A n \in 0 .. m - 1 : n \in S => n + 1 \in S
  PROVE  \A n \in 0 .. m : n \in S
<1> SUFFICES ASSUME NEW n0 \in 0 .. m, n0 \notin S PROVE FALSE
  OBVIOUS
<1> DEFINE Missing == (0 .. m) \ S
           R == OpToRel(<, Nat)
<1>1. IsWellFoundedOn(R, Nat)
  BY NatLessThanWellFounded, Zenon
<1>2. \A x, y \in Nat : <<x, y>> \in R <=> x < y
  BY DEF OpToRel
<1> HIDE DEF R
<1>3. PICK x \in Missing : \A y \in Missing : ~(<<y, x>> \in R)
  <2>1. Missing \subseteq Nat /\ Missing # {}
    OBVIOUS
  <2> QED BY <1>1, <2>1, WFMin
<1>4. x # 0
  OBVIOUS
<1>5. /\ x - 1 \in 0 .. m - 1 /\ x - 1 \in Nat
      /\ x - 1 < x /\ x = (x - 1) + 1
  BY <1>4
<1>6. x - 1 \in S
  <2>1. SUFFICES ASSUME x - 1 \notin S PROVE FALSE
    OBVIOUS
  <2>2. x - 1 \in Missing /\ x \in Nat
    BY <1>5, <2>1
  <2>3. <<x - 1, x>> \in R
    BY <1>2, <1>5, <2>2
  <2> QED BY <1>3, <2>2, <2>3
<1> QED BY <1>5, <1>6

(***************************************************************************)
(* Sums(s) exists and is what its equation says.                           *)
(***************************************************************************)
LEMMA SumsIs ==
  ASSUME NEW s \in Seq(Nat)
  PROVE  /\ Sums(s) \in [0 .. Len(s) -> Nat]
         /\ Sums(s)[0] = 0
         /\ \A i \in 1 .. Len(s) : Sums(s)[i] = Sums(s)[i - 1] + s[i]
<1> DEFINE Step(g, n) == g[0] = 0 /\ \A i \in 1 .. n : g[i] = g[i - 1] + s[i]
           Exists(n) == \E g \in [0 .. n -> Nat] : Step(g, n)
           IsSums(g) ==
             g = [n \in 0 .. Len(s) |-> IF n = 0 THEN 0 ELSE g[n - 1] + s[n]]
<1>0. Len(s) \in Nat
  OBVIOUS
<1>1. Exists(0)
  <2>1. /\ [i \in 0 .. 0 |-> 0] \in [0 .. 0 -> Nat]
        /\ [i \in 0 .. 0 |-> 0][0] = 0
    OBVIOUS
  <2>2. 1 .. 0 = {}
    OBVIOUS
  <2> QED BY <2>1, <2>2
<1>2. ASSUME NEW n \in 0 .. Len(s) - 1, Exists(n) PROVE Exists(n + 1)
  <2>1. PICK g \in [0 .. n -> Nat] : Step(g, n)
    BY <1>2
  <2> DEFINE h == [i \in 0 .. n + 1 |-> IF i = n + 1 THEN g[n] + s[n + 1]
                                        ELSE g[i]]
  <2>2. s[n + 1] \in Nat /\ g[n] \in Nat
    BY <1>0
  <2>3. h \in [0 .. n + 1 -> Nat]
    BY <2>2
  <2>4. h[0] = 0
    BY <2>1
  <2>5. ASSUME NEW i \in 1 .. n + 1 PROVE h[i] = h[i - 1] + s[i]
    <3>1. CASE i = n + 1
      BY <3>1
    <3>2. CASE i # n + 1
      BY <3>2, <2>1
    <3> QED BY <3>1, <3>2
  <2> QED BY <2>3, <2>4, <2>5
<1>3. Exists(Len(s))
  <2> DEFINE S == {n \in Nat : Exists(n)}
  <2> HIDE DEF Exists
  <2>1. 0 \in S /\ \A n \in 0 .. Len(s) - 1 : n \in S => n + 1 \in S
    BY <1>1, <1>2
  <2> HIDE DEF S
  <2>2. \A n \in 0 .. Len(s) : n \in S
    BY <2>1, <1>0, UpTo
  <2>3. Len(s) \in S
    BY <2>2, <1>0
  <2> QED BY <2>3 DEF S
<1>4. \E g : IsSums(g)
  BY <1>3
<1>5. Sums(s) = CHOOSE g : IsSums(g)
  BY DEF Sums
<1>6. IsSums(Sums(s))
  <2> HIDE DEF IsSums
  <2> QED BY <1>4, <1>5
<1>7. \A n \in 0 .. Len(s) : Sums(s)[n] \in Nat
  <2> DEFINE S == {n \in 0 .. Len(s) : Sums(s)[n] \in Nat}
  <2>1. 0 \in S
    BY <1>6, <1>0
  <2>2. ASSUME NEW n \in 0 .. Len(s) - 1, n \in S PROVE n + 1 \in S
    <3>1. Sums(s)[n + 1] = Sums(s)[n] + s[n + 1]
      BY <1>6, <1>0
    <3>2. s[n + 1] \in Nat
      BY <1>0
    <3> QED BY <2>2, <3>1, <3>2
  <2> HIDE DEF S
  <2>3. \A n \in 0 .. Len(s) : n \in S
    BY <1>0, <2>1, <2>2, UpTo
  <2> QED BY <2>3 DEF S
<1>8. Sums(s) \in [0 .. Len(s) -> Nat]
  <2>1. Sums(s) = [n \in 0 .. Len(s) |-> Sums(s)[n]]
    BY <1>6
  <2> QED BY <2>1, <1>7
<1>9. Sums(s)[0] = 0
  BY <1>6, <1>0
<1>10. ASSUME NEW i \in 1 .. Len(s)
       PROVE  Sums(s)[i] = Sums(s)[i - 1] + s[i]
  <2>1. i \in 0 .. Len(s) /\ i # 0
    BY <1>0
  <2> QED BY <1>6, <2>1
<1> QED BY <1>8, <1>9, <1>10

\* The length of a string is a number.
LEMMA TotalNat ==
  ASSUME NEW s \in Seq(Nat)
  PROVE  Total(s) \in Nat
<1> QED BY SumsIs DEF Total

LEMMA TotalEmpty == Total(<< >>) = 0
<1>1. << >> \in Seq(Nat) /\ Len(<< >>) = 0
  OBVIOUS
<1> QED BY <1>1, SumsIs DEF Total

LEMMA ElementOf ==
  ASSUME NEW S, NEW s \in Seq(S), NEW i \in 1 .. Len(s)
  PROVE  s[i] \in S
<1> QED OBVIOUS

LEMMA Singleton ==
  ASSUME NEW n \in Nat
  PROVE  <<n>> \in Seq(Nat) /\ Len(<<n>>) = 1 /\ <<n>>[1] = n
<1> QED OBVIOUS

LEMMA TotalOne ==
  ASSUME NEW s \in Seq(Nat), Len(s) = 1
  PROVE  Total(s) = s[1]
<1>1. 1 \in 1 .. Len(s)
  OBVIOUS
<1>2. s[1] \in Nat
  BY <1>1, ElementOf, Zenon
<1>3. Sums(s)[1] = Sums(s)[1 - 1] + s[1] /\ Sums(s)[0] = 0
  BY <1>1, SumsIs
<1> QED BY <1>2, <1>3 DEF Total

\* A text is no longer than the string it is a part of.
LEMMA PartOfTotal ==
  ASSUME NEW s \in Seq(Nat), NEW i \in 1 .. Len(s)
  PROVE  s[i] <= Total(s)
<1>0. Len(s) \in Nat
  OBVIOUS
<1> DEFINE S == {n \in 0 .. Len(s) - i : s[i] <= Sums(s)[i + n]}
<1>1. 0 \in S
  <2>1. /\ Sums(s)[i] = Sums(s)[i - 1] + s[i]
        /\ Sums(s)[i - 1] \in Nat /\ s[i] \in Nat
    BY <1>0, SumsIs
  <2> QED BY <1>0, <2>1
<1>2. ASSUME NEW n \in 0 .. (Len(s) - i) - 1, n \in S PROVE n + 1 \in S
  <2>1. /\ i + n + 1 \in 1 .. Len(s) /\ i + n \in 0 .. Len(s)
        /\ (i + n + 1) - 1 = i + n /\ i + n + 1 = i + (n + 1)
    BY <1>0
  <2>2. Sums(s)[i + n + 1] = Sums(s)[i + n] + s[i + n + 1]
    <3>1. Sums(s)[i + n + 1] = Sums(s)[(i + n + 1) - 1] + s[i + n + 1]
      BY <2>1, SumsIs
    <3> QED BY <2>1, <3>1
  <2>3. Sums(s)[i + n] \in Nat
    BY <2>1, SumsIs
  <2>4. s[i + n + 1] \in Nat /\ s[i] \in Nat
    BY <2>1, <1>0
  <2> QED BY <1>0, <1>2, <2>1, <2>2, <2>3, <2>4
<1> HIDE DEF S
<1>3. Len(s) - i \in Nat
  BY <1>0
<1>4. \A n \in 0 .. Len(s) - i : n \in S
  BY <1>1, <1>2, <1>3, UpTo
<1>5. Len(s) - i \in S
  BY <1>3, <1>4
<1>6. i + (Len(s) - i) = Len(s)
  BY <1>0
<1> QED BY <1>5, <1>6 DEF S, Total

\* Four texts, as MachineInfo has them.
LEMMA TotalFour ==
  ASSUME NEW a \in Nat, NEW b \in Nat, NEW c \in Nat, NEW d \in Nat
  PROVE  Total(<<a, b, c, d>>) = a + b + c + d
<1> DEFINE s == <<a, b, c, d>>
<1>1. /\ s \in Seq(Nat) /\ Len(s) = 4
      /\ s[1] = a /\ s[2] = b /\ s[3] = c /\ s[4] = d
  OBVIOUS
<1> HIDE DEF s
<1>2. Sums(s)[0] = 0 /\ \A i \in 1 .. 4 : Sums(s)[i] = Sums(s)[i - 1] + s[i]
  BY <1>1, SumsIs
<1>3. Sums(s)[1] = Sums(s)[0] + a
  BY <1>1, <1>2
<1>4. Sums(s)[2] = Sums(s)[1] + b
  BY <1>1, <1>2
<1>5. Sums(s)[3] = Sums(s)[2] + c
  BY <1>1, <1>2
<1>6. Sums(s)[4] = Sums(s)[3] + d
  BY <1>1, <1>2
<1>7. Sums(s)[4] = a + b + c + d
  BY <1>2, <1>3, <1>4, <1>5, <1>6
<1> QED BY <1>1, <1>7 DEF Total, s

(***************************************************************************)
(* strtok finds every text when none of them is empty.                     *)
(***************************************************************************)
LEMMA StrtokFindsAll ==
  ASSUME NEW s \in Seq(Nat \ {0})
  PROVE  strtok(s) = s
<1> DEFINE Prefix(i) == [j \in 1 .. i |-> s[j]]
           IsFound(g) ==
             g = [i \in 0 .. Len(s) |->
                    IF i = 0 THEN << >>
                    ELSE IF s[i] = 0 THEN g[i - 1]
                    ELSE Append(g[i - 1], s[i])]
<1>0. Len(s) \in Nat /\ \A i \in 1 .. Len(s) : s[i] # 0
  OBVIOUS
<1>1. Prefix(0) = << >> /\ Prefix(Len(s)) = s
  OBVIOUS
<1>2. ASSUME NEW i \in 1 .. Len(s)
      PROVE  Append(Prefix(i - 1), s[i]) = Prefix(i)
  <2>1. i - 1 \in Nat /\ Prefix(i - 1) \in Seq(Nat) /\ Len(Prefix(i - 1)) = i - 1
    OBVIOUS
  <2> QED BY <2>1
<1> HIDE DEF Prefix
<1>3. \E g : IsFound(g)
  <2> DEFINE g == [i \in 0 .. Len(s) |-> Prefix(i)]
  <2>1. \A i \in 1 .. Len(s) : g[i - 1] = Prefix(i - 1)
    BY <1>0
  <2>2. \A i \in 0 .. Len(s) :
          Prefix(i) = IF i = 0 THEN << >>
                      ELSE IF s[i] = 0 THEN g[i - 1]
                      ELSE Append(g[i - 1], s[i])
    BY <1>0, <1>1, <1>2, <2>1
  <2>3. IsFound(g)
    BY <2>2
  <2> QED BY <2>3
<1> DEFINE found == CHOOSE g : IsFound(g)
<1>4. strtok(s) = found[Len(s)]
  BY DEF strtok
<1>5. IsFound(found)
  <2> HIDE DEF IsFound
  <2> QED BY <1>3
<1> HIDE DEF found
<1> DEFINE S == {n \in 0 .. Len(s) : found[n] = Prefix(n)}
<1>6. 0 \in S
  BY <1>0, <1>1, <1>5
<1>7. ASSUME NEW n \in 0 .. Len(s) - 1, n \in S PROVE n + 1 \in S
  <2>1. /\ n + 1 \in 1 .. Len(s) /\ n + 1 \in 0 .. Len(s)
        /\ n + 1 # 0 /\ (n + 1) - 1 = n
    BY <1>0
  <2>2. s[n + 1] # 0
    BY <1>0, <2>1
  <2>3. found[n + 1] = Append(found[(n + 1) - 1], s[n + 1])
    BY <1>5, <2>1, <2>2
  <2>4. found[n] = Prefix(n)
    BY <1>7
  <2>5. Append(Prefix((n + 1) - 1), s[n + 1]) = Prefix(n + 1)
    BY <1>2, <2>1
  <2>6. found[n + 1] = Prefix(n + 1)
    BY <2>1, <2>3, <2>4, <2>5
  <2> QED BY <2>1, <2>6
<1> HIDE DEF S
<1>8. \A n \in 0 .. Len(s) : n \in S
  BY <1>0, <1>6, <1>7, UpTo
<1>9. Len(s) \in S
  BY <1>0, <1>8
<1> QED BY <1>1, <1>4, <1>9 DEF S
-----------------------------------------------------------------------------
(***************************************************************************)
(* The invariants.  The machine and the user do not change; what has been  *)
(* read of the cards determines the rest.                                  *)
(***************************************************************************)
Card == [AddressLength : AddressLengths, ips : IpLists]

MachineInv ==
  /\ cards \in Seq(Card)
  /\ machine \in ComputerNames
  /\ names \in UserNames \X NickNames
  /\ getUpw \in Passwords \cup StoredPasswords \cup {0}

\* A first address is long enough for the separators to follow.
SeparatorsFollow == strMAC # << >> => strMAC[1] > 10

\* The cards are read to the end before the fields are made of them, and a card
\* has an IP address.
FieldsInv ==
  /\ k > 0 => strIP # << >>
  /\ fields = << >> \/ (k = Len(cards) /\ fields = Assembled)
  /\ at \in {"stored", "replace", "update", "cards"} => fields = << >>
  /\ at \in {"print", "insert", "refuse"} => fields # << >>

\* What a machine with one card has.
FirstCard ==
  /\ k = 0 => strMAC = << >> /\ strIP = << >>
  /\ k = 1 => strMAC = MacText(cards[1]) /\ strIP = cards[1].ips
-----------------------------------------------------------------------------
(***************************************************************************)
(* The texts of one card, and the four fields.                             *)
(***************************************************************************)
Texts == Seq(Nat \ {0})

LEMMA CardTexts ==
  ASSUME NEW card \in Card
  PROVE  /\ MacText(card) \in Texts
         /\ Len(MacText(card)) <= 1
         /\ LongAddresses /\ MacText(card) # << >> => MacText(card)[1] > 10
         /\ card.ips \in Texts
         /\ card.ips # << >>
<1>1. card.AddressLength \in Nat /\ card.AddressLength \in AddressLengths
  BY StatementsAssumption DEF Card
<1>2. card.ips \in Texts /\ card.ips # << >>
  <2>1. card.ips \in Seq(7 .. 15) /\ card.ips # << >>
    BY StatementsAssumption DEF Card
  <2> QED BY <2>1 DEF Texts
<1>3. CASE card.AddressLength = 0
  <2>1. MacText(card) = << >>
    BY <1>3 DEF MacText
  <2> QED BY <1>2, <2>1 DEF Texts
<1>4. CASE card.AddressLength # 0
  <2> DEFINE n == 3 * card.AddressLength - 1
  <2>1. n \in Nat \ {0}
    BY <1>1, <1>4
  <2>2. LongAddresses => n > 10
    <3>1. SUFFICES ASSUME LongAddresses PROVE card.AddressLength > 3
      BY <1>1
    <3>2. card.AddressLength \notin 1 .. 3
      BY <1>1, <3>1 DEF LongAddresses
    <3> QED BY <1>1, <1>4, <3>2
  <2>3. MacText(card) = <<n>>
    BY <1>4 DEF MacText
  <2> HIDE DEF n
  <2>4. /\ MacText(card) \in Seq(Nat \ {0})
        /\ Len(MacText(card)) = 1 /\ MacText(card)[1] = n
    BY <2>1, <2>3
  <2> QED BY <1>2, <2>2, <2>4 DEF Texts
<1> QED BY <1>3, <1>4

LEMMA SeparatedTexts ==
  ASSUME NEW texts \in Texts
  PROVE  Separated(texts) \in Texts
<1> QED BY DEF Separated, Separator, Texts

\* A string of one text or more has a length.
LEMMA TotalPositive ==
  ASSUME NEW texts \in Texts
  PROVE  /\ Total(texts) \in Nat
         /\ texts # << >> => Total(texts) > 0 /\ texts[1] <= Total(texts)
<1>1. texts \in Seq(Nat)
  BY DEF Texts
<1>2. Total(texts) \in Nat
  BY <1>1, TotalNat
<1>3. ASSUME texts # << >> PROVE Total(texts) > 0 /\ texts[1] <= Total(texts)
  <2>1. 1 \in 1 .. Len(texts) /\ texts[1] \in Nat \ {0}
    BY <1>3 DEF Texts
  <2>2. texts[1] <= Total(texts)
    BY <1>1, <2>1, PartOfTotal
  <2> QED BY <1>2, <2>1, <2>2
<1> QED BY <1>2, <1>3

\* No field is empty, so strtok gives back the four of them.
LEMMA FourFields ==
  ASSUME TypeOK, MachineInv
  PROVE  /\ Assembled \in Texts
         /\ Len(Assembled) = 4
         /\ strtok(Assembled) = Assembled
         /\ Total(Assembled) = Assembled[1] + Assembled[2] + Assembled[3]
                                 + Assembled[4]
         /\ Assembled[1] = Time
         /\ Assembled[2] = machine
         /\ Assembled[3] = IF Total(strIP) = 0 THEN NoIpText ELSE Total(strIP)
         /\ Assembled[4] = IF Total(strMAC) = 0 THEN NoMacText ELSE Total(strMAC)
<1> DEFINE ip == IF Total(strIP) = 0 THEN NoIpText ELSE Total(strIP)
           mac == IF Total(strMAC) = 0 THEN NoMacText ELSE Total(strMAC)
<1>1. Total(strIP) \in Nat /\ Total(strMAC) \in Nat
  BY TotalPositive DEF TypeOK, Texts
<1>2. ip \in Nat \ {0} /\ mac \in Nat \ {0}
  BY <1>1 DEF NoIpText, NoMacText
<1>3. machine \in Nat \ {0} /\ Time \in Nat \ {0}
  BY StatementsAssumption DEF MachineInv, Time
<1>4. Assembled = <<Time, machine, ip, mac>>
  BY DEF Assembled
<1> HIDE DEF ip, mac
<1>5. /\ Assembled \in Seq(Nat \ {0}) /\ Len(Assembled) = 4
      /\ Assembled[1] = Time /\ Assembled[2] = machine
      /\ Assembled[3] = ip /\ Assembled[4] = mac
  BY <1>2, <1>3, <1>4
<1>6. strtok(Assembled) = Assembled
  BY <1>5, StrtokFindsAll
<1>7. Total(Assembled) = Time + machine + ip + mac
  BY <1>2, <1>3, <1>4, TotalFour
<1> QED BY <1>5, <1>6, <1>7 DEF Texts, ip, mac
-----------------------------------------------------------------------------
TypeInv == TypeOK /\ MachineInv

LEMMA InitTypes == Init => TypeInv
<1> SUFFICES ASSUME Init PROVE TypeInv
  OBVIOUS
<1> USE StatementsAssumption
<1>1. cards \in Seq(Card)
  <2>0. cards \in UNION {[1 .. n -> Card] : n \in 0 .. MaxCards}
    BY DEF Init, Card
  <2>1. PICK n \in 0 .. MaxCards : cards \in [1 .. n -> Card]
    BY <2>0
  <2>2. n \in Nat
    BY <2>1
  <2> QED BY <2>1, <2>2
<1>2. MachineInv
  BY <1>1 DEF Init, MachineInv
<1>3. /\ at \in {"stored", "replace", "update", "cards", "print", "insert", "refuse",
                 "done", "ended"}
      /\ flow \in {"init", "prompt", "known", "unknown"}
  BY DEF Init
<1>4. getUpw \in Nat /\ plus \in 0 .. MaxPlus /\ strUserPW = getUpw /\ MaxPlus \in Nat
  <2>1. MaxPlus \in Nat
    OBVIOUS
  <2>2. getUpw = 0 \/ getUpw \in Passwords \/ getUpw \in StoredPasswords
    BY DEF Init
  <2>3. plus = 0 \/ plus \in 0 .. MaxPlus
    BY DEF Init
  <2>4. strUserPW = getUpw
    BY DEF Init
  <2>5. getUpw \in Nat
    <3>1. Passwords \subseteq Nat /\ StoredPasswords \subseteq Nat /\ 0 \in Nat
      OBVIOUS
    <3> QED BY <2>2, <3>1, Zenon
  <2>6. plus \in 0 .. MaxPlus
    BY <2>1, <2>3
  <2> QED BY <2>1, <2>4, <2>5, <2>6
<1>5. strUserPW \in getUpw .. getUpw + 2 * (MaxPlus - plus)
  BY <1>4
<1>6. k \in 0 .. Len(cards) /\ strMAC \in Texts /\ strIP \in Texts /\ fields \in Texts
  BY <1>1 DEF Init, Texts
<1> QED BY <1>2, <1>3, <1>4, <1>5, <1>6 DEF TypeInv, TypeOK, Texts

LEMMA NextTypes == TypeInv /\ [Next]_vars => TypeInv'
<1> SUFFICES ASSUME TypeInv, [Next]_vars PROVE TypeInv'
  OBVIOUS
<1> USE DEF TypeInv
<1>1. ASSUME machineVars' = machineVars, getUpw' = getUpw PROVE MachineInv'
  BY <1>1 DEF machineVars, MachineInv
<1>2. getUpw \in Nat /\ MaxPlus \in Nat
  BY StatementsAssumption DEF MachineInv
<1>3. CASE Replace
  <2>1. plus - 1 \in 0 .. MaxPlus
    BY <1>2, <1>3 DEF Replace, TypeOK
  <2>2. strUserPW + 2 \in getUpw .. getUpw + 2 * (MaxPlus - (plus - 1))
    BY <1>2, <1>3 DEF Replace, TypeOK
  <2>3. MachineInv'
    BY <1>1, <1>3 DEF Replace
  <2> QED BY <1>3, <2>1, <2>2, <2>3 DEF Replace, TypeOK, machineVars, infoVars
<1>4. CASE Post \/ PostStored
  <2>1. MachineInv'
    BY <1>1, <1>4 DEF Post, PostStored, formVars
  <2> QED BY <1>4, <2>1
          DEF Post, PostStored, AfterText, TypeOK, machineVars, formVars, infoVars
<1>5. CASE user_update
  <2>1. MachineInv'
    BY <1>1, <1>5 DEF user_update, formVars
  <2> QED BY <1>5, <2>1
          DEF user_update, AfterText, TypeOK, machineVars, formVars, infoVars
<1>6. CASE NextCard
  <2>1. MachineInv'
    BY <1>1, <1>6 DEF NextCard, formVars
  <2>2. k' \in 1 .. Len(cards) /\ cards' = cards /\ cards \in Seq(Card)
    BY <1>6 DEF NextCard, TypeOK, MachineInv, machineVars
  <2>3. cards[k'] \in Card
    BY <2>2
  <2>4. /\ MacText(cards[k']) \in Texts /\ cards[k'].ips \in Texts
        /\ Separated(strMAC) \in Texts /\ Separated(strIP) \in Texts
    BY <2>3, CardTexts, SeparatedTexts DEF TypeOK, Texts
  <2>5. strMAC' \in Texts /\ strIP' \in Texts
    BY <1>6, <2>4 DEF NextCard, Texts
  <2> QED BY <1>6, <2>1, <2>2, <2>5 DEF NextCard, TypeOK, Texts, machineVars, formVars
<1>7. CASE MachineInfo
  <2>1. MachineInv'
    BY <1>1, <1>7 DEF MachineInfo, formVars
  <2>2. fields' \in Texts
    BY <1>7, FourFields DEF MachineInfo
  <2> QED BY <1>7, <2>1, <2>2
          DEF MachineInfo, AfterText, TypeOK, Texts, machineVars, formVars
<1>8. ASSUME NEW exists \in BOOLEAN, user_Print(exists) PROVE TypeInv'
  <2>1. MachineInv'
    BY <1>1, <1>8 DEF user_Print, formVars
  <2> QED BY <1>8, <2>1
          DEF user_Print, AfterText, TypeOK, machineVars, formVars, infoVars
<1>9. CASE user_insert
  <2>1. MachineInv'
    BY <1>1, <1>9 DEF user_insert, formVars
  <2> QED BY <1>9, <2>1
          DEF user_insert, AfterText, TypeOK, machineVars, formVars, infoVars
<1>10. CASE UNCHANGED vars
  BY <1>10 DEF vars, machineVars, formVars, infoVars, TypeOK, MachineInv
<1> QED BY <1>3, <1>4, <1>5, <1>6, <1>7, <1>8, <1>9, <1>10 DEF Next

LEMMA TypesHold == Spec => []TypeInv
<1> QED BY InitTypes, NextTypes, PTL DEF Spec

(***************************************************************************)
(* The texts stay lists of texts, and the escaped password is as long as   *)
(* the '+' characters replaced so far make it: after the loop of 966-972   *)
(* it is bounded by the typed one, however many there were.                *)
(***************************************************************************)
THEOREM StatementTypes == Spec => []TypeOK
<1>1. TypeInv => TypeOK
  BY DEF TypeInv
<1> QED BY <1>1, TypesHold, PTL
-----------------------------------------------------------------------------
(***************************************************************************)
(* The hardware addresses.                                                 *)
(***************************************************************************)
MacInv == SeparatorsFollow /\ MacsApart

LEMMA Concatenated ==
  ASSUME NEW s \in Seq(Nat), NEW t \in Seq(Nat)
  PROVE  /\ Len(s \o t) = Len(s) + Len(t)
         /\ \A i \in 1 .. Len(s) : (s \o t)[i] = s[i]
<1> QED OBVIOUS

LEMMA NextMacs ==
  ASSUME LongAddresses
  PROVE  TypeInv /\ MacInv /\ [Next]_vars => MacInv'
<1> SUFFICES ASSUME TypeInv, MacInv, [Next]_vars PROVE MacInv'
  OBVIOUS
<1>1. CASE strMAC' = strMAC
  BY <1>1 DEF MacInv, SeparatorsFollow, MacsApart
<1>2. CASE NextCard
  <2>1. k' \in 1 .. Len(cards) /\ cards' = cards /\ cards \in Seq(Card)
    BY <1>2 DEF NextCard, TypeInv, TypeOK, MachineInv, machineVars
  <2> DEFINE mac == MacText(cards[k'])
  <2>2. /\ mac \in Texts /\ Len(mac) <= 1
        /\ mac # << >> => mac[1] > 10
    BY <2>1, CardTexts
  <2>3. strMAC' = Separated(strMAC) \o mac
    BY <1>2 DEF NextCard
  <2>4. strMAC \in Texts
    BY DEF TypeInv, TypeOK, Texts
  <2> HIDE DEF mac
  <2>5. CASE strMAC = << >>
    <3>1. Separated(strMAC) = << >>
      BY <2>5, TotalEmpty DEF Separated
    <3>2. strMAC' = mac
      BY <2>2, <2>3, <3>1 DEF Texts
    <3> QED BY <2>2, <3>2 DEF MacInv, SeparatorsFollow, MacsApart, Texts
  <2>6. CASE strMAC # << >>
    <3> DEFINE L == Len(strMAC)
               apart == Append(strMAC, Separator)
    <3>1. Separated(strMAC) = apart
      <4>1. strMAC[1] > 10 /\ strMAC[1] <= Total(strMAC) /\ Total(strMAC) \in Nat
        BY <2>4, <2>6, TotalPositive DEF MacInv, SeparatorsFollow
      <4>2. strMAC[1] \in Nat
        BY <2>4, <2>6 DEF Texts
      <4>3. Total(strMAC) > 10
        BY <4>1, <4>2
      <4> QED BY <4>3 DEF Separated
    <3>2. /\ L \in Nat \ {0} /\ Len(apart) = L + 1 /\ apart \in Seq(Nat)
          /\ apart[L + 1] = Separator
          /\ \A i \in 1 .. L : apart[i] = strMAC[i]
      BY <2>4, <2>6 DEF Texts, Separator
    <3> HIDE DEF apart
    <3>3. /\ Len(strMAC') \in {L + 1, L + 2} /\ strMAC' # << >>
          /\ strMAC'[L + 1] = Separator
          /\ \A i \in 1 .. L : strMAC'[i] = strMAC[i]
      <4>1. strMAC' = apart \o mac /\ mac \in Seq(Nat) /\ Len(mac) \in Nat
        BY <2>2, <2>3, <3>1 DEF Texts
      <4>2. Len(mac) \in {0, 1}
        <5>1. Len(mac) \in Nat /\ Len(mac) <= 1
          BY <2>2, <4>1, Zenon
        <5>2. \A n \in Nat : n <= 1 => n \in {0, 1}
          OBVIOUS
        <5> QED BY <5>1, <5>2, Zenon
      <4>3. /\ Len(apart \o mac) = Len(apart) + Len(mac)
            /\ \A i \in 1 .. Len(apart) : (apart \o mac)[i] = apart[i]
        BY <3>2, <4>1, Concatenated, Zenon
      <4>4. \A i \in 1 .. L + 1 : strMAC'[i] = apart[i]
        BY <3>2, <4>1, <4>3, Zenon
      <4>5. strMAC'[L + 1] = Separator
        BY <3>2, <4>4
      <4>6. \A i \in 1 .. L : strMAC'[i] = strMAC[i]
        BY <3>2, <4>4
      <4>7. Len(strMAC') \in {L + 1, L + 2} /\ strMAC' # << >>
        <5>1. Len(strMAC') = (L + 1) + Len(mac)
          BY <3>2, <4>1, <4>3, Zenon
        <5>2. Len(strMAC') \in {L + 1, L + 2}
          <6> DEFINE n == Len(strMAC')
                     d == Len(mac)
          <6>1. n = (L + 1) + d /\ d \in {0, 1} /\ L \in Nat
            BY <3>2, <4>2, <5>1
          <6> HIDE DEF n, d
          <6>2. n \in {L + 1, L + 2}
            BY <6>1
          <6> QED BY <6>2 DEF n
        <5>3. Len(strMAC') # 0
          BY <3>2, <5>2
        <5>4. Len(<< >>) = 0
          OBVIOUS
        <5> QED BY <5>2, <5>3, <5>4, Zenon
      <4> QED BY <4>5, <4>6, <4>7
    <3>4. SeparatorsFollow'
      BY <2>6, <3>2, <3>3 DEF MacInv, SeparatorsFollow
    <3>5. ASSUME NEW i \in 1 .. Len(strMAC') - 1
          PROVE  Separator \in {strMAC'[i], strMAC'[i + 1]}
      <4>1. CASE i \in 1 .. L - 1
        <5>1. i \in 1 .. L /\ i + 1 \in 1 .. L
          BY <3>2, <4>1
        <5>2. strMAC'[i] = strMAC[i] /\ strMAC'[i + 1] = strMAC[i + 1]
          BY <3>3, <5>1
        <5>3. Separator \in {strMAC[i], strMAC[i + 1]}
          BY <4>1 DEF MacInv, MacsApart
        <5> QED BY <5>2, <5>3
      <4>2. CASE i \in {L, L + 1}
        BY <3>3, <4>2
      <4> QED BY <3>2, <3>3, <4>1, <4>2
    <3> QED BY <3>4, <3>5 DEF MacInv, MacsApart
  <2> QED BY <2>5, <2>6
<1> QED
  BY <1>1, <1>2 DEF Next, PostStored, Replace, Post, user_update, MachineInfo, user_Print,
                    user_insert, vars, infoVars

(***************************************************************************)
(* The hardware addresses of a machine are told apart, whatever cards it   *)
(* has and however many, by the "/" of 1308-1312: the first address alone  *)
(* is longer than the ten characters the code looks for.                   *)
(***************************************************************************)
THEOREM MacsStayApart ==
  ASSUME LongAddresses
  PROVE  Spec => []MacsApart
<1>1. Init => MacInv
  BY DEF Init, MacInv, SeparatorsFollow, MacsApart
<1>2. TypeInv /\ MacInv /\ [Next]_vars => MacInv'
  BY NextMacs
<1>3. MacInv => MacsApart
  BY DEF MacInv
<1> QED BY <1>1, <1>2, <1>3, TypesHold, PTL DEF Spec
-----------------------------------------------------------------------------
(***************************************************************************)
(* The fields.                                                             *)
(***************************************************************************)
LEMMA NextFields == TypeInv /\ FieldsInv /\ [Next]_vars => FieldsInv'
<1> SUFFICES ASSUME TypeInv, FieldsInv, [Next]_vars PROVE FieldsInv'
  OBVIOUS
<1>1. ASSUME infoVars' = infoVars, machineVars' = machineVars PROVE Assembled' = Assembled
  BY <1>1 DEF infoVars, machineVars, Assembled
<1>2. CASE Replace
  BY <1>1, <1>2 DEF Replace, FieldsInv, infoVars, machineVars
<1>3. CASE Post \/ PostStored
  BY <1>1, <1>3 DEF Post, PostStored, AfterText, FieldsInv, infoVars, machineVars
<1>4. CASE user_update
  BY <1>1, <1>4 DEF user_update, AfterText, FieldsInv, infoVars, machineVars
<1>5. CASE NextCard
  <2>1. fields = << >> /\ fields' = fields /\ at' = at /\ at = "cards"
    BY <1>5 DEF NextCard, FieldsInv
  <2>2. k' \in 1 .. Len(cards) /\ cards' = cards /\ cards \in Seq(Card)
    BY <1>5 DEF NextCard, TypeInv, TypeOK, MachineInv, machineVars
  <2>3. cards[k'].ips \in Texts /\ cards[k'].ips # << >>
    BY <2>2, CardTexts
  <2>4. Separated(strIP) \in Texts
    BY SeparatedTexts DEF TypeInv, TypeOK, Texts
  <2>5. strIP' # << >>
    BY <1>5, <2>3, <2>4 DEF NextCard, Texts
  <2> QED BY <2>1, <2>5 DEF FieldsInv
<1>6. CASE MachineInfo
  <2>1. fields' = Assembled /\ fields' # << >>
    BY <1>6, FourFields DEF MachineInfo, TypeInv
  <2>2. Assembled' = Assembled
    BY <1>6 DEF MachineInfo, Assembled, machineVars
  <2>3. k' = Len(cards') /\ k' = k /\ strIP' = strIP
    BY <1>6 DEF MachineInfo, machineVars
  <2>4. at' \in {"refuse", "print", "ended"}
    BY <1>6 DEF MachineInfo, AfterText
  <2> QED BY <2>1, <2>2, <2>3, <2>4 DEF FieldsInv
<1>7. ASSUME NEW exists \in BOOLEAN, user_Print(exists) PROVE FieldsInv'
  BY <1>1, <1>7 DEF user_Print, AfterText, FieldsInv, infoVars, machineVars
<1>8. CASE user_insert
  BY <1>1, <1>8 DEF user_insert, AfterText, FieldsInv, infoVars, machineVars
<1>9. CASE UNCHANGED vars
  BY <1>1, <1>9 DEF vars, FieldsInv, infoVars, machineVars
<1> QED BY <1>2, <1>3, <1>4, <1>5, <1>6, <1>7, <1>8, <1>9 DEF Next

LEMMA FieldsHold == Spec => [](TypeInv /\ FieldsInv)
<1>1. Init => FieldsInv
  BY DEF Init, FieldsInv
<1>2. TypeInv /\ FieldsInv /\ [Next]_vars => FieldsInv'
  BY NextFields
<1> QED BY <1>1, <1>2, TypesHold, PTL DEF Spec

(***************************************************************************)
(* The callers of strtok (512-515, 589-592, MySqlConn.cpp 234-237) find time,  *)
(* name, addresses and hardware addresses in their places, for every       *)
(* machine: the replacements of 1356-1357 leave no text empty.             *)
(***************************************************************************)
THEOREM FieldsStayInPlace == Spec => []FieldsInPlace
<1>1. TypeInv /\ FieldsInv => FieldsInPlace
  <2> SUFFICES ASSUME TypeInv, FieldsInv, fields # << >>
               PROVE  /\ Len(fields) = 4
                      /\ fields[1] = Time /\ fields[2] = machine
                      /\ cards # << >> => fields[3] = Total(strIP)
                      /\ strMAC # << >> => fields[4] = Total(strMAC)
    BY DEF FieldsInPlace
  <2>1. fields = Assembled /\ k = Len(cards)
    BY DEF FieldsInv
  <2>2. cards # << >> => strIP # << >>
    BY <2>1 DEF FieldsInv, TypeInv, MachineInv
  <2>3. /\ strIP # << >> => Total(strIP) # 0
        /\ strMAC # << >> => Total(strMAC) # 0
    BY TotalPositive DEF TypeInv, TypeOK, Texts
  <2> QED BY <2>1, <2>2, <2>3, FourFields DEF TypeInv
<1> QED BY <1>1, FieldsHold, PTL
-----------------------------------------------------------------------------
(***************************************************************************)
(* The buffers.                                                            *)
(***************************************************************************)
\* The addresses of an ordinary machine, in both of its strings.
LEMMA OrdinaryAddresses ==
  ASSUME TypeInv, FirstCard, Ordinary
  PROVE  /\ Total(strIP) \in 0 .. 15
         /\ Total(strMAC) \in 0 .. 17
<1>1. cards \in Seq(Card) /\ Len(cards) \in 0 .. 1 /\ k \in 0 .. Len(cards)
  <2>1. cards \in Seq(Card) /\ k \in 0 .. Len(cards)
    BY DEF TypeInv, TypeOK, MachineInv
  <2>2. Len(cards) \in Nat
    BY <2>1
  <2>3. Len(cards) <= 1
    BY DEF Ordinary
  <2>4. \A n \in Nat : n <= 1 => n \in 0 .. 1
    OBVIOUS
  <2> QED BY <2>1, <2>2, <2>3, <2>4, Zenon
<1>2. CASE k = 0
  BY <1>2, TotalEmpty DEF FirstCard
<1>3. CASE k = 1
  <2>1. 1 \in DOMAIN cards /\ cards[1] \in Card
    BY <1>1, <1>3
  <2>2. Total(strIP) \in 0 .. 15
    <3>1. strIP \in Seq(7 .. 15) /\ Len(strIP) = 1
      BY <1>3, <2>1, StatementsAssumption DEF FirstCard, Ordinary, Card
    <3>2. strIP \in Seq(Nat)
      BY <3>1
    <3>3. 1 \in 1 .. Len(strIP)
      BY <3>1
    <3>4. strIP[1] \in 7 .. 15
      BY <3>1, <3>3, ElementOf, Zenon
    <3> QED BY <3>1, <3>2, <3>4, TotalOne
  <2>3. Total(strMAC) \in 0 .. 17
    <3> DEFINE a == cards[1].AddressLength
    <3>1. a \in 0 .. 6
      <4>1. a \in Nat
        BY <2>1, StatementsAssumption DEF Card
      <4>2. a <= 6
        BY <2>1 DEF Ordinary
      <4> QED BY <4>1, <4>2
    <3>2. CASE a = 0
      BY <1>3, <3>2, TotalEmpty DEF FirstCard, MacText
    <3>3. CASE a # 0
      <4> DEFINE n == 3 * a - 1
      <4>1. strMAC = <<n>>
        BY <1>3, <3>3 DEF FirstCard, MacText
      <4> HIDE DEF a
      <4>2. n \in 0 .. 17
        BY <3>1, <3>3
      <4> HIDE DEF n
      <4>3. n \in Nat
        BY <4>2
      <4>4. strMAC \in Seq(Nat) /\ Len(strMAC) = 1 /\ strMAC[1] = n
        BY <4>1, <4>3, Singleton, Zenon
      <4> QED BY <4>2, <4>4, TotalOne
    <3> QED BY <3>2, <3>3
  <2> QED BY <2>2, <2>3
<1>4. k = 0 \/ k = 1
  <2>1. \A n \in 0 .. 1 : \A i \in 0 .. n : i = 0 \/ i = 1
    OBVIOUS
  <2> QED BY <1>1, <2>1, Zenon
<1> QED BY <1>2, <1>3, <1>4

\* The fields of an ordinary machine, and the user's two names.
LEMMA OrdinaryFields ==
  ASSUME TypeInv, FirstCard, Ordinary
  PROVE  /\ Assembled[1] = 19
         /\ Assembled[4] \in 0 .. 17
         /\ Total(Assembled) \in 0 .. 66
         /\ Names \in 0 .. 34
<1>1. Total(strIP) \in 0 .. 15 /\ Total(strMAC) \in 0 .. 17
  BY OrdinaryAddresses
<1>2. machine \in 1 .. 15
  BY StatementsAssumption DEF TypeInv, MachineInv
<1>3. /\ Assembled[1] = 19
      /\ Assembled[2] \in 1 .. 15
      /\ Assembled[3] \in 0 .. 15
      /\ Assembled[4] \in 0 .. 17
      /\ Total(Assembled) = Assembled[1] + Assembled[2] + Assembled[3] + Assembled[4]
  BY <1>1, <1>2, FourFields DEF TypeInv, Time, NoIpText, NoMacText
<1>4. Names \in 0 .. 34
  <2>1. names[1] \in Nat /\ names[2] \in Nat
    BY StatementsAssumption DEF TypeInv, MachineInv
  <2>2. Names \in Nat
    BY <2>1 DEF Names
  <2>3. Names <= 34
    BY DEF Ordinary
  <2> QED BY <2>2, <2>3
<1> QED BY <1>3, <1>4

LEMMA NextFirstCard == TypeInv /\ FirstCard /\ [Next]_vars => FirstCard'
<1> SUFFICES ASSUME TypeInv, FirstCard, [Next]_vars PROVE FirstCard'
  OBVIOUS
<1>1. CASE UNCHANGED <<k, strMAC, strIP, cards>>
  <2>1. MacText(cards'[1]) = MacText(cards[1])
    BY <1>1
  <2> QED BY <1>1, <2>1 DEF FirstCard, MacText
<1>2. CASE NextCard
  <2>1. /\ k \in Nat /\ k' = k + 1 /\ cards' = cards
        /\ cards \in Seq(Card) /\ k' \in 1 .. Len(cards)
    BY <1>2 DEF NextCard, TypeInv, TypeOK, MachineInv, machineVars
  <2>2. CASE k' # 1
    BY <2>1, <2>2 DEF FirstCard
  <2>3. CASE k' = 1
    <3>1. strMAC = << >> /\ strIP = << >>
      BY <2>1, <2>3 DEF FirstCard
    <3>2. Separated(<< >>) = << >>
      BY TotalEmpty DEF Separated
    <3>3. MacText(cards[1]) \in Texts /\ cards[1].ips \in Texts
      BY <2>1, <2>3, CardTexts
    <3>4. strMAC' = << >> \o MacText(cards[1]) /\ strIP' = << >> \o cards[1].ips
      BY <1>2, <2>3, <3>1, <3>2 DEF NextCard
    <3>5. strMAC' = MacText(cards[1]) /\ strIP' = cards[1].ips
      BY <3>3, <3>4 DEF Texts
    <3> QED BY <2>1, <2>3, <3>5 DEF FirstCard, MacText
  <2> QED BY <2>2, <2>3
<1> QED
  BY <1>1, <1>2 DEF Next, PostStored, Replace, Post, user_update, MachineInfo, user_Print,
                    user_insert, vars, machineVars, infoVars

LEMMA NextOrdinary ==
  TypeInv /\ FieldsInv /\ FirstCard /\ OrdinaryNeverEnds /\ [Next]_vars
    => OrdinaryNeverEnds'
<1> SUFFICES ASSUME TypeInv, FieldsInv, FirstCard, OrdinaryNeverEnds, [Next]_vars,
                    Ordinary'
             PROVE  at' # "ended"
  BY DEF OrdinaryNeverEnds
<1>1. UNCHANGED <<cards, names, getUpw>>
  BY DEF Next, PostStored, Replace, Post, user_update, NextCard, MachineInfo, user_Print,
         user_insert, vars, machineVars, formVars
<1>2. Ordinary /\ at # "ended"
  BY <1>1 DEF Ordinary, Names, OrdinaryNeverEnds
<1>3. /\ Assembled[1] = 19 /\ Assembled[4] \in 0 .. 17
      /\ Total(Assembled) \in 0 .. 66 /\ Names \in 0 .. 34
  BY <1>2, OrdinaryFields
<1>4. at \in {"print", "insert", "refuse"} =>
        /\ fields[1] = 19 /\ fields[4] \in 0 .. 17 /\ InfoText \in 0 .. 66
  BY <1>3 DEF FieldsInv, InfoText
<1>5. CASE at' = at
  BY <1>2, <1>5
<1>6. CASE Post \/ PostStored
  <2>1. /\ getUpw \in Nat /\ names[1] \in Nat /\ FormText \in Nat /\ MaxPlus \in Nat
        /\ plus \in 0 .. MaxPlus
        /\ strUserPW \in getUpw .. getUpw + 2 * (MaxPlus - plus)
    BY StatementsAssumption DEF TypeInv, TypeOK, MachineInv
  <2>2. strUserPW <= getUpw + 2 * MaxPlus
    BY <2>1
  <2>3. Form(strUserPW) < 1000 /\ Form(getUpw) < 1000
    BY <1>2, <2>1, <2>2 DEF Ordinary, Form
  <2> QED BY <1>6, <2>3 DEF Post, PostStored, AfterText, Fits
<1>7. CASE user_update
  <2>1. getUpw \in Nat /\ getUpw <= 154
    BY <1>2, StatementsAssumption DEF TypeInv, MachineInv, Ordinary
  <2>2. UpdateText < 255
    BY <2>1 DEF UpdateText, CardNumber
  <2> QED BY <1>7, <2>2 DEF user_update, AfterText, Fits
<1>8. CASE MachineInfo
  <2>1. Total(Assembled) + 3 < 250
    BY <1>3
  <2> QED BY <1>8, <2>1 DEF MachineInfo, AfterText, Fits
<1>9. ASSUME NEW exists \in BOOLEAN, user_Print(exists) PROVE at' # "ended"
  <2>1. fields[1] = 19 /\ fields[4] \in 0 .. 17 /\ InfoText \in 0 .. 66
    BY <1>4, <1>9 DEF user_Print
  <2>2. 43 + fields[4] < 500
    BY <2>1
  <2>3. PrintText(exists) < 500
    BY <1>3, <2>1 DEF PrintText, CardNumber
  <2> QED BY <1>9, <2>2, <2>3 DEF user_Print, AfterText, Fits
<1>10. CASE user_insert
  <2>1. InfoText \in 0 .. 66
    BY <1>4, <1>10 DEF user_insert
  <2>2. AttendanceText < 255 /\ FailureText < 255
    BY <1>3, <2>1 DEF AttendanceText, FailureText, CardNumber
  <2> QED BY <1>10, <2>2 DEF user_insert, AfterText, Fits
<1> QED
  BY <1>5, <1>6, <1>7, <1>8, <1>9, <1>10 DEF Next, Replace, NextCard, vars

(***************************************************************************)
(* No sprintf_s or strcpy_s of a login ends the process on an ordinary     *)
(* machine: a card with an address of up to six bytes and one IP address,  *)
(* names of 34 bytes together, a password of 154 and a form with room for  *)
(* it, however many of its characters are '+'.                             *)
(***************************************************************************)
THEOREM OrdinaryMachinesLogIn == Spec => []OrdinaryNeverEnds
<1>1. Init => FirstCard /\ OrdinaryNeverEnds
  BY DEF Init, FirstCard, OrdinaryNeverEnds
<1>2. TypeInv /\ FieldsInv /\ FirstCard /\ OrdinaryNeverEnds /\ [Next]_vars
        => FirstCard' /\ OrdinaryNeverEnds'
  BY NextFirstCard, NextOrdinary
<1> QED BY <1>1, <1>2, FieldsHold, PTL DEF Spec
=============================================================================
