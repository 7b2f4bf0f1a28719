-------------------------- MODULE CredentialProofs --------------------------
(***************************************************************************)
(* What holds of the connected tile for every set of texts and lengths,    *)
(* every number of callbacks and every bound on the calls.                 *)
(***************************************************************************)
EXTENDS Credential, TLAPS

(***************************************************************************)
(* Packing.  Three texts that fit give a block that can be read on its     *)
(* own, whatever the size of the structure.                                *)
(***************************************************************************)
LEMMA PackSelfContained ==
  ASSUME NEW domain \in Texts, NEW user \in Texts, NEW secret \in Texts,
         NEW cpus,
         Fits(domain), Fits(user), Fits(secret)
  PROVE  SelfContained(Pack(KerbInteractiveUnlockLogon(domain, user, secret, cpus)))
<1> DEFINE d == Chars[domain] * WCHAR
           u == Chars[user] * WCHAR
           p == Chars[secret] * WCHAR
           block == Pack(KerbInteractiveUnlockLogon(domain, user, secret, cpus))
<1>1. d \in Nat /\ u \in Nat /\ p \in Nat /\ StructSize \in Nat
  BY KerbPackAssumption DEF WCHAR
<1>2. d <= UShortMax /\ u <= UShortMax /\ p <= UShortMax
  BY DEF Fits
<1>3. /\ block.LogonDomainName = [Length |-> d, Buffer |-> StructSize, copied |-> domain]
      /\ block.UserName = [Length |-> u, Buffer |-> StructSize + d, copied |-> user]
      /\ block.Password = [Length |-> p, Buffer |-> StructSize + d + u, copied |-> secret]
      /\ block.cb = StructSize + d + u + p
  BY DEF Pack, PackedString, KerbInteractiveUnlockLogon, UnicodeString
<1> HIDE DEF block
<1>4. /\ block.LogonDomainName.Length = Chars[block.LogonDomainName.copied] * WCHAR
      /\ block.UserName.Length = Chars[block.UserName.copied] * WCHAR
      /\ block.Password.Length = Chars[block.Password.copied] * WCHAR
  BY <1>3
<1>5. /\ Extent(block.LogonDomainName) = StructSize .. StructSize + d - 1
      /\ Extent(block.UserName) = StructSize + d .. StructSize + d + u - 1
      /\ Extent(block.Password) = StructSize + d + u .. StructSize + d + u + p - 1
  BY <1>3 DEF Extent
<1> HIDE DEF d, u, p
<1>6. /\ Extent(block.LogonDomainName) \subseteq StructSize .. block.cb - 1
      /\ Extent(block.UserName) \subseteq StructSize .. block.cb - 1
      /\ Extent(block.Password) \subseteq StructSize .. block.cb - 1
  BY <1>1, <1>3, <1>5
<1>7. /\ Extent(block.LogonDomainName) \cap Extent(block.UserName) = {}
      /\ Extent(block.LogonDomainName) \cap Extent(block.Password) = {}
      /\ Extent(block.UserName) \cap Extent(block.Password) = {}
  BY <1>1, <1>5
<1>8. /\ block.LogonDomainName.Length <= UShortMax
      /\ block.UserName.Length <= UShortMax
      /\ block.Password.Length <= UShortMax
  BY <1>2, <1>3
<1> QED
  BY <1>4, <1>6, <1>7, <1>8 DEF SelfContained, block
-----------------------------------------------------------------------------
\* What the block was made from can be read off it.
LEMMA PackKeepsTexts ==
  ASSUME NEW domain, NEW user, NEW secret, NEW cpus,
         NEW block,
         block = Pack(KerbInteractiveUnlockLogon(domain, user, secret, cpus))
  PROVE  /\ block.LogonDomainName.copied = domain
         /\ block.UserName.copied = user
         /\ block.Password.copied = secret
         /\ block.MessageType = MessageType(cpus)
BY DEF Pack, PackedString, KerbInteractiveUnlockLogon, UnicodeString
-----------------------------------------------------------------------------
(***************************************************************************)
(* The inductive invariant: types, a password field that cannot be edited  *)
(* has no text, and nothing has happened before the tile was created.      *)
(***************************************************************************)
Untouched ==
  ~Created => /\ ~selected
              /\ pcpcs = Nothing
              /\ username = NullString /\ password = NullString
              /\ heap = 0

FieldInv ==
  /\ scenario \in {"none", "LOGON", "UNLOCK_WORKSTATION"}
  /\ IF Created THEN _cpus \in {"LOGON", "UNLOCK_WORKSTATION"} ELSE _cpus = "none"
  /\ editable \in BOOLEAN
  /\ ~editable => password = NullString
  /\ username \in {Initial, NullString, Wide[strUser]}
  /\ password \in Shown
  /\ selected \in BOOLEAN
  /\ strUser \in Accounts
  /\ finished \in BOOLEAN
  /\ calls \in 0 .. MaxCalls
  /\ heap \in Int
  /\ Untouched

\* What holds of the texts that occur.
LEMMA TextFacts ==
  /\ {Empty, Initial, Fixed, Computer} \subseteq Texts
  /\ Typed \subseteq Texts
  /\ Domains \subseteq Texts
  /\ NullString \notin Texts
  /\ Wide \in [Accounts -> Texts]
  /\ Protected \in [Texts -> Texts]
  /\ Fixed # Empty /\ Empty \notin Typed /\ Fixed \notin Typed
  /\ NullString \notin {Empty, Initial, Fixed} /\ NullString \notin Typed
BY CredentialAssumption, KerbPackAssumption

\* A block is a pointer that is not NULL.
LEMMA BlockNat == \A pwz : Block(pwz) \in {0, 1}
BY DEF Block

LEMMA FieldInit == Init => FieldInv
<1> SUFFICES ASSUME Init PROVE FieldInv
  OBVIOUS
<1>1. MaxCalls \in Nat
  BY CredentialAssumption
<1>2. calls \in 0 .. MaxCalls
  BY <1>1 DEF Init
<1>3. finished \in BOOLEAN /\ selected \in BOOLEAN /\ editable \in BOOLEAN
  BY DEF Init
<1> QED
  BY <1>2, <1>3 DEF Init, FieldInv, Untouched, Created, Shown

LEMMA FieldStep == FieldInv /\ [Next]_vars => FieldInv'
<1> SUFFICES ASSUME FieldInv, [Next]_vars PROVE FieldInv'
  OBVIOUS
<1> USE TextFacts, BlockNat, CredentialAssumption
<1>1. ASSUME NEW cpus \in Scenarios, SetUsageScenario(cpus) PROVE FieldInv'
  <2>1. CASE Created
    BY <1>1, <2>1 DEF SetUsageScenario, FieldInv, Untouched, Created, fieldVars,
                      eventVars, outVars, Shown
  <2>2. CASE ~Created
    <3>1. Initialize(cpus)
      BY <1>1, <2>2 DEF SetUsageScenario
    <3>2. /\ editable' \in BOOLEAN
          /\ ~editable' => password' = NullString
      BY <3>1 DEF Initialize
    <3>3. /\ username' \in {Initial, NullString}
          /\ password' \in {Fixed, NullString}
          /\ _cpus' = cpus
      BY <3>1 DEF Initialize, SHStrDupW
    <3>4. heap' \in Int
      <4>1. Block(username') \in {0, 1} /\ Block(password') \in {0, 1}
        OBVIOUS
      <4> QED
        BY <3>1, <4>1 DEF Initialize, FieldInv
    <3>5. Created'
      BY <1>1 DEF SetUsageScenario, Created
    <3> QED
      BY <1>1, <3>2, <3>3, <3>4, <3>5 DEF SetUsageScenario, FieldInv, Untouched, Created, outVars,
                              Shown
  <2> QED
    BY <2>1, <2>2
<1>2. ASSUME NEW s \in Callbacks, Advise(s) PROVE FieldInv'
  BY <1>2 DEF Advise, FieldInv, Untouched, Created, fieldVars, outVars, Shown
<1>3. CASE UnAdvise
  BY <1>3 DEF UnAdvise, FieldInv, Untouched, Created, fieldVars, outVars, Shown
<1>4. CASE SetSelected
  BY <1>4 DEF SetSelected, FieldInv, Untouched, Created, fieldVars, outVars, Shown
<1>5. CASE SetDeselected
  <2>1. Created
    BY <1>5 DEF SetDeselected, FieldInv, Untouched
  <2>2. /\ password' \in {password, Empty, NullString}
        /\ ~editable => password' = NullString
        /\ heap' \in Int
    BY <1>5 DEF SetDeselected, ClearPassword, SHStrDupW, FieldInv
  <2> QED
    BY <1>5, <2>1, <2>2 DEF SetDeselected, FieldInv, Untouched, Created, outVars, Shown
<1>6. ASSUME NEW text \in Typed, SetStringValue(text) PROVE FieldInv'
  <2>1. Created
    BY <1>6 DEF SetStringValue, FieldInv, Untouched
  <2>2. /\ password' \in {password, text, NullString}
        /\ ~editable => password' = NullString
        /\ heap' \in Int
    BY <1>6 DEF SetStringValue, Store, SHStrDupW, FieldInv
  <2> QED
    BY <1>6, <2>1, <2>2 DEF SetStringValue, FieldInv, Untouched, Created, outVars, Shown
<1>7. ASSUME NEW kept \in {0, 1}, Serialization(kept), finished' \in BOOLEAN
      PROVE  FieldInv'
  <2>1. Created
    BY <1>7 DEF Serialization, FieldInv, Untouched
  <2>2. /\ password' \in {password, Fixed, NullString}
        /\ ~editable => password' = NullString
        /\ username' \in {Wide[strUser], NullString}
    BY <1>7 DEF Serialization, Refill, SHStrDupW, FieldInv
  <2>3. heap' \in Int
    BY <1>7 DEF Serialization, FieldInv
  <2>4. calls' \in 0 .. MaxCalls
    BY <1>7 DEF Serialization, FieldInv
  <2> QED
    BY <1>7, <2>1, <2>2, <2>3, <2>4 DEF Serialization, FieldInv, Untouched, Created, Shown
<1>8. CASE SerializationFails
  BY <1>7, <1>8 DEF SerializationFails
<1>9. ASSUME NEW domain \in LogonDomains, SerializationPacks(domain) PROVE FieldInv'
  BY <1>7, <1>9 DEF SerializationPacks
<1>10. CASE UNCHANGED vars
  BY <1>10 DEF vars, fieldVars, eventVars, outVars, FieldInv, Untouched, Created, Shown
<1> QED
  BY <1>1, <1>2, <1>3, <1>4, <1>5, <1>6, <1>8, <1>9, <1>10 DEF Next

LEMMA FieldAlways == Spec => []FieldInv
BY FieldInit, FieldStep, PTL DEF Spec
-----------------------------------------------------------------------------
(***************************************************************************)
(* The callbacks: each call releases what Advise took.                     *)
(***************************************************************************)
EventInv ==
  /\ events \in Callbacks \cup {NoCallback}
  /\ eventRefs = [s \in Callbacks |-> IF events = s THEN 1 ELSE 0]

LEMMA EventAlways == Spec => []EventInv
<1>1. Init => EventInv
  BY CredentialAssumption DEF Init, EventInv
<1>2. EventInv /\ [Next]_vars => EventInv'
  <2> SUFFICES ASSUME EventInv, [Next]_vars PROVE EventInv'
    OBVIOUS
  <2>1. ASSUME NEW s \in Callbacks, Advise(s) PROVE EventInv'
    <3>1. \A x \in Callbacks : eventRefs[x] - (IF x = events THEN 1 ELSE 0) = 0
      BY DEF EventInv
    <3>2. \A x \in Callbacks : eventRefs[x] - (IF x = events THEN 1 ELSE 0)
                                 + (IF x = s THEN 1 ELSE 0) = IF s = x THEN 1 ELSE 0
      BY <3>1
    <3> QED
      BY <2>1, <3>2 DEF Advise, EventInv
  <2>2. CASE UnAdvise
    <3>1. \A x \in Callbacks : eventRefs[x] - (IF x = events THEN 1 ELSE 0)
                                 = IF NoCallback = x THEN 1 ELSE 0
      BY CredentialAssumption DEF EventInv
    <3> QED
      BY <2>2, <3>1 DEF UnAdvise, EventInv
  <2>3. CASE UNCHANGED eventVars
    BY <2>3 DEF eventVars, EventInv
  <2> QED
    BY <2>1, <2>2, <2>3 DEF Next, SetUsageScenario, SetSelected, SetDeselected,
       SetStringValue, SerializationFails, SerializationPacks, Serialization, vars
<1> QED
  BY <1>1, <1>2, PTL DEF Spec

(***************************************************************************)
(* However often LogonUI advises and unadvises the tile, it holds one      *)
(* reference to the callback it would notify and none to any other.        *)
(***************************************************************************)
THEOREM CallbackHeldOnce == Spec => []EventsBalanced
<1>1. EventInv => EventsBalanced
  BY DEF EventInv, EventsBalanced
<1> QED
  BY <1>1, EventAlways, PTL
-----------------------------------------------------------------------------
(***************************************************************************)
(* Memory: nothing is freed twice, and only GetSerialization leaks, at     *)
(* most the name it replaces and the block it packed.                      *)
(***************************************************************************)
THEOREM OnlySerializingLeaks == Spec => []HeapAccounted
<1>1. Init => HeapAccounted
  BY DEF Init, HeapAccounted, Block
<1>2. FieldInv /\ HeapAccounted /\ [Next]_vars => HeapAccounted'
  <2> SUFFICES ASSUME FieldInv, HeapAccounted, [Next]_vars PROVE HeapAccounted'
    OBVIOUS
  <2>0. heap \in Int /\ calls \in Nat
    BY CredentialAssumption DEF FieldInv
  <2> USE BlockNat, <2>0
  <2>1. ASSUME NEW cpus \in Scenarios, SetUsageScenario(cpus) PROVE HeapAccounted'
    <3>1. CASE Created
      BY <2>1, <3>1 DEF SetUsageScenario, fieldVars, outVars, HeapAccounted, Block
    <3>2. CASE ~Created
      <4>1. heap' = Block(username') + Block(password')
        BY <2>1, <3>2 DEF SetUsageScenario, Initialize, FieldInv, Untouched
      <4>2. calls' = calls
        BY <2>1 DEF SetUsageScenario, outVars
      <4> QED
        BY <4>1, <4>2 DEF HeapAccounted, Block
    <3> QED
      BY <3>1, <3>2
  <2>2. CASE UNCHANGED <<username, password, calls, heap>>
    BY <2>2 DEF HeapAccounted, Block
  <2>3. CASE SetDeselected
    <3>1. UNCHANGED <<username, calls>>
      BY <2>3 DEF SetDeselected, outVars
    <3>2. UNCHANGED <<password, heap>> \/ (/\ Block(password) = 1
                                           /\ heap' = heap - 1 + Block(password'))
      BY <2>3 DEF SetDeselected, ClearPassword, Block
    <3> QED
      BY <3>1, <3>2 DEF HeapAccounted, Block
  <2>4. ASSUME NEW text \in Typed, SetStringValue(text) PROVE HeapAccounted'
    <3>1. UNCHANGED <<username, calls>>
      BY <2>4 DEF SetStringValue, outVars
    <3>2. UNCHANGED <<password, heap>>
             \/ heap' = heap - Block(password) + Block(password')
      BY <2>4 DEF SetStringValue, Store
    <3> QED
      BY <3>1, <3>2 DEF HeapAccounted, Block
  <2>5. ASSUME NEW kept \in {0, 1}, Serialization(kept) PROVE HeapAccounted'
    <3>1. /\ calls' = calls + 1
          /\ heap' = heap + Block(username') + Block(password') - Block(password) + kept
      BY <2>5 DEF Serialization
    <3>2. Block(username') \in {0, 1} /\ Block(password') \in {0, 1}
      OBVIOUS
    <3>3. Block(username) \in {0, 1} /\ Block(password) \in {0, 1}
      OBVIOUS
    <3>4. /\ Block(username) + Block(password) <= heap
          /\ heap <= Block(username) + Block(password) + 2 * calls
      BY DEF HeapAccounted
    <3>5. /\ Block(username') + Block(password') <= heap'
          /\ heap' <= Block(username') + Block(password') + 2 * calls'
      BY <3>1, <3>2, <3>3, <3>4
    <3> QED
      BY <3>5 DEF HeapAccounted, Block
  <2>6. CASE SerializationFails
    BY <2>5, <2>6 DEF SerializationFails
  <2>7. ASSUME NEW domain \in LogonDomains, SerializationPacks(domain) PROVE HeapAccounted'
    BY <2>5, <2>7 DEF SerializationPacks
  <2> QED
    BY <2>1, <2>2, <2>3, <2>4, <2>6, <2>7
    DEF Next, Advise, UnAdvise, SetSelected, vars, fieldVars, outVars
<1> QED
  BY <1>1, <1>2, FieldAlways, PTL DEF Spec
-----------------------------------------------------------------------------
(***************************************************************************)
(* What a call packs, in a state of a tile that has been created: the      *)
(* account of the configuration, a domain, and the fixed password in its   *)
(* encrypted form or, without memory for its copy, none.                   *)
(***************************************************************************)
LEMMA PackedTexts ==
  ASSUME FieldInv, NEW domain \in LogonDomains, SerializationPacks(domain),
         domain # NullString
  PROVE  /\ domain \in Domains \cup {Computer}
         /\ domain \in Texts
         /\ username' = Wide[strUser] /\ username' \in Texts
         /\ Protect(password') \in {Protected[Fixed], Empty}
         /\ Protect(password') \in Texts
         /\ _cpus' = _cpus /\ _cpus \in {"LOGON", "UNLOCK_WORKSTATION"}
         /\ strUser' = strUser
         /\ Fits(domain) /\ Fits(username') /\ Fits(Protect(password'))
         /\ pcpcs' = Pack(KerbInteractiveUnlockLogon(domain, username',
                                                     Protect(password'), _cpus))
<1> USE TextFacts
<1>1. domain \in Domains \cup {Computer} /\ domain \in Texts
  BY DEF LogonDomains
<1>2. /\ CanInit(domain, username', Protect(password'), _cpus)
      /\ pcpcs' = Pack(KerbInteractiveUnlockLogon(domain, username',
                                                  Protect(password'), _cpus))
  BY DEF SerializationPacks
<1>3. \E kept \in {0, 1} : Serialization(kept)
  BY DEF SerializationPacks
<1>4. /\ username' \in {Wide[strUser], NullString}
      /\ password' \in {Fixed, NullString}
      /\ _cpus' = _cpus /\ strUser' = strUser
      /\ selected
  BY <1>3 DEF Serialization, Refill, SHStrDupW, FieldInv
<1>5. Fits(domain) /\ Fits(username') /\ Fits(Protect(password'))
  BY <1>2 DEF CanInit
<1>6. username' = Wide[strUser] /\ username' \in Texts
  BY <1>4, <1>5 DEF Fits, FieldInv
<1>7. _cpus \in {"LOGON", "UNLOCK_WORKSTATION"}
  BY <1>4 DEF FieldInv, Untouched
<1>8. Protect(password') \in {Protected[Fixed], Empty}
  BY <1>4, <1>7 DEF Protect
<1> QED
  BY <1>1, <1>2, <1>4, <1>5, <1>6, <1>7, <1>8

\* A step that packs no texts keeps the credential as it was, or has none.
LEMMA OtherSteps ==
  ASSUME FieldInv, [Next]_vars,
         ~ \E domain \in LogonDomains : SerializationPacks(domain) /\ domain # NullString
  PROVE  Packed' => pcpcs' = pcpcs /\ _cpus' = _cpus /\ strUser' = strUser
<1>1. ASSUME NEW cpus \in Scenarios, SetUsageScenario(cpus), Packed'
      PROVE  pcpcs' = pcpcs /\ _cpus' = _cpus /\ strUser' = strUser
  BY <1>1 DEF SetUsageScenario, FieldInv, Untouched, Packed, outVars, fieldVars
<1>2. ASSUME SerializationFails \/ SerializationPacks(NullString) PROVE ~Packed'
  BY <1>2 DEF SerializationFails, SerializationPacks, Packed
<1> QED
  BY <1>1, <1>2 DEF Next, Advise, UnAdvise, SetSelected, SetDeselected,
     SetStringValue, vars, fieldVars, outVars

(***************************************************************************)
(* Whatever the lengths of the texts, Winlogon can read what the tile      *)
(* packs on its own.                                                       *)
(***************************************************************************)
THEOREM PackedBlocksStandAlone == Spec => []PackedInside
<1>1. Init => PackedInside
  BY DEF Init, PackedInside, Packed
<1>2. FieldInv /\ PackedInside /\ [Next]_vars => PackedInside'
  <2> SUFFICES ASSUME FieldInv, PackedInside, [Next]_vars, Packed'
               PROVE  SelfContained(pcpcs)'
    BY DEF PackedInside
  <2>1. ASSUME NEW domain \in LogonDomains, SerializationPacks(domain),
               domain # NullString
        PROVE  SelfContained(pcpcs)'
    BY <2>1, PackedTexts, PackSelfContained
  <2>2. ASSUME pcpcs' = pcpcs PROVE SelfContained(pcpcs)'
    BY <2>2 DEF PackedInside, Packed, SelfContained, Extent
  <2> QED
    BY <2>1, <2>2, OtherSteps
<1> QED
  BY <1>1, <1>2, FieldAlways, PTL DEF Spec

(***************************************************************************)
(* A credential the tile packs is the configured one for as long as it     *)
(* stands: nothing a user types into the tile gets into it.                *)
(***************************************************************************)
THEOREM CredentialIsConfigured == Spec => []PackedIsConfigured
<1>1. Init => PackedIsConfigured
  BY DEF Init, PackedIsConfigured, Packed
<1>2. FieldInv /\ PackedIsConfigured /\ [Next]_vars => PackedIsConfigured'
  <2> SUFFICES ASSUME FieldInv, PackedIsConfigured, [Next]_vars, Packed'
               PROVE  PackedIsConfigured'
    BY DEF PackedIsConfigured
  <2>1. ASSUME NEW domain \in LogonDomains, SerializationPacks(domain),
               domain # NullString
        PROVE  PackedIsConfigured'
    <3>1. /\ pcpcs'.LogonDomainName.copied = domain
          /\ pcpcs'.UserName.copied = username'
          /\ pcpcs'.Password.copied = Protect(password')
          /\ pcpcs'.MessageType = MessageType(_cpus)
      <4>1. pcpcs' = Pack(KerbInteractiveUnlockLogon(domain, username',
                                                     Protect(password'), _cpus))
        BY <2>1, PackedTexts
      <4> QED
        BY <4>1, PackKeepsTexts
    <3>2. MessageType(_cpus) = IF _cpus = "LOGON" THEN "KerbInteractiveLogon"
                                                  ELSE "KerbWorkstationUnlockLogon"
      BY <2>1, PackedTexts DEF MessageType
    <3> QED
      BY <2>1, <3>1, <3>2, PackedTexts DEF PackedIsConfigured
  <2>2. ASSUME pcpcs' = pcpcs, _cpus' = _cpus, strUser' = strUser
        PROVE  PackedIsConfigured'
    BY <2>2 DEF PackedIsConfigured, Packed
  <2> QED
    BY <2>1, <2>2, OtherSteps
<1> QED
  BY <1>1, <1>2, FieldAlways, PTL DEF Spec

(***************************************************************************)
(* A tile that is not selected shows no short typed password.              *)
(***************************************************************************)
THEOREM DeselectingClears == Spec => []DeselectedIsCleared
<1>1. Init => DeselectedIsCleared
  BY TextFacts DEF Init, DeselectedIsCleared
<1>2. FieldInv /\ DeselectedIsCleared /\ [Next]_vars => DeselectedIsCleared'
  <2> SUFFICES ASSUME FieldInv, DeselectedIsCleared, [Next]_vars
               PROVE  DeselectedIsCleared'
    OBVIOUS
  <2> USE TextFacts
  <2>1. ASSUME NEW cpus \in Scenarios, SetUsageScenario(cpus) PROVE DeselectedIsCleared'
    BY <2>1 DEF SetUsageScenario, Initialize, SHStrDupW, DeselectedIsCleared, fieldVars
  <2>2. CASE SetDeselected
    <3>1. \/ password' \in {Empty, NullString}
          \/ password' = password /\ password = NullString
          \/ password' = password /\ ~(Chars[password] < ClearLimit)
      BY <2>2 DEF SetDeselected, ClearPassword, SHStrDupW
    <3>2. password' \in Typed => Chars[password'] \in Nat /\ ClearLimit \in Nat
      BY CredentialAssumption, KerbPackAssumption
    <3> QED
      BY <3>1, <3>2 DEF DeselectedIsCleared
  <2>3. CASE selected'
    BY <2>3 DEF DeselectedIsCleared
  <2>4. CASE UNCHANGED <<selected, password>>
    BY <2>4 DEF DeselectedIsCleared
  <2> QED
    BY <2>1, <2>2, <2>3, <2>4 DEF Next, Advise, UnAdvise, SetSelected, SetStringValue,
       SerializationFails, SerializationPacks, Serialization, vars, fieldVars
<1> QED
  BY <1>1, <1>2, FieldAlways, PTL DEF Spec

(***************************************************************************)
(* Types: the counts of the callbacks and of the blocks included, which    *)
(* rest on the two balances.                                               *)
(***************************************************************************)
THEOREM TileTypes == Spec => []TypeOK
<1>1. FieldInv /\ EventInv /\ HeapAccounted => TypeOK
  <2> SUFFICES ASSUME FieldInv, EventInv, HeapAccounted PROVE TypeOK
    OBVIOUS
  <2>1. heap \in Nat
    <3>1. Block(username) \in {0, 1} /\ Block(password) \in {0, 1}
      BY BlockNat
    <3> QED
      BY <3>1 DEF FieldInv, HeapAccounted
  <2>2. eventRefs \in [Callbacks -> {0, 1}]
    BY DEF EventInv
  <2>3. {scenario, _cpus} \subseteq {"none", "LOGON", "UNLOCK_WORKSTATION"}
    BY DEF FieldInv
  <2> QED
    BY <2>1, <2>2, <2>3 DEF TypeOK, FieldInv, EventInv
<1> QED
  BY <1>1, FieldAlways, EventAlways, OnlySerializingLeaks, PTL
=============================================================================
