----------------------------- MODULE Credential -----------------------------
(***************************************************************************)
(* CSampleCredential, the connected tile, from its creation in             *)
(* CSampleProvider::SetUsageScenario on: the strings it owns, the callback *)
(* it was advised of, and the credential it serializes.  LogonUI may call  *)
(* its methods in any order, but asks for a serialization only of a tile   *)
(* that is selected.  Memory may run out at every allocation.              *)
(***************************************************************************)
EXTENDS KerbPack, FiniteSets

CONSTANTS
  Empty,       \* the text ""
  Initial,     \* the text shown as the user name at first
  Fixed,       \* L"12345678-a"
  Typed,       \* texts a user types into the password field
  Accounts,    \* what the configuration may name as strUser
  Wide,        \* each account's name when its bytes are widened one by one
  Computer,    \* the computer's name
  Domains,     \* names DsRoleGetPrimaryDomainInformation may give
  Protected,   \* each text's encrypted form
  ClearLimit,  \* 128: a password is cleared if it is shorter
  Callbacks,   \* LogonUI's callback objects
  NoCallback,  \* the NULL callback
  Nothing,     \* no credential has been packed
  Garbage,     \* packed from a structure that was never filled in
  MaxCalls     \* bound: GetSerialization calls

\* The texts are texts; the encrypted form of one is none of the plain ones.
ASSUME CredentialAssumption ==
  /\ {Empty, Initial, Fixed, Computer} \subseteq Texts
  /\ Typed \subseteq Texts
  /\ Domains \subseteq Texts
  /\ Wide \in [Accounts -> Texts]
  /\ Protected \in [Texts -> Texts]
  /\ Protected[Fixed] \notin Typed
  /\ Fixed \notin Typed /\ Empty \notin Typed
  /\ Fixed # Empty
  /\ Chars[Empty] = 0
  /\ Chars[Fixed] < ClearLimit
  /\ ClearLimit \in Nat \ {0}
  /\ NoCallback \notin Callbacks
  /\ MaxCalls \in Nat

VARIABLES
  scenario,       \* the provider's _cpus, "none" before the first
  _cpus,          \* the tile's
  editable,       \* the password field's descriptor was copied
  username,       \* _rgFieldStrings[SFI_USERNAME]
  password,       \* _rgFieldStrings[SFI_PASSWORD]
  events,         \* _pCredProvCredentialEvents
  eventRefs,      \* references the tile has to each callback
  selected,       \* LogonUI has selected the tile
  strUser,        \* the account of the configuration
  finished,       \* the last GetSerialization said CPGSR_RETURN_CREDENTIAL_FINISHED
  pcpcs,          \* what it gave LogonUI
  calls,          \* GetSerialization calls so far
  heap            \* blocks allocated for the two fields or for packing, not freed

fieldVars == <<_cpus, editable, username, password>>
eventVars == <<events, eventRefs>>
outVars == <<finished, pcpcs, calls>>
vars == <<scenario, fieldVars, eventVars, selected, strUser, outVars, heap>>

\* What SHStrDupW makes of a text: a copy, or NULL when memory has run out.
SHStrDupW(text) == {text, NullString}

Block(pwz) == IF pwz = NullString THEN 0 ELSE 1

Init ==
  /\ scenario = "none"
  /\ _cpus = "none"
  /\ editable = FALSE
  /\ username = NullString
  /\ password = NullString
  /\ events = NoCallback
  /\ eventRefs = [s \in Callbacks |-> 0]
  /\ selected = FALSE
  /\ strUser \in Accounts
  /\ finished = FALSE
  /\ pcpcs = Nothing
  /\ calls = 0
  /\ heap = 0

Created == scenario # "none"
-----------------------------------------------------------------------------
(***************************************************************************)
(* SetUsageScenario.  The tile is made for the first scenario and keeps    *)
(* it.  Its Initialize stops at the first copy that fails, and still       *)
(* returns S_OK.                                                           *)
(***************************************************************************)
Initialize(cpus) ==
  /\ _cpus' = cpus
  /\ \/ /\ editable' \in BOOLEAN
        /\ username' = NullString
        /\ password' = NullString
     \/ /\ editable' = TRUE
        /\ username' = Initial
        /\ password' \in SHStrDupW(Fixed)
  /\ heap' = heap + Block(username') + Block(password')

SetUsageScenario(cpus) ==
  /\ cpus \in {"LOGON", "UNLOCK_WORKSTATION"}
  /\ scenario' = cpus
  /\ IF Created THEN UNCHANGED <<fieldVars, heap>> ELSE Initialize(cpus)
  /\ UNCHANGED <<eventVars, selected, strUser, outVars>>
-----------------------------------------------------------------------------
\* A variant of Advise that takes no reference to the callback.
Advise_NoAddRef(s) ==
  /\ Created
  /\ eventRefs' = [x \in Callbacks |-> eventRefs[x] - (IF x = events THEN 1 ELSE 0)]
  /\ events' = s
  /\ UNCHANGED <<scenario, fieldVars, selected, strUser, outVars, heap>>

\* The callback the tile had is released, the new one is not NULL.
Advise(s) ==
  /\ Created
  /\ eventRefs' = [x \in Callbacks |-> eventRefs[x] - (IF x = events THEN 1 ELSE 0)
                                                    + (IF x = s THEN 1 ELSE 0)]
  /\ events' = s
  /\ UNCHANGED <<scenario, fieldVars, selected, strUser, outVars, heap>>

UnAdvise ==
  /\ Created
  /\ eventRefs' = [x \in Callbacks |-> eventRefs[x] - (IF x = events THEN 1 ELSE 0)]
  /\ events' = NoCallback
  /\ UNCHANGED <<scenario, fieldVars, selected, strUser, outVars, heap>>

\* SetSelected asks for an automatic logon.
SetSelected ==
  /\ Created
  /\ ~selected
  /\ selected' = TRUE
  /\ UNCHANGED <<scenario, fieldVars, eventVars, strUser, outVars, heap>>

\* Frees the password, if it is shorter than ClearLimit, and copies "".
ClearPassword ==
  IF password # NullString /\ Chars[password] < ClearLimit
    THEN /\ password' \in SHStrDupW(Empty)
         /\ heap' = heap - 1 + Block(password')
    ELSE UNCHANGED <<password, heap>>

\* A variant of SetDeselected that clears the field only with a callback.
SetDeselected_Advised ==
  /\ selected
  /\ selected' = FALSE
  /\ IF events # NoCallback THEN ClearPassword ELSE UNCHANGED <<password, heap>>
  /\ UNCHANGED <<scenario, _cpus, editable, username, eventVars, strUser, outVars>>

SetDeselected ==
  /\ selected
  /\ selected' = FALSE
  /\ ClearPassword
  /\ UNCHANGED <<scenario, _cpus, editable, username, eventVars, strUser, outVars>>

\* A variant of Store that does not free the text it replaces.
Store_NotFreed(text) ==
  IF editable
    THEN /\ password' \in SHStrDupW(text)
         /\ heap' = heap + Block(password')
    ELSE UNCHANGED <<password, heap>>

\* What SetStringValue does to the password field, the only one that is edited.
Store(text) ==
  IF editable
    THEN /\ password' \in SHStrDupW(text)
         /\ heap' = heap - Block(password) + Block(password')
    ELSE UNCHANGED <<password, heap>>

\* LogonUI calls SetStringValue for every key stroke.
SetStringValue(text) ==
  /\ selected
  /\ Store(text)
  /\ UNCHANGED <<scenario, _cpus, editable, username, eventVars, selected,
                 strUser, outVars>>
-----------------------------------------------------------------------------
\* The text ProtectIfNecessaryAndCopyPassword gives for pwz: an empty password
\* and one for CREDUI are copied, any other is encrypted.
Protect(pwz) ==
  IF pwz \in {NullString, Empty} THEN Empty
  ELSE IF _cpus = "CREDUI" THEN pwz ELSE Protected[pwz]

\* What DsRoleGetPrimaryDomainInformation may say: a name, that the machine is
\* in no domain (NULL), or an error, and then the computer's name is taken.
LogonDomains == Domains \cup {Computer, NullString}

\* A variant of Refill that keeps the password the user typed.
Refill_KeepsTyped ==
  /\ username' \in SHStrDupW(Wide[strUser])
  /\ password' = password

\* The fields GetSerialization packs: the account of the configuration and the
\* fixed password, whatever the user has typed.
Refill ==
  /\ username' \in SHStrDupW(Wide[strUser])
  /\ password' \in IF editable THEN SHStrDupW(Fixed) ELSE {password}

\* What a call has done when it is left with `kept' blocks of its own: the
\* name it replaced has not been freed, the password has.
Serialization(kept) ==
  /\ selected
  /\ calls < MaxCalls
  /\ calls' = calls + 1
  /\ Refill
  /\ heap' = heap + Block(username') + Block(password') - Block(password) + kept
  /\ UNCHANGED <<scenario, _cpus, editable, eventVars, selected, strUser>>

\* A call that fails before a block is packed: the computer's name, the
\* encryption, a text that does not fit, or the block's memory.
SerializationFails ==
  /\ Serialization(0)
  /\ finished' = FALSE
  /\ pcpcs' = Nothing

\* A call that packs.  Outside a domain the structure it packs was never filled
\* in.  When the package is not found the call fails and the block is kept.
SerializationPacks(domain) ==
  /\ finished' \in BOOLEAN
  /\ Serialization(IF finished' THEN 0 ELSE 1)
  /\ IF domain = NullString
       THEN pcpcs' = Garbage
       ELSE LET pwz == Protect(password') IN
            /\ CanInit(domain, username', pwz, _cpus)
            /\ pcpcs' = Pack(KerbInteractiveUnlockLogon(domain, username', pwz, _cpus))
-----------------------------------------------------------------------------
Next ==
  \/ \E cpus \in Scenarios : SetUsageScenario(cpus)
  \/ \E s \in Callbacks : Advise(s)
  \/ UnAdvise
  \/ SetSelected
  \/ SetDeselected
  \/ \E text \in Typed : SetStringValue(text)
  \/ SerializationFails
  \/ \E domain \in LogonDomains : SerializationPacks(domain)

Spec == Init /\ [][Next]_vars
-----------------------------------------------------------------------------
Shown == Typed \cup {Empty, Initial, Fixed, NullString}

\* The variables keep their types: the tile's own scenario is one the provider
\* supports (CSampleProvider.cpp:139-241), the password field holds a typed text
\* or one of the tile's own, and the block count never goes below zero.
TypeOK ==
  /\ {scenario, _cpus} \subseteq {"none", "LOGON", "UNLOCK_WORKSTATION"}
  /\ editable \in BOOLEAN
  /\ username \in {Initial, NullString, Wide[strUser]}
  /\ password \in Shown
  /\ events \in Callbacks \cup {NoCallback}
  /\ eventRefs \in [Callbacks -> {0, 1}]
  /\ selected \in BOOLEAN
  /\ strUser \in Accounts
  /\ finished \in BOOLEAN
  /\ calls \in 0 .. MaxCalls
  /\ heap \in Nat

(***************************************************************************)
(* A tile that is not selected shows no typed password: SetDeselected      *)
(* clears it, but for one that has ClearLimit characters or more.          *)
(***************************************************************************)
DeselectedIsCleared ==
  ~selected /\ password \in Typed => Chars[password] >= ClearLimit

Packed == pcpcs \notin {Nothing, Garbage}

(***************************************************************************)
(* A credential that was packed is the configured one, whatever was typed  *)
(* into the tile, deselected or cleared before (GetSerialization):         *)
(* it names the account of the configuration in a domain of the machine,   *)
(* its password is the encrypted fixed one, or empty when the copy of the  *)
(* fixed one failed, and it says what the tile was made for.               *)
(***************************************************************************)
PackedIsConfigured ==
  Packed =>
    /\ pcpcs.UserName.copied = Wide[strUser]
    /\ pcpcs.LogonDomainName.copied \in Domains \cup {Computer}
    /\ pcpcs.Password.copied \in {Protected[Fixed], Empty}
    /\ pcpcs.MessageType = IF _cpus = "LOGON" THEN "KerbInteractiveLogon"
                                              ELSE "KerbWorkstationUnlockLogon"

(***************************************************************************)
(* What the tile packs can be read by Winlogon on its own                  *)
(* (KerbInteractiveUnlockLogonPack): its strings lie in the block, behind  *)
(* the structure, apart from one another, and as long as their texts, even *)
(* where the number of bytes comes near what a USHORT holds.               *)
(***************************************************************************)
PackedInside == Packed => SelfContained(pcpcs)

(***************************************************************************)
(* The blocks the tile has allocated are those its fields point to, and at *)
(* most two more for each GetSerialization: key strokes and deselecting    *)
(* leak nothing and free nothing twice.                                    *)
(***************************************************************************)
HeapAccounted ==
  LET held == Block(username) + Block(password) IN
  held <= heap /\ heap <= held + 2 * calls

(***************************************************************************)
(* The tile holds one reference to the callback it would notify and none   *)
(* to any other, however often LogonUI advises and unadvises it (Advise,   *)
(* UnAdvise).                                                              *)
(***************************************************************************)
EventsBalanced ==
  \A s \in Callbacks : eventRefs[s] = IF events = s THEN 1 ELSE 0
=============================================================================
