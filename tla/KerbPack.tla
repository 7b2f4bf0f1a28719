------------------------------ MODULE KerbPack ------------------------------
(***************************************************************************)
(* The packing helpers of helpers.cpp.  A credential is handed to Winlogon *)
(* as one block of memory: a structure of fixed size with, behind it, the  *)
(* characters of three strings, which the structure refers to by offsets.  *)
(* A text is a model value with a number of characters.                    *)
(***************************************************************************)
EXTENDS Integers

CONSTANTS
  Texts,       \* texts that occur
  Chars,       \* the number of characters of each
  NullString,  \* the NULL pointer
  UShortMax,   \* USHORT_MAX: 65535
  StructSize   \* sizeof(KERB_INTERACTIVE_UNLOCK_LOGON)

\* NULL is not a text; numbers are numbers.
ASSUME KerbPackAssumption ==
  /\ NullString \notin Texts
  /\ Chars \in [Texts -> Nat]
  /\ UShortMax \in Nat
  /\ StructSize \in Nat

WCHAR == 2

\* UnicodeStringInitWithString succeeds: the text is there, StringCchLengthW
\* finds its end within USHORT_MAX characters, and its bytes fit a USHORT.
Fits(pwz) ==
  /\ pwz # NullString
  /\ Chars[pwz] < UShortMax
  /\ Chars[pwz] * WCHAR <= UShortMax

UnicodeString(pwz) == [Length |-> Chars[pwz] * WCHAR, Buffer |-> pwz]

Scenarios == {"LOGON", "UNLOCK_WORKSTATION", "CREDUI"}

\* A variant of MessageType that does not tell unlocking from logging on.
MessageType_LogonOnly(cpus) ==
  CASE cpus \in {"LOGON", "UNLOCK_WORKSTATION"} -> "KerbInteractiveLogon"
    [] OTHER -> "0"

MessageType(cpus) ==
  CASE cpus = "LOGON" -> "KerbInteractiveLogon"
    [] cpus = "UNLOCK_WORKSTATION" -> "KerbWorkstationUnlockLogon"
    [] OTHER -> "0"

\* KerbInteractiveUnlockLogonInit succeeds, and what it fills in.
CanInit(domain, user, password, cpus) ==
  Fits(domain) /\ Fits(user) /\ Fits(password) /\ cpus \in Scenarios

KerbInteractiveUnlockLogon(domain, user, password, cpus) ==
  [MessageType     |-> MessageType(cpus),
   LogonDomainName |-> UnicodeString(domain),
   UserName        |-> UnicodeString(user),
   Password        |-> UnicodeString(password)]

\* The packed strings: where each begins, how long it is and what was copied.
PackedString(us, offset) ==
  [Length |-> us.Length, Buffer |-> offset, copied |-> us.Buffer]

\* A variant of Pack that starts the password where the user name starts.
Pack_NotAdvanced(kiul) ==
  LET user == StructSize + kiul.LogonDomainName.Length IN
  [cb |-> StructSize + kiul.LogonDomainName.Length + kiul.UserName.Length
            + kiul.Password.Length,
   MessageType     |-> kiul.MessageType,
   LogonDomainName |-> PackedString(kiul.LogonDomainName, StructSize),
   UserName        |-> PackedString(kiul.UserName, user),
   Password        |-> PackedString(kiul.Password, user)]

\* KerbInteractiveUnlockLogonPack: the three strings follow one another.
Pack(kiul) ==
  LET user     == StructSize + kiul.LogonDomainName.Length
      password == user + kiul.UserName.Length
  IN
  [cb |-> StructSize + kiul.LogonDomainName.Length + kiul.UserName.Length
            + kiul.Password.Length,
   MessageType     |-> kiul.MessageType,
   LogonDomainName |-> PackedString(kiul.LogonDomainName, StructSize),
   UserName        |-> PackedString(kiul.UserName, user),
   Password        |-> PackedString(kiul.Password, password)]

\* The offsets s occupies in its block.
Extent(s) == s.Buffer .. s.Buffer + s.Length - 1

(***************************************************************************)
(* A block Winlogon can read on its own: every string lies behind the      *)
(* structure and inside the block, has the length of its text, and no two  *)
(* share a byte.                                                           *)
(***************************************************************************)
SelfContained(block) ==
  LET parts == {block.LogonDomainName, block.UserName, block.Password} IN
  /\ \A s \in parts :
       /\ Extent(s) \subseteq StructSize .. block.cb - 1
       /\ s.Length = Chars[s.copied] * WCHAR
       /\ s.Length <= UShortMax
  /\ Extent(block.LogonDomainName) \cap Extent(block.UserName) = {}
  /\ Extent(block.LogonDomainName) \cap Extent(block.Password) = {}
  /\ Extent(block.UserName) \cap Extent(block.Password) = {}
=============================================================================
