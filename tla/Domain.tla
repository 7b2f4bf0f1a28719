------------------------------- MODULE Domain -------------------------------
(***************************************************************************)
(* The data the card-login system passes around, reduced to what its       *)
(* control distinguishes: card numbers, the users that own them, and       *)
(* passwords, of which only the length test of the login handler and the   *)
(* '+' character, special in a form body, are seen.  Every other module    *)
(* extends this one.                                                       *)
(***************************************************************************)
EXTENDS Naturals, Sequences

CONSTANTS
  Cards,      \* card numbers the reader can deliver
  Known,      \* cards with a row in CarTable
  Users,      \* users of the internet gateway
  Owner,      \* the user each known card belongs to
  Passwords,  \* passwords that can be typed or stored
  Long,       \* passwords of more than 7 characters
  Plus,       \* passwords that contain a '+'
  GatewayPw,  \* the password the gateway expects of each user
  NoCard,     \* the empty card string
  NoUser,     \* the empty user string, and "nobody has a session"
  NoPw        \* the empty password

(***************************************************************************)
(* Empty strings are not cards, users or passwords.  The gateway's own     *)
(* passwords are arbitrary members of Passwords.                           *)
(***************************************************************************)
ASSUME DomainAssumption ==
  /\ Known \subseteq Cards
  /\ Owner \in [Known -> Users]
  /\ Long \subseteq Passwords
  /\ Plus \subseteq Passwords
  /\ GatewayPw \in [Users -> Passwords]
  /\ NoCard \notin Cards
  /\ NoUser \notin Users
  /\ NoPw \notin Passwords

\* What a std::string of each kind can hold.
CardString == Cards \cup {NoCard}
UserString == Users \cup {NoUser}
PwString   == Passwords \cup {NoPw}
=============================================================================
