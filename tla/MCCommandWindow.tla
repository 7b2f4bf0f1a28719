--------------------------- MODULE MCCommandWindow ---------------------------
(* Instances of CommandWindow for TLC: the constants of the configurations. *)
EXTENDS CommandWindow

CONSTANTS c1, c2, u1, u2, short, plain, plus

\* One known card, or two of two users.
MCOneOwner == [c \in Known |-> u1]
MCOwner == [c \in Known |-> IF c = c1 THEN u1 ELSE u2]

\* Gateway passwords: u1's holds a '+', u2's does not; or neither does.
MCGatewayPlus == [u \in Users |-> IF u = u1 THEN plus ELSE plain]
MCGatewayPlain == [u \in Users |-> plain]
=============================================================================
