---------------------------- MODULE MCCredential ----------------------------
(***************************************************************************)
(* An instance of Credential.  Lengths sit at the boundaries: 127 and 128  *)
(* around the limit for clearing a password, 32767 and 32768 characters    *)
(* around what a USHORT counts in bytes.                                   *)
(***************************************************************************)
EXTENDS Credential

CONSTANTS initial, fixed, empty, typed127, typed128, sealed, sealedTyped,
          domain1, host, wide1, wide2, wide3

MCTexts == {initial, fixed, empty, typed127, typed128, sealed, sealedTyped,
            domain1, host, wide1, wide2, wide3}

MCChars == [t \in MCTexts |->
  CASE t = empty     -> 0
    [] t = initial   -> 8
    [] t = fixed     -> 10
    [] t = typed127  -> 127
    [] t = typed128  -> 128
    [] t = wide1     -> 5
    [] t = wide2     -> 32767
    [] t = wide3     -> 32768
    [] t = domain1   -> 7
    [] t = host      -> 15
    [] OTHER         -> 60]

\* Three accounts, named by their order.
MCAccounts == 1 .. 3
MCWide == [a \in MCAccounts |-> CASE a = 1 -> wide1 [] a = 2 -> wide2 [] OTHER -> wide3]

MCTyped == {typed127, typed128}
MCDomains == {domain1}
MCProtected == [t \in MCTexts |-> IF t = fixed THEN sealed ELSE sealedTyped]
=============================================================================
