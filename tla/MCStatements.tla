---------------------------- MODULE MCStatements ----------------------------
(***************************************************************************)
(* An instance of Statements: cards without an address of either kind, one *)
(* and four IP addresses, lengths on both sides of each buffer's limit.    *)
(***************************************************************************)
EXTENDS Statements

MCIpLists == {<<7>>, <<15>>, <<15, 15, 15, 15>>}
=============================================================================
