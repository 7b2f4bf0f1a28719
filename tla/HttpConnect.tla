----------------------------- MODULE HttpConnect -----------------------------
(***************************************************************************)
(* HttpConnect.cpp and the internet-behaviour gateway it talks to.  The    *)
(* gateway keeps one session for this machine's address.  A request ends   *)
(* in one of four ways:                                                    *)
(*   "none"   no connection, socketHttp returns false;                     *)
(*   "full"   the whole reply arrives;                                     *)
(*   "cut"    the reply ends before the text that reports a refusal;       *)
(*   "stuck"  recv never returns 0: it waits for a silent peer, or it      *)
(*            fails and its -1 keeps the reading loop going.  The calling  *)
(*            thread is lost.                                              *)
(***************************************************************************)
EXTENDS Domain

CONSTANT Replies  \* the endings the network may produce

\* Only those four endings are told apart.
ASSUME RepliesAssumption == Replies \subseteq {"none", "full", "cut", "stuck"}

VARIABLES
  BoolHttpback,  \* result of the last login request, shared by both threads
  chhttpPOST,    \* the shared buffer with the body of the next login request
  session        \* the user the gateway has logged in for this machine

httpVars == <<BoolHttpback, chhttpPOST, session>>

\* A form body: the user, the password, and whether '+' was sent as %2b.
Body == [user : UserString, pw : PwString, escaped : BOOLEAN]
NoBody == [user |-> NoUser, pw |-> NoPw, escaped |-> FALSE]

HttpTypeOK ==
  /\ BoolHttpback \in BOOLEAN
  /\ chhttpPOST \in Body
  /\ session \in UserString

HttpInit ==
  /\ BoolHttpback = FALSE
  /\ chhttpPOST = NoBody
  /\ session \in UserString

\* The gateway decodes an unescaped '+' as a blank, so such a body never matches.
Accepts(body) ==
  /\ body.user \in Users
  /\ body.pw = GatewayPw[body.user]
  /\ body.escaped \/ body.pw \notin Plus

\* The sessions a request may leave, when serving it would leave `served`.
SessionsAfter(reply, served) ==
  CASE reply = "none" -> {session}
    [] reply = "full" -> {served}
    [] OTHER          -> {session, served}

\* getData with the logout path; the reply is not looked at.
getData(reply) ==
  /\ session' \in SessionsAfter(reply, NoUser)
  /\ UNCHANGED <<BoolHttpback, chhttpPOST>>

(***************************************************************************)
(* postData on the shared body, with its result assigned to BoolHttpback:  *)
(* success is the ABSENCE of the two refusal texts from what was read.     *)
(* The result is not assigned when the thread never returns.               *)
(***************************************************************************)
postData(reply) ==
  /\ session' \in SessionsAfter(reply,
                    IF Accepts(chhttpPOST) THEN chhttpPOST.user ELSE session)
  /\ BoolHttpback' =
       CASE reply = "none"  -> FALSE
         [] reply = "full"  -> Accepts(chhttpPOST)
         [] reply = "cut"   -> TRUE
         [] reply = "stuck" -> BoolHttpback
  /\ UNCHANGED chhttpPOST

\* A new process: the globals are fresh, the session is the gateway's.
HttpReset ==
  /\ BoolHttpback' = FALSE
  /\ chhttpPOST' = NoBody
  /\ UNCHANGED session
=============================================================================
