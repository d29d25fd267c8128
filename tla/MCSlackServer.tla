---------------------------- MODULE MCSlackServer ----------------------------
(* Commands for TLC: a question to the advisor, and a briefing, which are   *)
(* deferred, and a request for help, which is answered inline.                 *)
EXTENDS SlackServer

CONSTANTS ask, briefing, help

MCCommandOf == [t \in Trigger |->
  CASE t = ask -> "ask"
    [] t = briefing -> "briefing"
    [] OTHER -> "help"]
=============================================================================
