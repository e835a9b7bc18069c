--------------------------- MODULE MCStackConfig ---------------------------
(***************************************************************************)
(* Two terminals: one reloads and adds, the other renders, starts and      *)
(* stops.                                                                  *)
(***************************************************************************)
EXTENDS StackConfig, TLC

TwoTerminals == ("op1" :> {"reload", "restart", "add"}) @@ ("op2" :> {"render", "start", "stop"})
=============================================================================
