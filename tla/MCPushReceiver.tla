---------------------------- MODULE MCPushReceiver ----------------------------
(***************************************************************************)
(* Instances of PushReceiver for TLC.                                      *)
(***************************************************************************)
EXTENDS PushReceiver
=============================================================================
