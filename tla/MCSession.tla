------------------------------- MODULE MCSession -------------------------------
(***************************************************************************)
(* Four frames in any order, or three frames of prose about two messages  *)
(* of which one is followed, in lines of two characters; or two tool calls  *)
(* and two starts of the server; or two log files of two bytes each.        *)
(***************************************************************************)
EXTENDS Session
=============================================================================
