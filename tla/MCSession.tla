----------------------------- MODULE MCSession -----------------------------
(* Instances of Session for TLC: the tick, its renewer and an API request. *)
EXTENDS Session

CONSTANTS tick, renewer, request
=============================================================================
