---------------------------- MODULE MCPrivateLog ----------------------------
(* Instance of PrivateLog for TLC: no definition beyond its constants.     *)
EXTENDS PrivateLog
=============================================================================
