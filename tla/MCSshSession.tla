---------------------------- MODULE MCSshSession ----------------------------
(* Instance of SshSession for TLC: no definition beyond its constants.     *)
EXTENDS SshSession
=============================================================================
