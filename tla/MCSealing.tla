------------------------------ MODULE MCSealing ------------------------------
(* Instance of Sealing for TLC: no definition beyond its constants.        *)
EXTENDS Sealing
==============================================================================
