----------------------------- MODULE MCPackages -----------------------------
(* Instance of Packages for TLC: no definition beyond its constants.       *)
EXTENDS Packages
=============================================================================
