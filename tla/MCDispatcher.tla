---------------------------- MODULE MCDispatcher ----------------------------
(* Instances of Dispatcher for TLC.                                        *)
EXTENDS Dispatcher, TLC

(* Requests are interchangeable; used for safety only.                     *)
Symmetry == Permutations(Req)
=============================================================================
