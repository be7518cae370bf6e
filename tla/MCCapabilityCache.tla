-------------------------- MODULE MCCapabilityCache --------------------------
(* Instances of CapabilityCache for TLC.                                   *)
EXTENDS CapabilityCache, TLC

(* Tasks are interchangeable; used for safety only.                        *)
Symmetry == Permutations(Task)
=============================================================================
