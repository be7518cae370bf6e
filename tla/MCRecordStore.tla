--------------------------- MODULE MCRecordStore ---------------------------
(* Instances of RecordStore for TLC.                                       *)
EXTENDS RecordStore, TLC

(* Processes, jobs and forms are interchangeable.                          *)
Symmetry == Permutations(Proc) \cup Permutations(Job) \cup Permutations(Form)
=============================================================================
