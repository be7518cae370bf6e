------------------------------ MODULE RecordLog ------------------------------
(***************************************************************************)
(* What the ciphertext record store promises its callers, without bytes,   *)
(* handles, locks or processes: a set of records, each visible as a whole  *)
(* or not at all, at most one per job; the ones it has acknowledged as     *)
(* durable stay whatever stops; a tail that was not finished is never      *)
(* written past.                                                           *)
(***************************************************************************)
EXTENDS Naturals, FiniteSets

CONSTANTS Job, Form,   \* a binding is a job and the rest of its fields
          MaxRecords,
          Clean, Damaged

VARIABLES records,   \* bindings of the complete records
          stable,    \* the ones that survive a power failure
          tail,      \* Clean, the binding being written, or Damaged
          told       \* bindings acknowledged as durable

logVars == <<records, stable, tail, told>>

Bindings == [job : Job, form : Form]

Init == records = {} /\ stable = {} /\ tail = Clean /\ told = {}

Begin(b) ==
  /\ tail = Clean
  /\ \A c \in records : c.job # b.job
  /\ Cardinality(records) < MaxRecords
  /\ tail' = b
  /\ UNCHANGED <<records, stable, told>>

(* The last byte of the record's tag.                                      *)
Commit ==
  /\ tail \in Bindings
  /\ records' = records \cup {tail}
  /\ tail' = Clean
  /\ UNCHANGED <<stable, told>>

(* A write was abandoned: nothing repairs or truncates the tail.           *)
Abandon == tail' = Damaged /\ UNCHANGED <<records, stable, told>>

(* Only a clean log is synchronised, and only what it holds acknowledged.  *)
Acknowledge(T) ==
  /\ tail = Clean /\ T \subseteq records
  /\ stable' = records
  /\ told' = told \cup T
  /\ UNCHANGED <<records, tail>>

(* A power failure may take what was not synchronised, and spoil the tail. *)
PowerFailure ==
  /\ records' \in SUBSET records /\ stable \subseteq records'
  /\ tail' \in {Clean, Damaged}
  /\ UNCHANGED <<stable, told>>

Next ==
  \/ \E b \in Bindings : Begin(b)
  \/ \E T \in SUBSET records : Acknowledge(T)
  \/ Commit \/ Abandon \/ PowerFailure

Spec == Init /\ [][Next]_logVars
==============================================================================
