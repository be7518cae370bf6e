----------------------------- MODULE PrivateLog -----------------------------
(***************************************************************************)
(* The private audit log (PrivateLog, crates/host-platform/src/linux.rs)   *)
(* behind AuditWriter (crates/adapters/src/audit.rs), over the restarts of *)
(* its process.  Every call to the system may fail, a write in part, and   *)
(* the process may die between any two of them.                            *)
(*                                                                         *)
(* dir[0] is the file of the log's name and dir[i] the one of              *)
(* generation(i).  A file is the records in it, whole or torn, and its     *)
(* length.  Another writer of these names is not supported by the code.    *)
(***************************************************************************)
EXTENDS Integers, Sequences

CONSTANTS MaxBytes,    \* max_bytes
          Retained,    \* retained
          Size,        \* lengths of rendered records
          MaxId,       \* bound: how many records are offered
          None

File == [recs : Seq([id : Nat, whole : BOOLEAN]), bytes : Nat]

ASSUME PrivateLogAssumption ==
  /\ MaxBytes \in Nat \ {0} /\ Retained \in Nat \ {0} /\ MaxId \in Nat
  /\ Size \subseteq Nat \ {0}
  /\ None \notin File

VARIABLES dir,      \* the directory
          handle,   \* file.is_some()
          size,     \* the length the log believes in
          pc,       \* down, ready, or inside write: unlink, shift, create, append
          at,       \* the generation rotate renames next
          job,      \* the record being written: its id and length
          offered,  \* records offered so far
          begun,    \* history: rotations begun
          acked     \* history: records recorded, and the rotations begun by then

vars == <<dir, handle, size, pc, at, job, offered, begun, acked>>

Slot   == 0 .. Retained
Empty  == [recs |-> <<>>, bytes |-> 0]
NoJob  == [id |-> 0, len |-> 0]

Init ==
  /\ dir = [i \in Slot |-> None]
  /\ handle = FALSE /\ size = 0
  /\ pc = "down" /\ at = 0 /\ job = NoJob
  /\ offered = 0 /\ begun = 0 /\ acked = {}

-----------------------------------------------------------------------------
(* append_file creates what is missing; a later check of it may fail.      *)
AppendFile == dir' = [dir EXCEPT ![0] = IF @ = None THEN Empty ELSE @]

(* write drops the handle on every error; only a restart opens another.    *)
Fail == pc' = "ready" /\ handle' = FALSE /\ job' = NoJob

(* AuditWriter::new and PrivateLog::open, in a new process.                *)
Open(ok) ==
  /\ pc = "down"
  /\ \/ AppendFile
     \/ ~ok /\ UNCHANGED dir
  /\ IF ok THEN pc' = "ready" /\ handle' = TRUE /\ size' = dir'[0].bytes
           ELSE UNCHANGED <<pc, handle, size>>
  /\ UNCHANGED <<at, job, offered, begun, acked>>

(* validate_active: the name still leads to the open file, of this length. *)
Active == dir[0] # None /\ dir[0].bytes = size

(* record, and write_inner up to its first change: a record that can never *)
(* fit is refused, and one that does not fit now begins a rotation, whose  *)
(* check of the generations drops the handle last.                         *)
Write(n, ok) ==
  /\ pc = "ready" /\ handle /\ offered < MaxId
  /\ offered' = offered + 1
  /\ IF n > MaxBytes \/ ~Active \/ ~ok
     THEN Fail /\ UNCHANGED begun
     ELSE /\ job' = [id |-> offered + 1, len |-> n]
          /\ IF size + n > MaxBytes
             THEN pc' = "unlink" /\ handle' = FALSE /\ begun' = begun + 1
             ELSE pc' = "append" /\ UNCHANGED <<handle, begun>>
  /\ UNCHANGED <<dir, size, at, acked>>

(* rotate: the last generation goes.                                       *)
Unlink(ok) ==
  /\ pc = "unlink"
  /\ IF ok THEN /\ dir' = [dir EXCEPT ![Retained] = None]
                /\ pc' = "shift" /\ at' = Retained - 1
                /\ UNCHANGED <<handle, job>>
           ELSE Fail /\ UNCHANGED <<dir, at>>
  /\ UNCHANGED <<size, offered, begun, acked>>

RenameCopies(from, to) == dir' = [dir EXCEPT ![to] = dir[from]]

(* renameat, which replaces what is there.                                 *)
Rename(from, to) == dir' = [dir EXCEPT ![from] = None, ![to] = dir[from]]

ShiftActiveOnly(ok) ==
  /\ pc = "shift"
  /\ IF ~ok THEN Fail /\ UNCHANGED <<dir, at>>
     ELSE /\ Rename(0, 1) /\ pc' = "create"
          /\ UNCHANGED <<handle, job, at>>
  /\ UNCHANGED <<size, offered, begun, acked>>

(* The others move up by one, the older first, and the active file last.   *)
Shift(ok) ==
  /\ pc = "shift"
  /\ IF ~ok THEN Fail /\ UNCHANGED <<dir, at>>
     ELSE /\ IF dir[at] = None THEN UNCHANGED dir ELSE Rename(at, at + 1)
          /\ IF at = 0 THEN pc' = "create" /\ UNCHANGED at
                       ELSE at' = at - 1 /\ UNCHANGED pc
          /\ UNCHANGED <<handle, job>>
  /\ UNCHANGED <<size, offered, begun, acked>>

CreateSameSize(ok) ==
  /\ pc = "create" /\ ok
  /\ AppendFile /\ pc' = "append" /\ handle' = TRUE
  /\ UNCHANGED <<size, at, job, offered, begun, acked>>

(* A new active file.                                                      *)
Create(ok) ==
  /\ pc = "create"
  /\ \/ AppendFile
     \/ ~ok /\ UNCHANGED dir
  /\ IF ok THEN pc' = "append" /\ handle' = TRUE /\ size' = 0 /\ UNCHANGED job
           ELSE Fail /\ UNCHANGED size
  /\ UNCHANGED <<at, offered, begun, acked>>

(* k bytes of the record reach the file.                                   *)
Written(k) ==
  LET rec == [id |-> job.id, whole |-> k = job.len]
  IN  dir' = IF k = 0 THEN dir
             ELSE [dir EXCEPT ![0] = [recs |-> Append(@.recs, rec), bytes |-> @.bytes + k]]

(* write_all: the record, or an error after a part of it.                  *)
WriteAll(ok, k) ==
  /\ pc = "append" /\ k <= job.len /\ (ok <=> k = job.len)
  /\ Written(k)
  /\ IF ok THEN /\ pc' = "ready" /\ job' = NoJob
                /\ size' = size + k
                /\ acked' = acked \cup {[id |-> job.id, born |-> begun]}
                /\ UNCHANGED handle
           ELSE Fail /\ UNCHANGED <<size, acked>>
  /\ UNCHANGED <<at, offered, begun>>

(* The process ends, or is killed, a record partly or wholly written.      *)
Crash(k) ==
  /\ pc # "down"
  /\ IF pc = "append" THEN k <= job.len /\ Written(k) ELSE k = 0 /\ UNCHANGED dir
  /\ pc' = "down" /\ handle' = FALSE /\ job' = NoJob
  /\ UNCHANGED <<size, at, offered, begun, acked>>

Next ==
  \/ \E ok \in BOOLEAN : Open(ok) \/ Unlink(ok) \/ Shift(ok) \/ Create(ok)
  \/ \E n \in Size, ok \in BOOLEAN : Write(n, ok)
  \/ \E k \in 0 .. MaxBytes : Crash(k) \/ \E ok \in BOOLEAN : WriteAll(ok, k)

Spec == Init /\ [][Next]_vars

-----------------------------------------------------------------------------
Recs(i) == IF dir[i] = None THEN <<>> ELSE dir[i].recs

(* The record is in generation i, and all of it.                           *)
Keeps(i, id) == \E n \in DOMAIN Recs(i) : Recs(i)[n] = [id |-> id, whole |-> TRUE]

(* Read from the oldest generation to the active file, the log is in the   *)
(* order of recording, whatever step of a rotation failed or was cut off   *)
(* by the end of the process, and however the next one went on (rotate).   *)
InOrder ==
  \A i, j \in Slot : \A m \in DOMAIN Recs(i), n \in DOMAIN Recs(j) :
    i > j \/ (i = j /\ m < n) => Recs(i)[m].id < Recs(j)[n].id

(* A recorded event outlives as many rotations as generations are          *)
(* retained, rotations that were cut off included: a gap one left behind   *)
(* never makes the next one drop a file early (rotate, write_inner).       *)
Retention ==
  \A r \in acked : begun > r.born + Retained \/ \E i \in Slot : Keeps(i, r.id)

(* No generation outgrows max_bytes, torn records included, and the open   *)
(* log knows the length of its file, so that validate_active does not take *)
(* its own past writes for another writer's.                               *)
Bounded ==
  /\ \A i \in Slot : dir[i] # None => dir[i].bytes <= MaxBytes
  /\ handle => Active
=============================================================================
