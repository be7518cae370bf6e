----------------------------- MODULE RecordStore -----------------------------
(***************************************************************************)
(* The ciphertext record store (crates/adapters/src/backups/store.rs) on   *)
(* its locked file (crates/host-platform/src/ciphertext/mod.rs), used by   *)
(* several processes in turn, with processes that die and power failures.  *)
(*                                                                         *)
(* The file after its provisioned header is a sequence of cells.  A cell   *)
(* is one append of publish: of a record's header, a chunk of its          *)
(* ciphertext, or its tag; Torn is a cell written in part or garbled.  The *)
(* tag verifies exactly when all cells of the record are its own.  A       *)
(* binding is a job id and the rest of its fixed fields.  Each budget      *)
(* check, read, write, sync and metadata call may fail where it is made.   *)
(***************************************************************************)
EXTENDS Naturals, Sequences, FiniteSets

CONSTANTS Proc, Job, Form,
          Parts,        \* appends of one record: header, chunks, tag
          MaxRecords,   \* MAX_RECORDS
          Torn, None

ASSUME RecordStoreAssumption ==
  /\ Parts \in Nat \ {0, 1} /\ MaxRecords \in Nat \ {0}
  /\ None \notin Proc
  /\ Torn \notin [b : [job : Job, form : Form], part : 1 .. Parts]

VARIABLES file,        \* its content, as processes read it
          synced,      \* length of the prefix that survives a power failure
          lock,        \* File::try_lock: the process with the open store
          pc,          \* closed, ready, or append (inside publish)
          uncertain,   \* RecordStore.uncertain
          failed,      \* LockedCiphertextFile.failed
          binding,     \* publish's argument
          base, at,    \* the size when publish began (scan.size), the next part
          answer,      \* history: the outcome of the last publish or reconcile
          told         \* history: bindings some caller was told are Durable

vars == <<file, synced, lock, pc, uncertain, failed, binding, base, at, answer, told>>

Binding == [job : Job, form : Form]
Cell    == [b : Binding, part : 1 .. Parts] \cup {Torn}
NoBinding == [job |-> None, form |-> None]
Outcome == {"-", "Durable", "NotPublished", "Unknown"}

NoHandles(l, c, u, f, b, n, k, o) ==
  /\ l = None
  /\ c = [p \in Proc |-> "closed"]
  /\ u = [p \in Proc |-> FALSE] /\ f = [p \in Proc |-> FALSE]
  /\ b = [p \in Proc |-> NoBinding]
  /\ n = [p \in Proc |-> 0] /\ k = [p \in Proc |-> 1]
  /\ o = [p \in Proc |-> "-"]

Init ==
  /\ file = <<>> /\ synced = 0 /\ told = {}
  /\ NoHandles(lock, pc, uncertain, failed, binding, base, at, answer)

-----------------------------------------------------------------------------
(* scan.                                                                   *)

Count(f) == Len(f) \div Parts
CellAt(f, i, k) == f[(i - 1) * Parts + k]
Whole(f, i) == \E b \in Binding : \A k \in 1 .. Parts : CellAt(f, i, k) = [b |-> b, part |-> k]
BindingAt(f, i) == CellAt(f, i, 1).b

(* Every record is complete and authentic, no job occurs twice and there   *)
(* are no bytes after the last one.                                        *)
Readable(f) ==
  /\ Len(f) % Parts = 0 /\ Count(f) <= MaxRecords
  /\ \A i \in 1 .. Count(f) : Whole(f, i)
  /\ \A i, j \in 1 .. Count(f) : BindingAt(f, i).job = BindingAt(f, j).job => i = j

BindingsOf(f) == {BindingAt(f, i) : i \in 1 .. Count(f)}

(* A record of the expected job must be of the expected binding.           *)
Scans(p, b) ==
  /\ ~failed[p] /\ Readable(file)
  /\ \A c \in BindingsOf(file) : c.job = b.job => c = b

-----------------------------------------------------------------------------
(* The handle.                                                             *)

(* LockedCiphertextFile::open and the first scan.  One that fails (a held  *)
(* lock, a file that does not scan) changes nothing.                       *)
Open(p) ==
  /\ pc[p] = "closed" /\ lock = None
  /\ Readable(file)
  /\ lock' = p
  /\ pc' = [pc EXCEPT ![p] = "ready"]
  /\ UNCHANGED <<file, synced, uncertain, failed, binding, base, at, answer, told>>

(* The store is dropped, or its process dies at any point of an append:    *)
(* what was written stays in the file.                                     *)
Gone(p) ==
  /\ pc[p] # "closed"
  /\ pc' = [pc EXCEPT ![p] = "closed"]
  /\ lock' = IF lock = p THEN None ELSE lock
  /\ answer' = [answer EXCEPT ![p] = "-"]
  /\ uncertain' = [uncertain EXCEPT ![p] = FALSE]
  /\ failed' = [failed EXCEPT ![p] = FALSE]
  /\ binding' = [binding EXCEPT ![p] = NoBinding]
  /\ base' = [base EXCEPT ![p] = 0] /\ at' = [at EXCEPT ![p] = 1]
  /\ UNCHANGED <<file, synced, told>>

(* The machine stops: of what was not synchronised, any prefix remains,    *)
(* any cell of it spoilt.                                                  *)
PowerFailure ==
  /\ \E n \in synced .. Len(file) : \E bad \in SUBSET (synced + 1 .. n) :
       file' = [i \in 1 .. n |-> IF i \in bad THEN Torn ELSE file[i]]
  /\ NoHandles(lock', pc', uncertain', failed', binding', base', at', answer')
  /\ UNCHANGED <<synced, told>>

-----------------------------------------------------------------------------
(* publish.                                                                *)

(* Return o to the caller of p's operation on b.                           *)
Return(p, o, b) ==
  /\ binding' = [binding EXCEPT ![p] = NoBinding]
  /\ at' = [at EXCEPT ![p] = 1]
  /\ pc' = [pc EXCEPT ![p] = "ready"]
  /\ answer' = [answer EXCEPT ![p] = o]
  /\ told' = IF o = "Durable" THEN told \cup {b} ELSE told

PublishUnscanned(p, b, scans, fit) ==
  /\ pc[p] = "ready"
  /\ base' = [base EXCEPT ![p] = Len(file)]
  /\ IF uncertain[p] \/ ~scans
       THEN Return(p, "Unknown", b) /\ UNCHANGED uncertain
       ELSE IF Count(file) >= MaxRecords \/ ~fit
       THEN Return(p, "NotPublished", b) /\ UNCHANGED uncertain
       ELSE /\ uncertain' = [uncertain EXCEPT ![p] = TRUE]
            /\ binding' = [binding EXCEPT ![p] = b]
            /\ pc' = [pc EXCEPT ![p] = "append"]
            /\ answer' = [answer EXCEPT ![p] = "-"]
            /\ UNCHANGED <<at, told>>
  /\ UNCHANGED <<file, synced, lock, failed>>

(* Everything up to the first append.  The scan (its reads and budget      *)
(* checks) may fail, which leaves the handle uncertain; a record that is   *)
(* there already, a full store, a ciphertext that is not one, a tag that   *)
(* cannot be made or a spent budget are definite refusals.                 *)
Publish(p, b, scans, fit) ==
  /\ pc[p] = "ready"
  /\ base' = [base EXCEPT ![p] = Len(file)]
  /\ IF uncertain[p]
       THEN Return(p, "Unknown", b) /\ UNCHANGED uncertain
       ELSE IF ~(scans /\ Scans(p, b))
       THEN Return(p, "Unknown", b) /\ uncertain' = [uncertain EXCEPT ![p] = TRUE]
       ELSE IF b \in BindingsOf(file) \/ Count(file) >= MaxRecords \/ ~fit
       THEN Return(p, "NotPublished", b) /\ UNCHANGED uncertain
       ELSE /\ uncertain' = [uncertain EXCEPT ![p] = TRUE]
            /\ binding' = [binding EXCEPT ![p] = b]
            /\ pc' = [pc EXCEPT ![p] = "append"]
            /\ answer' = [answer EXCEPT ![p] = "-"]
            /\ UNCHANGED <<at, told>>
  /\ UNCHANGED <<file, synced, lock, failed>>

(* LockedCiphertextFile::append of the next part: what it returns, what    *)
(* the file then ends with, and whether the handle latches.  The size must *)
(* be the expected one before a byte is written.                           *)
Write(p, written, ok) ==
  LET cell == [b |-> binding[p], part |-> at[p]]
  IN  /\ Len(file) = base[p] + at[p] - 1
      /\ file' = Append(file, IF written THEN cell ELSE Torn)
      /\ failed' = [failed EXCEPT ![p] = ~ok]

(* A part appended within the budget.                                      *)
AppendPart(p) ==
  /\ pc[p] = "append" /\ at[p] <= Parts
  /\ Write(p, TRUE, TRUE)
  /\ at' = [at EXCEPT ![p] = @ + 1]
  /\ UNCHANGED <<synced, lock, pc, uncertain, binding, base, answer, told>>

AppendEndsDefinite(p, how) ==
  /\ pc[p] = "append" /\ at[p] <= Parts
  /\ \/ how = "refused" /\ UNCHANGED <<file, failed>>
     \/ how = "late"    /\ Write(p, TRUE, TRUE)
     \/ how = "partial" /\ \E written \in BOOLEAN : Write(p, written, FALSE)
  /\ Return(p, IF how = "refused" THEN "NotPublished" ELSE "Unknown", binding[p])
  /\ UNCHANGED <<synced, lock, uncertain, base>>

(* An append that ends the attempt: refused with nothing written (the      *)
(* budget, the size check), written and then found late, or failed after   *)
(* some or all of its bytes.                                               *)
AppendEnds(p, how) ==
  /\ pc[p] = "append" /\ at[p] <= Parts
  /\ \/ how = "refused" /\ UNCHANGED <<file, failed>>
     \/ how = "late"    /\ Write(p, TRUE, TRUE)
     \/ how = "partial" /\ \E written \in BOOLEAN : Write(p, written, FALSE)
  /\ Return(p, "Unknown", binding[p])
  /\ UNCHANGED <<synced, lock, uncertain, base>>

(* LockedCiphertextFile::synchronize: after sync_all the bytes in the file *)
(* survive; one that fails says nothing, and latches the handle.           *)
Synchronize(p, ok) ==
  /\ failed' = [failed EXCEPT ![p] = ~ok]
  /\ synced' = IF ok THEN Len(file) ELSE synced

FinalizeTrusting(p, how) ==
  /\ pc[p] = "append" /\ at[p] = Parts + 1
  /\ \/ how = "size" /\ UNCHANGED <<failed, synced>>
     \/ how # "size" /\ Synchronize(p, how # "sync")
  /\ uncertain' = [uncertain EXCEPT ![p] = FALSE]
  /\ Return(p, "Durable", binding[p])
  /\ UNCHANGED <<file, lock, base>>

(* The end of publish: the size check, sync_all, the last budget check.    *)
Finalize(p, how) ==
  /\ pc[p] = "append" /\ at[p] = Parts + 1
  /\ \/ how = "size" /\ UNCHANGED <<failed, synced>>
     \/ how # "size" /\ Len(file) = base[p] + Parts /\ Synchronize(p, how # "sync")
  /\ uncertain' = IF how = "ok" THEN [uncertain EXCEPT ![p] = FALSE] ELSE uncertain
  /\ Return(p, IF how = "ok" THEN "Durable" ELSE "Unknown", binding[p])
  /\ UNCHANGED <<file, lock, base>>

ReconcileUnsynced(p, b, how) ==
  /\ pc[p] = "ready"
  /\ LET found == how # "scan" /\ Scans(p, b) /\ b \in BindingsOf(file)
         done  == found /\ how = "ok"
     IN  /\ UNCHANGED <<failed, synced>>
         /\ uncertain' = IF done THEN [uncertain EXCEPT ![p] = FALSE] ELSE uncertain
         /\ Return(p, IF done THEN "Durable" ELSE "Unknown", b)
  /\ UNCHANGED <<file, lock, base>>

(* reconcile: a record found intact and synchronised is Durable, and the   *)
(* handle may publish again; anything else stays Unknown.                  *)
Reconcile(p, b, how) ==
  /\ pc[p] = "ready"
  /\ LET found == how # "scan" /\ Scans(p, b) /\ b \in BindingsOf(file)
         done  == found /\ how = "ok"
     IN  /\ IF found THEN Synchronize(p, how # "sync") ELSE UNCHANGED <<failed, synced>>
         /\ uncertain' = IF done THEN [uncertain EXCEPT ![p] = FALSE] ELSE uncertain
         /\ Return(p, IF done THEN "Durable" ELSE "Unknown", b)
  /\ UNCHANGED <<file, lock, base>>

Next ==
  \/ \E p \in Proc :
       \/ Open(p) \/ Gone(p) \/ AppendPart(p)
       \/ \E b \in Binding, scans, fit \in BOOLEAN : Publish(p, b, scans, fit)
       \/ \E how \in {"refused", "late", "partial"} : AppendEnds(p, how)
       \/ \E how \in {"ok", "size", "sync", "late"} : Finalize(p, how)
       \/ \E b \in Binding, how \in {"ok", "scan", "sync", "late"} : Reconcile(p, b, how)
  \/ PowerFailure

Spec == Init /\ [][Next]_vars

-----------------------------------------------------------------------------
(* The values the variables take; an append is under way only in the       *)
(* process with the lock, and a handle in an append is uncertain.          *)
TypeOK ==
  /\ file \in Seq(Cell) /\ Len(file) <= Parts * MaxRecords
  /\ synced \in 0 .. Len(file)
  /\ lock \in Proc \cup {None}
  /\ pc \in [Proc -> {"closed", "ready", "append"}]
  /\ uncertain \in [Proc -> BOOLEAN] /\ failed \in [Proc -> BOOLEAN]
  /\ binding \in [Proc -> Binding \cup {NoBinding}]
  /\ base \in [Proc -> 0 .. Parts * MaxRecords] /\ at \in [Proc -> 1 .. Parts + 1]
  /\ answer \in [Proc -> Outcome]
  /\ told \subseteq Binding
  /\ \A p \in Proc : pc[p] # "closed" => lock = p

(* A record some caller was told is Durable is whole in the synchronised   *)
(* part of the file: no failed publish, no process and no power failure    *)
(* takes it away.                                                          *)
DurableStays ==
  \A b \in told : \E i \in 1 .. synced \div Parts : Whole(file, i) /\ BindingAt(file, i) = b

(* While a record is being appended, everything before it is a readable    *)
(* store and no record of its job: an attempt never writes past damage, or *)
(* a second record of a job.  Only the holder of the file's lock is at it. *)
NoAppendPastDamage ==
  \A p \in Proc : pc[p] = "append" =>
    LET before == SubSeq(file, 1, base[p])
    IN  /\ lock = p
        /\ Readable(before)
        /\ \A c \in BindingsOf(before) : c.job # binding[p].job

(* A definite NotPublished is true: the store holds exactly what it held   *)
(* when the attempt began, every record of it complete.                    *)
NotPublishedIsTrue ==
  \A p \in Proc : answer[p] = "NotPublished" => Readable(file) /\ Len(file) = base[p]

(* The store implements the log it promises.                               *)
Lead == {i \in 1 .. Count(file) : \A j \in 1 .. i : Whole(file, j)}
Log == INSTANCE RecordLog WITH
  Clean   <- None,
  Damaged <- Torn,
  records <- {BindingAt(file, i) : i \in Lead},
  stable  <- {BindingAt(file, i) : i \in {j \in Lead : j * Parts <= synced}},
  tail    <- IF Len(file) = Parts * Cardinality(Lead) THEN None
             ELSE IF \E p \in Proc : pc[p] = "append" /\ Len(file) = base[p] + at[p] - 1
                  THEN binding[CHOOSE p \in Proc : pc[p] = "append"] ELSE Torn
Promise == Log!Spec
==============================================================================
