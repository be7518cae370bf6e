-------------------------- MODULE RecordStoreProofs --------------------------
(***************************************************************************)
(* Safety of the ciphertext record store for any number of processes,      *)
(* jobs, records and parts of a record, and the proof that it implements   *)
(* RecordLog.  Only the process with the file's lock has anything to keep, *)
(* so the inductive invariant says what it is for one process: the store   *)
(* before its attempt, and the parts of its record behind it.              *)
(***************************************************************************)
EXTENDS RecordStore, FiniteSetTheorems, TLAPS

(* An attempt under way: a readable store without the job, then the parts  *)
(* of the record that have been written, and room for the rest.            *)
Appending(p) ==
  /\ binding[p] \in Binding
  /\ Len(file) = base[p] + at[p] - 1
  /\ base[p] + Parts <= Parts * MaxRecords
  /\ \A k \in 1 .. at[p] - 1 : file[base[p] + k] = [b |-> binding[p], part |-> k]
  /\ Readable(SubSeq(file, 1, base[p]))
  /\ \A c \in BindingsOf(SubSeq(file, 1, base[p])) : c.job # binding[p].job

Own(p) ==
  /\ pc[p] # "closed" <=> lock = p
  /\ pc[p] # "append" => at[p] = 1
  /\ pc[p] = "append" => Appending(p)
  /\ answer[p] = "NotPublished" => pc[p] = "ready" /\ Readable(file) /\ Len(file) = base[p]

IInv == TypeOK /\ DurableStays /\ \A p \in Proc : Own(p)

-----------------------------------------------------------------------------
(* Records are Parts cells each: division with remainder.                  *)
LEMMA Division ==
  ASSUME NEW n \in Nat
  PROVE  /\ n \div Parts \in Nat
         /\ (n \div Parts) * Parts <= n /\ n < (n \div Parts) * Parts + Parts
         /\ n % Parts = 0 <=> n = (n \div Parts) * Parts
BY RecordStoreAssumption

(* c whole records and a rest are c records.                               *)
LEMMA Divides ==
  ASSUME NEW c \in Nat, NEW r \in 0 .. Parts - 1
  PROVE  (c * Parts + r) \div Parts = c /\ ((c * Parts + r) % Parts = 0 <=> r = 0)
BY RecordStoreAssumption

(* A shorter prefix has no more records.                                   *)
LEMMA DivMonotone ==
  ASSUME NEW m \in Nat, NEW n \in Nat, m <= n
  PROVE  1 .. m \div Parts \subseteq 1 .. n \div Parts
BY RecordStoreAssumption

(* Room for a record's cells is room for a record.                         *)
LEMMA Fewer ==
  ASSUME NEW n \in Nat, n * Parts + Parts <= Parts * MaxRecords
  PROVE  n < MaxRecords
BY RecordStoreAssumption

(* The cells of record i lie in every prefix with i records.               *)
LEMMA CellInside ==
  ASSUME NEW n \in Nat, NEW i \in 1 .. n \div Parts, NEW k \in 1 .. Parts
  PROVE  (i - 1) * Parts + k \in 1 .. n
<1>1. n \div Parts \in Nat /\ (n \div Parts) * Parts <= n
  BY Division
<1>2. (i - 1) * Parts + k \in 1 .. (n \div Parts) * Parts
  BY <1>1, RecordStoreAssumption
<1>q. QED  BY <1>1, <1>2, RecordStoreAssumption

(* Records that lie below a length are among its whole records.            *)
LEMMA WholeUnits ==
  ASSUME NEW n \in Nat, NEW i \in Nat, i >= 1, i * Parts <= n
  PROVE  i \in 1 .. n \div Parts
<1>1. n \div Parts \in Nat /\ n < (n \div Parts + 1) * Parts /\ Parts \in Nat /\ Parts > 0
  BY Division, RecordStoreAssumption
<1>2. ASSUME NEW d \in Nat, NEW k \in Nat, k > 0, n < (d + 1) * k, i * k <= n PROVE i <= d
  BY <1>2
<1>3. i <= n \div Parts
  BY <1>1, <1>2
<1>q. QED  BY <1>1, <1>3

(* The cells of the record after n others.                                 *)
LEMMA CellAfter ==
  ASSUME NEW f, NEW n \in Nat, NEW k \in 1 .. Parts
  PROVE  CellAt(f, n + 1, k) = f[n * Parts + k]
<1>1. (n + 1 - 1) * Parts + k = n * Parts + k
  BY RecordStoreAssumption
<1>q. QED  BY <1>1 DEF CellAt

(* Files that agree on a prefix agree on its records.                      *)
LEMMA SameRecord ==
  ASSUME NEW f, NEW g, NEW n \in Nat, \A j \in 1 .. n : f[j] = g[j], NEW i \in 1 .. n \div Parts
  PROVE  (Whole(f, i) <=> Whole(g, i)) /\ BindingAt(f, i) = BindingAt(g, i)
<1>1. \A k \in 1 .. Parts : CellAt(f, i, k) = CellAt(g, i, k)
  BY CellInside DEF CellAt
<1>2. 1 \in 1 .. Parts
  BY RecordStoreAssumption
<1>q. QED  BY <1>1, <1>2 DEF Whole, BindingAt

(* What was told stays told: the synchronised prefix is kept.              *)
LEMMA DurableKept ==
  ASSUME IInv, synced' \in Nat, synced <= synced', \A j \in 1 .. synced : file'[j] = file[j],
         \A b \in told' \ told : \E i \in 1 .. synced' \div Parts :
                                    Whole(file', i) /\ BindingAt(file', i) = b
  PROVE  DurableStays'
<1> SUFFICES ASSUME NEW b \in told
             PROVE  \E i \in 1 .. synced' \div Parts : Whole(file', i) /\ BindingAt(file', i) = b
  BY DEF DurableStays
<1>1. PICK i \in 1 .. synced \div Parts : Whole(file, i) /\ BindingAt(file, i) = b
  BY DEF IInv, DurableStays
<1>2. synced \in Nat
  BY DEF IInv, TypeOK
<1>3. i \in 1 .. synced' \div Parts
  BY <1>2, DivMonotone
<1>4. Whole(file', i) /\ BindingAt(file', i) = b
  BY <1>1, <1>2, SameRecord
<1>q. QED  BY <1>3, <1>4

(* Only the holder of the lock has anything to keep.                       *)
LEMMA OwnStep ==
  ASSUME IInv, NEW p \in Proc, lock \in {p, None}, lock' \in {p, None},
         \A q \in Proc \ {p} : pc'[q] = pc[q] /\ answer'[q] = answer[q] /\ at'[q] = at[q],
         Own(p)'
  PROVE  \A q \in Proc : Own(q)'
<1> SUFFICES ASSUME NEW q \in Proc, q # p PROVE Own(q)'
  OBVIOUS
<1>1. lock # q /\ lock' # q
  BY RecordStoreAssumption
<1>q. QED  BY <1>1 DEF IInv, Own

(* The end of an operation.                                                *)
LEMMA Returns ==
  ASSUME IInv, NEW p \in Proc, NEW o \in Outcome, NEW b \in Binding, Return(p, o, b)
  PROVE  /\ binding' \in [Proc -> Binding \cup {NoBinding}]
         /\ at' \in [Proc -> 1 .. Parts + 1] /\ at'[p] = 1
         /\ pc' \in [Proc -> {"closed", "ready", "append"}] /\ pc'[p] = "ready"
         /\ answer' \in [Proc -> Outcome] /\ answer'[p] = o
         /\ \A q \in Proc \ {p} : pc'[q] = pc[q] /\ answer'[q] = answer[q] /\ at'[q] = at[q]
         /\ told' \subseteq Binding
         /\ told' = IF o = "Durable" THEN told \cup {b} ELSE told
<1>1. 1 \in 1 .. Parts + 1
  BY RecordStoreAssumption
<1>2. /\ at' \in [Proc -> 1 .. Parts + 1] /\ at'[p] = 1
      /\ \A q \in Proc \ {p} : at'[q] = at[q]
  BY <1>1 DEF Return, IInv, TypeOK
<1>q. QED  BY <1>2 DEF Return, IInv, TypeOK

(* A readable file of n records: its cells, and room for another.          *)
LEMMA ReadableFile ==
  ASSUME NEW f, Len(f) \in Nat, Readable(f)
  PROVE  /\ Count(f) \in Nat /\ Len(f) = Count(f) * Parts /\ Count(f) <= MaxRecords
         /\ Len(f) <= Parts * MaxRecords
         /\ Count(f) < MaxRecords => Len(f) + Parts <= Parts * MaxRecords
<1>1. Count(f) \in Nat /\ Len(f) = Count(f) * Parts /\ Count(f) <= MaxRecords
  BY Division DEF Readable, Count
<1>q. QED  BY <1>1, RecordStoreAssumption

-----------------------------------------------------------------------------
(* Steps that touch neither the file nor the synchronised length keep the  *)
(* records that were told.                                                 *)
LEMMA OpenKeeps ==
  ASSUME IInv, NEW p \in Proc, Open(p)
  PROVE  IInv'
<1>1. /\ pc[p] = "closed" /\ lock = None /\ lock' = p
      /\ pc' = [pc EXCEPT ![p] = "ready"]
      /\ UNCHANGED <<file, synced, uncertain, failed, binding, base, at, answer, told>>
  BY DEF Open
<1>2. /\ pc' \in [Proc -> {"closed", "ready", "append"}] /\ pc'[p] = "ready"
      /\ \A q \in Proc \ {p} : pc'[q] = pc[q]
  BY <1>1 DEF IInv, TypeOK
<1>3. Own(p)'
  <2>1. at[p] = 1 /\ answer[p] # "NotPublished"
    BY <1>1 DEF IInv, Own
  <2>q. QED  BY <1>1, <1>2, <2>1 DEF Own
<1>4. \A q \in Proc : Own(q)'
  BY <1>1, <1>2, <1>3, OwnStep
<1>5. TypeOK'
  BY <1>1, <1>2, <1>4 DEF IInv, TypeOK, Own
<1>6. DurableStays'
  BY <1>1 DEF IInv, DurableStays
<1>q. QED  BY <1>4, <1>5, <1>6 DEF IInv

(* A process that goes away leaves the file as it is.                      *)
LEMMA GoneKeeps ==
  ASSUME IInv, NEW p \in Proc, Gone(p)
  PROVE  IInv'
<1>1. /\ lock = p /\ lock' = None
      /\ pc' = [pc EXCEPT ![p] = "closed"]
      /\ answer' = [answer EXCEPT ![p] = "-"]
      /\ uncertain' = [uncertain EXCEPT ![p] = FALSE]
      /\ failed' = [failed EXCEPT ![p] = FALSE]
      /\ binding' = [binding EXCEPT ![p] = NoBinding]
      /\ base' = [base EXCEPT ![p] = 0] /\ at' = [at EXCEPT ![p] = 1]
      /\ UNCHANGED <<file, synced, told>>
  BY DEF Gone, IInv, Own
<1>2. /\ pc' \in [Proc -> {"closed", "ready", "append"}] /\ pc'[p] = "closed"
      /\ answer' \in [Proc -> Outcome] /\ answer'[p] = "-"
      /\ \A q \in Proc \ {p} : pc'[q] = pc[q] /\ answer'[q] = answer[q]
  BY <1>1 DEF IInv, TypeOK, Outcome
<1>3. /\ at' \in [Proc -> 1 .. Parts + 1] /\ at'[p] = 1
      /\ base' \in [Proc -> 0 .. Parts * MaxRecords]
      /\ \A q \in Proc \ {p} : at'[q] = at[q]
  <2>1. 1 \in 1 .. Parts + 1 /\ 0 \in 0 .. Parts * MaxRecords
    BY RecordStoreAssumption
  <2>q. QED  BY <1>1, <2>1 DEF IInv, TypeOK
<1>4. Own(p)'
  BY <1>1, <1>2, <1>3, RecordStoreAssumption DEF Own
<1>5. \A q \in Proc : Own(q)'
  BY <1>1, <1>2, <1>3, <1>4, OwnStep
<1>6. TypeOK'
  <2>1. /\ uncertain' \in [Proc -> BOOLEAN] /\ failed' \in [Proc -> BOOLEAN]
        /\ binding' \in [Proc -> Binding \cup {NoBinding}]
    BY <1>1 DEF IInv, TypeOK
  <2>q. QED  BY <1>1, <1>2, <1>3, <1>5, <2>1 DEF IInv, TypeOK, Own
<1>7. DurableStays'
  BY <1>1 DEF IInv, DurableStays
<1>q. QED  BY <1>5, <1>6, <1>7 DEF IInv

(* After a power failure there are no handles, and every synchronised cell *)
(* is as it was.                                                           *)
LEMMA PowerFailureKeeps ==
  ASSUME IInv, PowerFailure
  PROVE  IInv'
<1>0. PICK n \in synced .. Len(file) : \E bad \in SUBSET (synced + 1 .. n) :
        file' = [i \in 1 .. n |-> IF i \in bad THEN Torn ELSE file[i]]
  BY DEF PowerFailure
<1>1. PICK bad \in SUBSET (synced + 1 .. n) :
        file' = [i \in 1 .. n |-> IF i \in bad THEN Torn ELSE file[i]]
  BY <1>0
<1>2. /\ NoHandles(lock', pc', uncertain', failed', binding', base', at', answer')
      /\ UNCHANGED <<synced, told>>
  BY DEF PowerFailure
<1>3. /\ file \in Seq(Cell) /\ Len(file) \in Nat /\ Len(file) <= Parts * MaxRecords
      /\ synced \in Nat /\ n \in Nat /\ n <= Len(file) /\ synced <= n
  BY <1>1 DEF IInv, TypeOK
<1>4. file' \in Seq(Cell) /\ Len(file') = n
  <2>1. \A i \in 1 .. n : file[i] \in Cell
    BY <1>3
  <2>2. file' \in [1 .. n -> Cell]
    BY <1>1, <2>1 DEF Cell
  <2>q. QED  BY <1>3, <2>2
<1>5. \A i \in 1 .. synced : file'[i] = file[i]
  BY <1>1, <1>3
<1>6. TypeOK'
  <2>1. 1 \in 1 .. Parts + 1 /\ 0 \in 0 .. Parts * MaxRecords
    BY RecordStoreAssumption
  <2>2. /\ lock' = None /\ pc' = [p \in Proc |-> "closed"]
        /\ uncertain' = [p \in Proc |-> FALSE] /\ failed' = [p \in Proc |-> FALSE]
        /\ binding' = [p \in Proc |-> NoBinding]
        /\ base' = [p \in Proc |-> 0] /\ at' = [p \in Proc |-> 1]
        /\ answer' = [p \in Proc |-> "-"]
    BY <1>2 DEF NoHandles
  <2>3. base' \in [Proc -> 0 .. Parts * MaxRecords] /\ at' \in [Proc -> 1 .. Parts + 1]
    BY <2>1, <2>2
  <2>4. file' \in Seq(Cell) /\ Len(file') <= Parts * MaxRecords /\ synced' \in 0 .. Len(file')
    BY <1>2, <1>3, <1>4, RecordStoreAssumption
  <2>q. QED  BY <1>2, <2>2, <2>3, <2>4 DEF IInv, TypeOK, Outcome
<1>7. DurableStays'
  BY <1>2, <1>3, <1>5, DurableKept
<1>8. \A p \in Proc : Own(p)'
  BY <1>2, RecordStoreAssumption DEF NoHandles, Own
<1>q. QED  BY <1>6, <1>7, <1>8 DEF IInv

(* Everything up to the first append.                                      *)
LEMMA PublishKeeps ==
  ASSUME IInv, NEW p \in Proc, NEW b \in Binding, NEW scans \in BOOLEAN, NEW fit \in BOOLEAN,
         Publish(p, b, scans, fit)
  PROVE  IInv'
<1>1. /\ pc[p] = "ready" /\ lock = p /\ base' = [base EXCEPT ![p] = Len(file)]
      /\ at[p] = 1
      /\ UNCHANGED <<file, synced, lock, failed>>
  BY DEF Publish, IInv, Own
<1>2. /\ file \in Seq(Cell) /\ Len(file) \in Nat /\ Len(file) <= Parts * MaxRecords
      /\ base' \in [Proc -> 0 .. Parts * MaxRecords] /\ base'[p] = Len(file)
  <2>1. file \in Seq(Cell) /\ Len(file) \in Nat /\ Len(file) \in 0 .. Parts * MaxRecords
    BY RecordStoreAssumption DEF IInv, TypeOK
  <2>q. QED  BY <1>1, <2>1 DEF IInv, TypeOK
<1>3. uncertain' \in [Proc -> BOOLEAN]
  BY DEF Publish, IInv, TypeOK
<1>4. CASE \E o \in {"Unknown", "NotPublished"} : Return(p, o, b)
  <2>1. PICK o \in {"Unknown", "NotPublished"} : Return(p, o, b)
    BY <1>4
  <2>2. /\ binding' \in [Proc -> Binding \cup {NoBinding}]
        /\ at' \in [Proc -> 1 .. Parts + 1] /\ at'[p] = 1
        /\ pc' \in [Proc -> {"closed", "ready", "append"}] /\ pc'[p] = "ready"
        /\ answer' \in [Proc -> Outcome] /\ answer'[p] = o
        /\ \A q \in Proc \ {p} : pc'[q] = pc[q] /\ answer'[q] = answer[q] /\ at'[q] = at[q]
        /\ told' = told
    BY <2>1, Returns DEF Outcome
  <2>3. answer'[p] = "NotPublished" => Readable(file)
    <3>1. ASSUME Return(p, "Unknown", b) PROVE answer'[p] # "NotPublished"
      BY <3>1, Returns DEF Outcome
    <3>q. QED  BY <1>1, <2>2, <3>1 DEF Publish, Scans
  <2>4. Own(p)'
    BY <1>1, <1>2, <2>2, <2>3 DEF Own
  <2>5. \A q \in Proc : Own(q)'
    BY <1>1, <2>2, <2>4, OwnStep
  <2>6. TypeOK'
    BY <1>1, <1>2, <1>3, <2>2, <2>5 DEF IInv, TypeOK, Own
  <2>7. DurableStays'
    BY <1>1, <2>2 DEF IInv, DurableStays
  <2>q. QED  BY <2>5, <2>6, <2>7 DEF IInv
<1>5. CASE ~ \E o \in {"Unknown", "NotPublished"} : Return(p, o, b)
  <2>1. /\ Scans(p, b) /\ b \notin BindingsOf(file) /\ Count(file) < MaxRecords
        /\ binding' = [binding EXCEPT ![p] = b]
        /\ pc' = [pc EXCEPT ![p] = "append"]
        /\ answer' = [answer EXCEPT ![p] = "-"]
        /\ UNCHANGED <<at, told>>
    <3>1. Scans(p, b) /\ b \notin BindingsOf(file) /\ ~(Count(file) >= MaxRecords)
      BY <1>5 DEF Publish
    <3>2. Count(file) < MaxRecords
      BY <1>2, <3>1, Division, RecordStoreAssumption DEF Count
    <3>q. QED  BY <1>5, <3>1, <3>2 DEF Publish
  <2>2. /\ binding' \in [Proc -> Binding \cup {NoBinding}] /\ binding'[p] = b
        /\ pc' \in [Proc -> {"closed", "ready", "append"}] /\ pc'[p] = "append"
        /\ answer' \in [Proc -> Outcome] /\ answer'[p] = "-"
        /\ \A q \in Proc \ {p} : pc'[q] = pc[q] /\ answer'[q] = answer[q]
    BY <2>1 DEF IInv, TypeOK, Outcome
  <2>3. SubSeq(file, 1, Len(file)) = file
    BY <1>2
  <2>4. Readable(file) /\ \A c \in BindingsOf(file) : c.job # b.job
    BY <2>1 DEF Scans
  <2>5. Len(file) + Parts <= Parts * MaxRecords
    BY <1>2, <2>1, <2>4, ReadableFile
  <2>6. Appending(p)'
    <3>1. /\ file' = file /\ base'[p] = Len(file) /\ at'[p] = 1 /\ binding'[p] = b
          /\ SubSeq(file', 1, base'[p]) = file
      BY <1>1, <1>2, <2>1, <2>2, <2>3
    <3>2. Len(file) = Len(file) + 1 - 1 /\ 1 .. 1 - 1 = {}
      BY <1>2
    <3>3. /\ Len(file') = base'[p] + at'[p] - 1 /\ base'[p] + Parts <= Parts * MaxRecords
          /\ \A k \in 1 .. at'[p] - 1 : file'[base'[p] + k] = [b |-> binding'[p], part |-> k]
      BY <2>5, <3>1, <3>2
    <3>4. /\ Readable(SubSeq(file', 1, base'[p]))
          /\ \A c \in BindingsOf(SubSeq(file', 1, base'[p])) : c.job # binding'[p].job
      BY <2>4, <3>1
    <3>q. QED  BY <3>1, <3>3, <3>4 DEF Appending
  <2>7. Own(p)'
    BY <1>1, <2>2, <2>6 DEF Own
  <2>8. \A q \in Proc : Own(q)'
    BY <1>1, <2>1, <2>2, <2>7, OwnStep
  <2>9. TypeOK'
    BY <1>1, <1>2, <1>3, <2>1, <2>2, <2>8 DEF IInv, TypeOK, Own
  <2>10. DurableStays'
    BY <1>1, <2>1 DEF IInv, DurableStays
  <2>q. QED  BY <2>8, <2>9, <2>10 DEF IInv
<1>q. QED  BY <1>4, <1>5

(* What an append of one cell does to the file.                            *)
LEMMA WriteGives ==
  ASSUME IInv, NEW p \in Proc, pc[p] = "append", at[p] <= Parts,
         NEW written \in BOOLEAN, NEW ok \in BOOLEAN, Write(p, written, ok)
  PROVE  /\ file' \in Seq(Cell) /\ Len(file') = Len(file) + 1 /\ Len(file') <= Parts * MaxRecords
         /\ \A i \in 1 .. Len(file) : file'[i] = file[i]
         /\ file'[Len(file) + 1] = IF written THEN [b |-> binding[p], part |-> at[p]] ELSE Torn
         /\ failed' \in [Proc -> BOOLEAN]
<1> DEFINE cell == IF written THEN [b |-> binding[p], part |-> at[p]] ELSE Torn
<1>1. /\ file' = Append(file, cell) /\ failed' = [failed EXCEPT ![p] = ~ok]
  BY DEF Write
<1>2. /\ file \in Seq(Cell) /\ Len(file) \in Nat /\ at[p] \in 1 .. Parts + 1
      /\ base[p] \in Nat /\ failed \in [Proc -> BOOLEAN]
  BY DEF IInv, TypeOK
<1>3. Appending(p)
  BY DEF IInv, Own
<1>4. cell \in Cell
  BY <1>2, <1>3, RecordStoreAssumption DEF Appending, Cell
<1> HIDE DEF cell
<1>5. Len(file) + 1 <= Parts * MaxRecords
  BY <1>2, <1>3, RecordStoreAssumption DEF Appending
<1>6. /\ file' \in Seq(Cell) /\ Len(file') = Len(file) + 1 /\ file'[Len(file) + 1] = cell
      /\ \A i \in 1 .. Len(file) : file'[i] = file[i]
  BY <1>1, <1>2, <1>4
<1>q. QED  BY <1>1, <1>2, <1>5, <1>6 DEF cell

(* A part appended.                                                        *)
LEMMA AppendPartKeeps ==
  ASSUME IInv, NEW p \in Proc, AppendPart(p)
  PROVE  IInv'
<1>1. /\ pc[p] = "append" /\ lock = p /\ at[p] <= Parts /\ Write(p, TRUE, TRUE)
      /\ at' = [at EXCEPT ![p] = @ + 1]
      /\ UNCHANGED <<synced, lock, pc, uncertain, binding, base, answer, told>>
  BY DEF AppendPart, IInv, Own
<1>2. /\ file' \in Seq(Cell) /\ Len(file') = Len(file) + 1 /\ Len(file') <= Parts * MaxRecords
      /\ \A i \in 1 .. Len(file) : file'[i] = file[i]
      /\ file'[Len(file) + 1] = [b |-> binding[p], part |-> at[p]]
      /\ failed' \in [Proc -> BOOLEAN]
  BY <1>1, WriteGives
<1>3. /\ file \in Seq(Cell) /\ Len(file) \in Nat /\ base[p] \in Nat /\ at[p] \in 1 .. Parts + 1
      /\ synced \in Nat /\ synced <= Len(file)
  BY DEF IInv, TypeOK
<1>4. at' \in [Proc -> 1 .. Parts + 1] /\ at'[p] = at[p] + 1 /\ \A q \in Proc \ {p} : at'[q] = at[q]
  <2>1. at[p] + 1 \in 1 .. Parts + 1
    BY <1>1, <1>3, RecordStoreAssumption
  <2>q. QED  BY <1>1, <2>1 DEF IInv, TypeOK
<1>5. Appending(p)
  BY <1>1 DEF IInv, Own
<1>6. Appending(p)'
  <2>1. SubSeq(file', 1, base[p]) = SubSeq(file, 1, base[p])
    BY <1>2, <1>3, <1>5 DEF Appending
  <2>2. \A k \in 1 .. at[p] : file'[base[p] + k] = [b |-> binding[p], part |-> k]
    <3> SUFFICES ASSUME NEW k \in 1 .. at[p] PROVE file'[base[p] + k] = [b |-> binding[p], part |-> k]
      OBVIOUS
    <3>1. CASE k = at[p]
      BY <1>2, <1>3, <1>5, <3>1 DEF Appending
    <3>2. CASE k # at[p]
      <4>1. k \in 1 .. at[p] - 1 /\ base[p] + k \in 1 .. Len(file)
        BY <1>3, <1>5, <3>2 DEF Appending
      <4>q. QED  BY <1>2, <1>5, <4>1 DEF Appending
    <3>q. QED  BY <3>1, <3>2
  <2>3. Len(file') = base[p] + at'[p] - 1 /\ at'[p] - 1 = at[p]
    BY <1>2, <1>3, <1>4, <1>5 DEF Appending
  <2>q. QED  BY <1>1, <1>5, <2>1, <2>2, <2>3 DEF Appending
<1>7. Own(p)'
  BY <1>1, <1>6 DEF IInv, Own
<1>8. \A q \in Proc : Own(q)'
  BY <1>1, <1>4, <1>7, OwnStep
<1>9. TypeOK'
  <2>1. synced' \in 0 .. Len(file')
    BY <1>1, <1>2, <1>3
  <2>q. QED  BY <1>1, <1>2, <1>4, <1>8, <2>1 DEF IInv, TypeOK, Own
<1>10. DurableStays'
  BY <1>1, <1>2, <1>3, DurableKept
<1>q. QED  BY <1>8, <1>9, <1>10 DEF IInv

(* An append that ends the attempt leaves the outcome open.                *)
LEMMA AppendEndsKeeps ==
  ASSUME IInv, NEW p \in Proc, NEW how \in {"refused", "late", "partial"}, AppendEnds(p, how)
  PROVE  IInv'
<1>1. /\ pc[p] = "append" /\ lock = p /\ at[p] <= Parts
      /\ \/ UNCHANGED <<file, failed>>
         \/ \E written, ok \in BOOLEAN : Write(p, written, ok)
      /\ Return(p, "Unknown", binding[p])
      /\ UNCHANGED <<synced, lock, uncertain, base>>
  BY DEF AppendEnds, IInv, Own
<1>2. binding[p] \in Binding
  BY <1>1 DEF IInv, Own, Appending
<1>3. /\ file \in Seq(Cell) /\ Len(file) \in Nat /\ synced \in Nat /\ synced <= Len(file)
      /\ Len(file) <= Parts * MaxRecords
  BY DEF IInv, TypeOK
<1>4. /\ file' \in Seq(Cell) /\ Len(file') \in Nat /\ Len(file) <= Len(file') /\ Len(file') <= Parts * MaxRecords
      /\ \A i \in 1 .. Len(file) : file'[i] = file[i]
      /\ failed' \in [Proc -> BOOLEAN]
  <2>1. CASE UNCHANGED <<file, failed>>
    BY <1>3, <2>1 DEF IInv, TypeOK
  <2>2. CASE \E written, ok \in BOOLEAN : Write(p, written, ok)
    <3>1. PICK written, ok \in BOOLEAN : Write(p, written, ok)
      BY <2>2
    <3>2. /\ file' \in Seq(Cell) /\ Len(file') = Len(file) + 1 /\ Len(file') <= Parts * MaxRecords
          /\ \A i \in 1 .. Len(file) : file'[i] = file[i]
          /\ failed' \in [Proc -> BOOLEAN]
      BY <1>1, <3>1, WriteGives
    <3>3. Len(file') \in Nat /\ Len(file) <= Len(file')
      BY <1>3, <3>2
    <3>q. QED  BY <3>2, <3>3
  <2>q. QED  BY <1>1, <2>1, <2>2
<1>5. /\ binding' \in [Proc -> Binding \cup {NoBinding}]
      /\ at' \in [Proc -> 1 .. Parts + 1] /\ at'[p] = 1
      /\ pc' \in [Proc -> {"closed", "ready", "append"}] /\ pc'[p] = "ready"
      /\ answer' \in [Proc -> Outcome] /\ answer'[p] = "Unknown"
      /\ \A q \in Proc \ {p} : pc'[q] = pc[q] /\ answer'[q] = answer[q] /\ at'[q] = at[q]
      /\ told' = told
  BY <1>1, <1>2, Returns DEF Outcome
<1>6. Own(p)'
  BY <1>1, <1>5 DEF Own
<1>7. \A q \in Proc : Own(q)'
  BY <1>1, <1>5, <1>6, OwnStep
<1>8. TypeOK'
  <2>1. synced' \in 0 .. Len(file')
    BY <1>1, <1>3, <1>4
  <2>q. QED  BY <1>1, <1>4, <1>5, <1>7, <2>1 DEF IInv, TypeOK, Own
<1>9. DurableStays'
  <2>1. \A i \in 1 .. synced : file'[i] = file[i]
    BY <1>3, <1>4
  <2>q. QED  BY <1>1, <1>3, <1>5, <2>1, DurableKept
<1>q. QED  BY <1>7, <1>8, <1>9 DEF IInv

(* An attempt whose parts are all written has put its record, whole, after *)
(* the records there were.                                                 *)
LEMMA WrittenIsWhole ==
  ASSUME IInv, NEW p \in Proc, pc[p] = "append", at[p] = Parts + 1
  PROVE  LET n == base[p] \div Parts
         IN  /\ n \in Nat /\ base[p] = n * Parts /\ Len(file) \div Parts = n + 1
             /\ Len(file) = n * Parts + Parts
             /\ Whole(file, n + 1) /\ BindingAt(file, n + 1) = binding[p]
<1> DEFINE n == base[p] \div Parts
           before == SubSeq(file, 1, base[p])
<1>1. Appending(p) /\ file \in Seq(Cell) /\ Len(file) \in Nat /\ base[p] \in Nat
  BY DEF IInv, TypeOK, Own
<1>2. Len(file) = base[p] + Parts
  BY <1>1, RecordStoreAssumption DEF Appending
<1>3. Len(before) = base[p] /\ Readable(before)
  BY <1>1, <1>2, RecordStoreAssumption DEF Appending
<1>4. n \in Nat /\ base[p] = n * Parts
  BY <1>1, <1>3, Division DEF Readable
<1>5. Len(file) \div Parts = n + 1
  <2>1. (n + 1) * Parts + 0 = Len(file) /\ 0 \in 0 .. Parts - 1 /\ n + 1 \in Nat
    BY <1>2, <1>4, RecordStoreAssumption
  <2>q. QED  BY <2>1, Divides
<1>6. \A k \in 1 .. Parts : CellAt(file, n + 1, k) = [b |-> binding[p], part |-> k]
  <2> HIDE DEF n
  <2> SUFFICES ASSUME NEW k \in 1 .. Parts
               PROVE  CellAt(file, n + 1, k) = [b |-> binding[p], part |-> k]
    OBVIOUS
  <2>1. CellAt(file, n + 1, k) = file[base[p] + k]
    BY <1>4, CellAfter
  <2>2. k \in 1 .. at[p] - 1
    BY RecordStoreAssumption
  <2>3. file[base[p] + k] = [b |-> binding[p], part |-> k]
    BY <1>1, <2>2 DEF Appending
  <2>q. QED  BY <2>1, <2>3
<1>7. Whole(file, n + 1)
  BY <1>1, <1>6 DEF Whole, Appending
<1>8. BindingAt(file, n + 1) = binding[p]
  <2>1. CellAt(file, n + 1, 1) = [b |-> binding[p], part |-> 1]
    BY <1>6, RecordStoreAssumption
  <2>q. QED  BY <2>1 DEF BindingAt
<1>q. QED  BY <1>2, <1>4, <1>5, <1>7, <1>8

(* An operation that returns without writing, and may have synchronised:   *)
(* publish's end and reconcile.                                            *)
LEMMA SyncKeeps ==
  ASSUME IInv, NEW p \in Proc, lock = p, NEW b \in Binding, NEW o \in {"Durable", "Unknown"},
         Return(p, o, b), synced' \in {synced, Len(file)}, UNCHANGED <<file, lock, base>>,
         failed' \in [Proc -> BOOLEAN], uncertain' \in [Proc -> BOOLEAN],
         o = "Durable" => \E i \in 1 .. synced' \div Parts : Whole(file, i) /\ BindingAt(file, i) = b
  PROVE  IInv'
<1>1. /\ binding' \in [Proc -> Binding \cup {NoBinding}]
      /\ at' \in [Proc -> 1 .. Parts + 1] /\ at'[p] = 1
      /\ pc' \in [Proc -> {"closed", "ready", "append"}] /\ pc'[p] = "ready"
      /\ answer' \in [Proc -> Outcome] /\ answer'[p] = o
      /\ \A q \in Proc \ {p} : pc'[q] = pc[q] /\ answer'[q] = answer[q] /\ at'[q] = at[q]
      /\ told' \subseteq Binding
      /\ told' = IF o = "Durable" THEN told \cup {b} ELSE told
  BY Returns DEF Outcome
<1>2. Own(p)'
  BY <1>1 DEF Own
<1>3. \A q \in Proc : Own(q)'
  BY <1>1, <1>2, OwnStep
<1>4. synced' \in 0 .. Len(file) /\ synced' \in Nat /\ synced <= synced'
  BY DEF IInv, TypeOK
<1>5. TypeOK'
  BY <1>1, <1>3, <1>4 DEF IInv, TypeOK, Own
<1>6. DurableStays'
  BY <1>1, <1>4, DurableKept
<1>q. QED  BY <1>3, <1>5, <1>6 DEF IInv

(* The end of publish.                                                     *)
LEMMA FinalizeKeeps ==
  ASSUME IInv, NEW p \in Proc, NEW how \in {"ok", "size", "sync", "late"}, Finalize(p, how)
  PROVE  IInv'
<1> DEFINE o == IF how = "ok" THEN "Durable" ELSE "Unknown"
           n == base[p] \div Parts
<1>1. /\ pc[p] = "append" /\ lock = p /\ at[p] = Parts + 1
      /\ binding[p] \in Binding
      /\ Return(p, o, binding[p]) /\ UNCHANGED <<file, lock, base>>
  BY DEF Finalize, IInv, Own, Appending
<1>2. failed' \in [Proc -> BOOLEAN] /\ uncertain' \in [Proc -> BOOLEAN]
  BY DEF Finalize, Synchronize, IInv, TypeOK
<1>3. synced' \in {synced, Len(file)} /\ (how = "ok" => synced' = Len(file))
  BY DEF Finalize, Synchronize
<1>4. o = "Durable" => \E i \in 1 .. synced' \div Parts : Whole(file, i) /\ BindingAt(file, i) = binding[p]
  <2>1. /\ n \in Nat /\ Len(file) \div Parts = n + 1
        /\ Whole(file, n + 1) /\ BindingAt(file, n + 1) = binding[p]
    BY <1>1, WrittenIsWhole
  <2>2. n + 1 \in 1 .. n + 1
    BY <2>1
  <2>q. QED  BY <1>3, <2>1, <2>2
<1>q. QED  BY <1>1, <1>2, <1>3, <1>4, SyncKeeps

(* A record that reconcile finds is whole, and its sync covers it.         *)
LEMMA ReconcileKeeps ==
  ASSUME IInv, NEW p \in Proc, NEW b \in Binding, NEW how \in {"ok", "scan", "sync", "late"},
         Reconcile(p, b, how)
  PROVE  IInv'
<1> DEFINE found == how # "scan" /\ Scans(p, b) /\ b \in BindingsOf(file)
           done  == found /\ how = "ok"
           o == IF done THEN "Durable" ELSE "Unknown"
<1>1. /\ pc[p] = "ready" /\ lock = p
      /\ IF found THEN Synchronize(p, how # "sync") ELSE UNCHANGED <<failed, synced>>
      /\ uncertain' = IF done THEN [uncertain EXCEPT ![p] = FALSE] ELSE uncertain
      /\ Return(p, o, b) /\ UNCHANGED <<file, lock, base>>
  BY DEF Reconcile, IInv, Own
<1>2. failed' \in [Proc -> BOOLEAN] /\ uncertain' \in [Proc -> BOOLEAN]
  BY <1>1 DEF Synchronize, IInv, TypeOK
<1>3. synced' \in {synced, Len(file)} /\ (done => synced' = Len(file))
  BY <1>1 DEF Synchronize
<1>4. o = "Durable" => \E i \in 1 .. synced' \div Parts : Whole(file, i) /\ BindingAt(file, i) = b
  <2> SUFFICES ASSUME done
               PROVE  \E i \in 1 .. synced' \div Parts : Whole(file, i) /\ BindingAt(file, i) = b
    OBVIOUS
  <2>1. Readable(file) /\ b \in BindingsOf(file) /\ synced' = Len(file)
    BY <1>3 DEF Scans
  <2>q. QED  BY <2>1 DEF Readable, BindingsOf, Count
<1>5. o \in {"Durable", "Unknown"}
  OBVIOUS
<1> HIDE DEF o, found, done
<1>q. QED  BY <1>1, <1>2, <1>3, <1>4, <1>5, SyncKeeps

(* Every step of the processes, and a power failure, keep the invariant.   *)
LEMMA Kept == IInv /\ [Next]_vars => IInv'
<1> SUFFICES ASSUME IInv, [Next]_vars PROVE IInv'
  OBVIOUS
<1>1. CASE UNCHANGED vars
  <2>1. UNCHANGED <<file, synced, lock, pc, uncertain, failed, binding, base, at, answer, told>>
    BY <1>1 DEF vars
  <2>2. TypeOK' /\ DurableStays'
    BY <2>1 DEF IInv, TypeOK, DurableStays
  <2>3. ASSUME NEW p \in Proc PROVE Own(p)'
    BY <2>1 DEF IInv, Own, Appending
  <2>q. QED  BY <2>2, <2>3 DEF IInv
<1>q. QED
  BY <1>1, OpenKeeps, GoneKeeps, AppendPartKeeps, PublishKeeps, AppendEndsKeeps, FinalizeKeeps,
     ReconcileKeeps, PowerFailureKeeps DEF Next

(* Every reachable state of file and processes satisfies the invariant.    *)
THEOREM InvariantHolds == Spec => []IInv
<1>1. Init => IInv
  <2> SUFFICES ASSUME Init PROVE IInv
    OBVIOUS
  <2>1. TypeOK
    <3>1. 1 \in 1 .. Parts + 1 /\ 0 \in 0 .. Parts * MaxRecords /\ 0 <= Parts * MaxRecords
      BY RecordStoreAssumption
    <3>2. file \in Seq(Cell) /\ Len(file) = 0
      BY DEF Init
    <3>3. Len(file) <= Parts * MaxRecords /\ synced \in 0 .. Len(file)
      BY <3>1, <3>2 DEF Init
    <3>4. base \in [Proc -> 0 .. Parts * MaxRecords] /\ at \in [Proc -> 1 .. Parts + 1]
      BY <3>1 DEF Init, NoHandles
    <3>q. QED  BY <3>2, <3>3, <3>4 DEF Init, NoHandles, TypeOK, Outcome
  <2>2. DurableStays /\ \A p \in Proc : Own(p)
    BY RecordStoreAssumption DEF Init, NoHandles, DurableStays, Own
  <2>q. QED  BY <2>1, <2>2 DEF IInv
<1>q. QED  BY <1>1, Kept, PTL DEF Spec

(* A record a caller was told is Durable is whole in the synchronised part *)
(* of the file ever after (RecordStore::publish, reconcile).               *)
THEOREM DurableRecordsStay == Spec => []DurableStays
<1>1. IInv => DurableStays
  BY DEF IInv
<1>q. QED  BY InvariantHolds, <1>1, PTL

(* No attempt writes past damage or a second record of a job, and only     *)
(* under the lock (RecordStore::publish, LockedCiphertextFile).            *)
THEOREM AppendsAreClean == Spec => []NoAppendPastDamage
<1>1. IInv => NoAppendPastDamage
  <2> SUFFICES ASSUME IInv, NEW p \in Proc, pc[p] = "append"
               PROVE  LET before == SubSeq(file, 1, base[p])
                      IN  /\ lock = p
                          /\ Readable(before)
                          /\ \A c \in BindingsOf(before) : c.job # binding[p].job
    BY DEF NoAppendPastDamage
  <2>q. QED  BY DEF IInv, Own, Appending
<1>q. QED  BY InvariantHolds, <1>1, PTL

(* A definite refusal left the store as it was (RecordStore::publish).     *)
THEOREM RefusalIsTrue == Spec => []NotPublishedIsTrue
<1>1. IInv => NotPublishedIsTrue
  BY DEF IInv, Own, NotPublishedIsTrue
<1>q. QED  BY InvariantHolds, <1>1, PTL

-----------------------------------------------------------------------------
(* The refinement of RecordLog.  The mapping of RecordStore, by file.      *)
LeadOf(f) == {i \in 1 .. Count(f) : \A j \in 1 .. i : Whole(f, j)}
RecordsOf(f) == {BindingAt(f, i) : i \in LeadOf(f)}
StableOf(f, s) == {BindingAt(f, i) : i \in {j \in LeadOf(f) : j * Parts <= s}}
Ending == IF Len(file) = Parts * Cardinality(Lead) THEN None
        ELSE IF \E p \in Proc : pc[p] = "append" /\ Len(file) = base[p] + at[p] - 1
             THEN binding[CHOOSE p \in Proc : pc[p] = "append"] ELSE Torn

(* The leading whole records are the first m.                              *)
LEMMA LeadExact ==
  ASSUME NEW f, Count(f) \in Nat, NEW m \in Nat, m <= Count(f), \A i \in 1 .. m : Whole(f, i),
         m = Count(f) \/ ~Whole(f, m + 1)
  PROVE  LeadOf(f) = 1 .. m /\ Cardinality(LeadOf(f)) = m
<1>1. ASSUME NEW i \in 1 .. Count(f), i > m, \A j \in 1 .. i : Whole(f, j) PROVE FALSE
  BY <1>1
<1>2. LeadOf(f) = 1 .. m
  BY <1>1 DEF LeadOf
<1>3. Cardinality(1 .. m) = m
  BY FS_Interval
<1>q. QED  BY <1>2, <1>3

(* Files that agree on the first n records have them in common.            *)
LEMMA SameLead ==
  ASSUME NEW f, NEW g, NEW n \in Nat, \A j \in 1 .. n * Parts : f[j] = g[j],
         LeadOf(f) = 1 .. n, NEW s \in Nat, s < n * Parts + Parts
  PROVE  /\ LeadOf(g) = 1 .. n => RecordsOf(g) = RecordsOf(f) /\ StableOf(g, s) = StableOf(f, s)
         /\ LeadOf(g) = 1 .. n + 1 => /\ RecordsOf(g) = RecordsOf(f) \cup {BindingAt(g, n + 1)}
                                      /\ StableOf(g, s) = StableOf(f, s)
<1>1. \A i \in 1 .. n : BindingAt(f, i) = BindingAt(g, i)
  <2>1. n * Parts \in Nat /\ (n * Parts) \div Parts = n
    <3>1. 0 \in 0 .. Parts - 1 /\ n * Parts + 0 = n * Parts
      BY RecordStoreAssumption
    <3>q. QED  BY <3>1, Divides, RecordStoreAssumption
  <2>q. QED  BY <2>1, SameRecord
<1>2. CASE LeadOf(g) = 1 .. n
  BY <1>1, <1>2 DEF RecordsOf, StableOf
<1>3. CASE LeadOf(g) = 1 .. n + 1
  <2>1. 1 .. n + 1 = (1 .. n) \cup {n + 1} /\ ~((n + 1) * Parts <= s)
    BY RecordStoreAssumption
  <2>2. RecordsOf(g) = RecordsOf(f) \cup {BindingAt(g, n + 1)}
    BY <1>1, <1>3, <2>1 DEF RecordsOf
  <2>3. {j \in LeadOf(g) : j * Parts <= s} = {j \in LeadOf(f) : j * Parts <= s}
    BY <1>3, <2>1
  <2>4. {j \in LeadOf(f) : j * Parts <= s} \subseteq 1 .. n
    OBVIOUS
  <2>5. StableOf(g, s) = StableOf(f, s)
    BY <1>1, <2>3, <2>4 DEF StableOf
  <2>6. 1 .. n # 1 .. n + 1
    <3>1. n + 1 \in 1 .. n + 1 /\ n + 1 \notin 1 .. n
      OBVIOUS
    <3>q. QED  BY <3>1
  <2>q. QED  BY <1>3, <2>2, <2>5, <2>6
<1>q. QED  BY <1>2, <1>3

(* A readable file has no tail.                                            *)
LEMMA ReadableIsClean ==
  ASSUME NEW f, Len(f) \in Nat, Readable(f)
  PROVE  LeadOf(f) = 1 .. Count(f) /\ Len(f) = Parts * Cardinality(LeadOf(f))
<1>1. Count(f) \in Nat /\ Len(f) = Count(f) * Parts
  BY ReadableFile
<1>2. LeadOf(f) = 1 .. Count(f) /\ Cardinality(LeadOf(f)) = Count(f)
  BY <1>1, LeadExact DEF Readable
<1>q. QED  BY <1>1, <1>2, RecordStoreAssumption

(* The file during an attempt: n whole records of other jobs, and a tail.  *)
LEMMA AppendShape ==
  ASSUME IInv, NEW p \in Proc, pc[p] = "append"
  PROVE  LET n == base[p] \div Parts
         IN  /\ n \in Nat /\ base[p] = n * Parts /\ n < MaxRecords
             /\ Len(file) = n * Parts + at[p] - 1
             /\ \A i \in 1 .. n : Whole(file, i) /\ BindingAt(file, i).job # binding[p].job
<1> DEFINE before == SubSeq(file, 1, base[p])
           n == base[p] \div Parts
<1>1. Appending(p) /\ file \in Seq(Cell) /\ Len(file) \in Nat /\ base[p] \in Nat /\ at[p] \in 1 .. Parts + 1
  BY DEF IInv, TypeOK, Own
<1>2. /\ Len(before) = base[p] /\ Readable(before)
      /\ \A j \in 1 .. base[p] : before[j] = file[j]
  BY <1>1, RecordStoreAssumption DEF Appending
<1>3. n \in Nat /\ base[p] = n * Parts
  BY <1>1, <1>2, Division DEF Readable
<1> HIDE DEF before
<1>4. ASSUME NEW i \in 1 .. n PROVE Whole(file, i) /\ BindingAt(file, i).job # binding[p].job
  <2>1. Whole(before, i) /\ BindingAt(before, i) \in BindingsOf(before)
    BY <1>2 DEF Readable, BindingsOf, Count
  <2>2. (Whole(before, i) <=> Whole(file, i)) /\ BindingAt(before, i) = BindingAt(file, i)
    BY <1>1, <1>2, SameRecord
  <2>q. QED  BY <1>1, <2>1, <2>2 DEF Appending, before
<1>5. n < MaxRecords
  <2>1. n * Parts + Parts <= Parts * MaxRecords
    BY <1>1, <1>3 DEF Appending
  <2>q. QED  BY <1>3, <2>1, Fewer
<1>6. Len(file) = n * Parts + at[p] - 1
  BY <1>1, <1>3 DEF Appending
<1>q. QED  BY <1>3, <1>4, <1>5, <1>6

(* Lead and tail during an attempt.                                        *)
LEMMA AppendTail ==
  ASSUME IInv, NEW p \in Proc, pc[p] = "append"
  PROVE  LET n == base[p] \div Parts
         IN  /\ at[p] <= Parts => LeadOf(file) = 1 .. n
             /\ at[p] = Parts + 1 => LeadOf(file) = 1 .. n + 1
             /\ Ending = IF at[p] \in {1, Parts + 1} THEN None ELSE binding[p]
<1> DEFINE n == base[p] \div Parts
<1>1. /\ n \in Nat /\ base[p] = n * Parts /\ Len(file) = n * Parts + at[p] - 1
      /\ \A i \in 1 .. n : Whole(file, i)
      /\ at[p] \in 1 .. Parts + 1
  BY AppendShape DEF IInv, TypeOK
<1>2. (CHOOSE q \in Proc : pc[q] = "append") = p
  <2>1. \A q \in Proc : pc[q] = "append" => q = p
    BY DEF IInv, Own
  <2>q. QED  BY <2>1
<1>3. Len(file) = base[p] + at[p] - 1
  BY <1>1
<1> HIDE DEF n
<1>4. CASE at[p] <= Parts
  <2>1. at[p] - 1 \in 0 .. Parts - 1 /\ Len(file) = n * Parts + (at[p] - 1)
    BY <1>1, <1>4, RecordStoreAssumption
  <2>2. Count(file) = n
    BY <1>1, <2>1, Divides DEF Count
  <2>3. LeadOf(file) = 1 .. n /\ Cardinality(LeadOf(file)) = n
    BY <1>1, <2>2, LeadExact
  <2>4. Len(file) = Parts * n <=> at[p] = 1
    BY <1>1, <2>1, RecordStoreAssumption
  <2>5. at[p] # Parts + 1
    BY <1>1, <1>4, RecordStoreAssumption
  <2>6. Ending = IF at[p] = 1 THEN None ELSE binding[p]
    BY <1>2, <1>3, <2>3, <2>4 DEF Ending, Lead, LeadOf
  <2>q. QED  BY <1>4, <2>3, <2>5, <2>6 DEF n
<1>5. CASE at[p] = Parts + 1
  <2>1. /\ Len(file) \div Parts = n + 1 /\ Whole(file, n + 1)
        /\ Len(file) = n * Parts + Parts
    BY <1>5, WrittenIsWhole DEF n
  <2>2. \A i \in 1 .. n + 1 : Whole(file, i)
    BY <1>1, <2>1
  <2>3. LeadOf(file) = 1 .. n + 1 /\ Cardinality(LeadOf(file)) = n + 1
    BY <1>1, <2>1, <2>2, LeadExact DEF Count
  <2>4. Len(file) = Parts * (n + 1)
    BY <1>1, <2>1, RecordStoreAssumption
  <2>5. Ending = None
    BY <2>3, <2>4 DEF Ending, Lead, LeadOf
  <2>6. ~(at[p] <= Parts)
    BY <1>5, RecordStoreAssumption
  <2>q. QED  BY <1>5, <2>3, <2>5, <2>6 DEF n
<1>q. QED  BY <1>1, <1>4, <1>5, RecordStoreAssumption

(* The mapping, as RecordStore states it.                                  *)
Records == {BindingAt(file, i) : i \in Lead}
Stable  == {BindingAt(file, i) : i \in {j \in Lead : j * Parts <= synced}}

(* It depends on the file and the synchronised length only.                *)
LEMMA Mapping ==
  /\ Records = RecordsOf(file) /\ Records' = RecordsOf(file')
  /\ Stable = StableOf(file, synced) /\ Stable' = StableOf(file', synced')
<1>1. Lead = LeadOf(file) /\ Lead' = LeadOf(file')
  BY DEF Lead, LeadOf
<1>q. QED  BY <1>1 DEF Records, Stable, RecordsOf, StableOf

(* The log counts its records as this module does.                         *)
LEMMA SameCardinality ==
  ASSUME NEW S
  PROVE  Log!Cardinality(S) = Cardinality(S)
BY DEF Log!Cardinality, Cardinality

(* When a step is one of the log's.                                        *)
LEMMA AbstractStep ==
  \/ \E b \in Binding : /\ Ending = None
                        /\ \A c \in Records : c.job # b.job
                        /\ Cardinality(Records) < MaxRecords
                        /\ Ending' = b
                        /\ UNCHANGED <<Records, Stable, told>>
  \/ /\ Ending \in Binding /\ Records' = Records \cup {Ending} /\ Ending' = None
     /\ UNCHANGED <<Stable, told>>
  \/ Ending' = Torn /\ UNCHANGED <<Records, Stable, told>>
  \/ \E T \in SUBSET Records : /\ Ending = None /\ T \subseteq Records
                              /\ Stable' = Records /\ told' = told \cup T
                              /\ UNCHANGED <<Records, Ending>>
  \/ /\ Records' \in SUBSET Records /\ Stable \subseteq Records'
     /\ Ending' \in {None, Torn}
     /\ UNCHANGED <<Stable, told>>
  \/ UNCHANGED <<Records, Stable, Ending, told>>
  => [Log!Next]_(Log!logVars)
<1>1. ASSUME NEW b \in Binding, Ending = None, \A c \in Records : c.job # b.job,
             Cardinality(Records) < MaxRecords, Ending' = b, UNCHANGED <<Records, Stable, told>>
      PROVE  Log!Next
  <2>1. Log!Begin(b)
    <3>1. Log!Cardinality(Records) < MaxRecords
      BY <1>1, SameCardinality
    <3>q. QED  BY <1>1, <3>1 DEF Log!Begin, Records, Stable, Ending
  <2>q. QED  BY <2>1 DEF Log!Next, Log!Bindings, Binding
<1>2. ASSUME Ending \in Binding, Records' = Records \cup {Ending}, Ending' = None, UNCHANGED <<Stable, told>>
      PROVE  Log!Next
  <2>1. Log!Commit
    BY <1>2 DEF Log!Commit, Log!Bindings, Binding, Records, Stable, Ending
  <2>q. QED  BY <2>1 DEF Log!Next
<1>3. ASSUME Ending' = Torn, UNCHANGED <<Records, Stable, told>>
      PROVE  Log!Next
  <2>1. Log!Abandon
    BY <1>3 DEF Log!Abandon, Records, Stable, Ending
  <2>q. QED  BY <2>1 DEF Log!Next
<1>4. ASSUME NEW T \in SUBSET Records, Ending = None, Stable' = Records, told' = told \cup T,
             UNCHANGED <<Records, Ending>>
      PROVE  Log!Next
  <2>1. Log!Acknowledge(T)
    BY <1>4 DEF Log!Acknowledge, Records, Stable, Ending
  <2>q. QED  BY <2>1 DEF Log!Next, Records
<1>5. ASSUME Records' \in SUBSET Records, Stable \subseteq Records', Ending' \in {None, Torn},
             UNCHANGED <<Stable, told>>
      PROVE  Log!Next
  <2>1. Log!PowerFailure
    BY <1>5 DEF Log!PowerFailure, Records, Stable, Ending
  <2>q. QED  BY <2>1 DEF Log!Next
<1>6. ASSUME UNCHANGED <<Records, Stable, Ending, told>>
      PROVE  UNCHANGED Log!logVars
  BY <1>6 DEF Log!logVars, Records, Stable, Ending
<1>q. QED  BY <1>1, <1>2, <1>3, <1>4, <1>5, <1>6

(* The file untouched and no attempt under way: the log stays, or loses    *)
(* the attempt there was.                                                  *)
LEMMA IdleStep ==
  ASSUME IInv, UNCHANGED <<file, synced, told>>, \A p \in Proc : pc'[p] # "append"
  PROVE  [Log!Next]_(Log!logVars)
<1>1. UNCHANGED <<Records, Stable, told>>
  BY Mapping
<1>2. Lead' = Lead
  BY DEF Lead
<1>3. CASE Len(file) = Parts * Cardinality(Lead)
  <2>1. Ending = None /\ Ending' = None
    BY <1>2, <1>3 DEF Ending
  <2>q. QED  BY <1>1, <2>1, AbstractStep
<1>4. CASE Len(file) # Parts * Cardinality(Lead)
  <2>1. Ending' = Torn
    BY <1>2, <1>4 DEF Ending
  <2>q. QED  BY <1>1, <2>1, AbstractStep
<1>q. QED  BY <1>3, <1>4

(* A synchronisation of a clean log acknowledges at most what it holds.    *)
LEMMA AcknowledgeStep ==
  ASSUME IInv, UNCHANGED file, synced' = Len(file), Len(file) = Parts * Cardinality(Lead),
         NEW T \in SUBSET Records, told' = told \cup T
  PROVE  [Log!Next]_(Log!logVars)
<1>1. Lead' = Lead /\ Records' = Records
  BY DEF Lead, Records
<1>2. Ending = None /\ Ending' = None
  BY <1>1 DEF Ending
<1>3. Stable' = Records
  <2>1. ASSUME NEW i \in LeadOf(file) PROVE i * Parts <= Len(file)
    <3>1. Len(file) \in Nat /\ i \in 1 .. Len(file) \div Parts /\ Parts \in 1 .. Parts
      BY <2>1, RecordStoreAssumption DEF IInv, TypeOK, LeadOf, Count
    <3>2. (i - 1) * Parts + Parts \in 1 .. Len(file)
      BY <3>1, CellInside
    <3>3. i \in Nat
      BY <3>1
    <3>q. QED  BY <3>1, <3>2, <3>3, RecordStoreAssumption
  <2>2. {j \in LeadOf(file) : j * Parts <= Len(file)} = LeadOf(file)
    BY <2>1
  <2>3. StableOf(file, Len(file)) = RecordsOf(file)
    BY <2>2 DEF StableOf, RecordsOf
  <2>q. QED  BY <2>3, Mapping
<1>q. QED  BY <1>1, <1>2, <1>3, AbstractStep

(* A cell appended by p: the log begins a record, goes on, commits it or   *)
(* abandons it.                                                            *)
LEMMA CellStep ==
  ASSUME IInv, IInv', NEW p \in Proc, pc[p] = "append", at[p] <= Parts,
         NEW written \in BOOLEAN, NEW ok \in BOOLEAN, Write(p, written, ok),
         UNCHANGED <<synced, told>>,
         \/ /\ written /\ pc'[p] = "append" /\ at'[p] = at[p] + 1
            /\ UNCHANGED <<binding, base>>
         \/ \A q \in Proc : pc'[q] # "append"
  PROVE  [Log!Next]_(Log!logVars)
<1> DEFINE n == base[p] \div Parts
<1>1. /\ n \in Nat /\ base[p] = n * Parts /\ n < MaxRecords
      /\ Len(file) = n * Parts + at[p] - 1
      /\ \A i \in 1 .. n : Whole(file, i) /\ BindingAt(file, i).job # binding[p].job
      /\ at[p] \in 1 .. Parts /\ binding[p] \in Binding
  <2>1. at[p] \in 1 .. Parts /\ binding[p] \in Binding
    BY RecordStoreAssumption DEF IInv, TypeOK, Own, Appending
  <2>q. QED  BY <2>1, AppendShape
<1>2. LeadOf(file) = 1 .. n /\ Ending = IF at[p] = 1 THEN None ELSE binding[p]
  <2>1. at[p] # Parts + 1
    BY <1>1, RecordStoreAssumption
  <2>q. QED  BY <2>1, AppendTail
<1>3. /\ Len(file') = n * Parts + at[p]
      /\ \A i \in 1 .. n * Parts : file'[i] = file[i]
      /\ file'[n * Parts + at[p]] = IF written THEN [b |-> binding[p], part |-> at[p]] ELSE Torn
  <2>1. /\ Len(file') = Len(file) + 1
        /\ \A i \in 1 .. Len(file) : file'[i] = file[i]
        /\ file'[Len(file) + 1] = IF written THEN [b |-> binding[p], part |-> at[p]] ELSE Torn
    BY WriteGives
  <2>2. Len(file) + 1 = n * Parts + at[p] /\ 1 .. n * Parts \subseteq 1 .. Len(file)
    BY <1>1, RecordStoreAssumption
  <2>q. QED  BY <2>1, <2>2
<1>4. synced \in Nat /\ synced < n * Parts + Parts
  <2>1. synced \in Nat /\ Len(file) \in Nat /\ synced <= Len(file)
    BY DEF IInv, TypeOK
  <2> HIDE DEF n
  <2>2. Len(file) < n * Parts + Parts
    BY <1>1, RecordStoreAssumption
  <2>3. n * Parts + Parts \in Nat
    BY <1>1, RecordStoreAssumption
  <2>q. QED  BY <2>1, <2>2, <2>3
<1>5. \A i \in 1 .. n : Whole(file', i)
  <2>1. n * Parts \in Nat /\ (n * Parts) \div Parts = n
    <3>1. 0 \in 0 .. Parts - 1 /\ n * Parts + 0 = n * Parts /\ n * Parts \in Nat
      BY <1>1, RecordStoreAssumption
    <3>q. QED  BY <1>1, <3>1, Divides
  <2>q. QED  BY <1>1, <1>3, <2>1, SameRecord
<1> HIDE DEF n
<1>6. CASE at[p] < Parts
  <2>1. Count(file') = n
    <3>1. at[p] \in 0 .. Parts - 1
      BY <1>1, <1>6, RecordStoreAssumption
    <3>2. Len(file') \div Parts = n
      BY <1>1, <1>3, <3>1, Divides
    <3>q. QED  BY <3>2 DEF Count
  <2>2. LeadOf(file') = 1 .. n /\ Cardinality(LeadOf(file')) = n
    BY <1>1, <1>5, <2>1, LeadExact
  <2>3. UNCHANGED <<Records, Stable, told>>
    <3>1. RecordsOf(file') = RecordsOf(file) /\ StableOf(file', synced) = StableOf(file, synced)
      BY <1>1, <1>2, <1>3, <1>4, <2>2, SameLead
    <3>q. QED  BY <3>1, Mapping
  <2>4. Len(file') # Parts * Cardinality(Lead')
    <3>1. Lead' = LeadOf(file')
      BY DEF Lead, LeadOf
    <3>2. n * Parts + at[p] # Parts * n
      BY <1>1, RecordStoreAssumption
    <3>q. QED  BY <1>3, <2>2, <3>1, <3>2
  <2>5. CASE \A q \in Proc : pc'[q] # "append"
    <3>1. Ending' = Torn
      BY <2>4, <2>5 DEF Ending
    <3>q. QED  BY <2>3, <3>1, AbstractStep
  <2>6. CASE pc'[p] = "append" /\ at'[p] = at[p] + 1 /\ UNCHANGED <<binding, base>>
    <3>1. Ending' = binding[p]
      <4>1. \A q \in Proc : pc'[q] = "append" <=> q = p
        BY <2>6 DEF IInv, Own
      <4>2. (CHOOSE q \in Proc : pc'[q] = "append") = p
        BY <4>1
      <4>3. Len(file') = base'[p] + at'[p] - 1
        BY <1>1, <1>3, <2>6
      <4>q. QED  BY <2>4, <2>6, <4>2, <4>3 DEF Ending
    <3>2. CASE at[p] # 1
      BY <1>2, <2>3, <3>1, <3>2, AbstractStep
    <3>3. CASE at[p] = 1
      <4>1. \A c \in Records : c.job # binding[p].job
        BY <1>1, <1>2, Mapping DEF RecordsOf
      <4>2. Cardinality(Records) < MaxRecords
        <5> DEFINE m == [i \in 1 .. n |-> BindingAt(file, i)]
        <5>1. m \in Surjection(1 .. n, Records)
          BY <1>2, Mapping DEF RecordsOf, Surjection
        <5>2. IsFiniteSet(1 .. n) /\ Cardinality(1 .. n) = n
          BY <1>1, FS_Interval
        <5>3. IsFiniteSet(Records) /\ Cardinality(Records) <= Cardinality(1 .. n)
          BY <5>1, <5>2, FS_Surjection
        <5>4. Cardinality(Records) \in Nat
          BY <5>3, FS_CardinalityType
        <5>q. QED  BY <1>1, <5>2, <5>3, <5>4, RecordStoreAssumption
      <4>q. QED  BY <1>1, <1>2, <2>3, <3>1, <3>3, <4>1, <4>2, AbstractStep
    <3>q. QED  BY <3>2, <3>3
  <2>q. QED  BY <2>5, <2>6
<1>7. CASE at[p] = Parts
  <2>1. Count(file') = n + 1 /\ Len(file') = Parts * (n + 1) /\ n + 1 \in Nat
    <3>1. (n + 1) * Parts + 0 = Len(file') /\ 0 \in 0 .. Parts - 1 /\ n + 1 \in Nat
      BY <1>1, <1>3, <1>7, RecordStoreAssumption
    <3>2. Len(file') = Parts * (n + 1)
      BY <3>1, RecordStoreAssumption
    <3>q. QED  BY <3>1, <3>2, Divides DEF Count
  <2>2. Ending = binding[p]
    BY <1>2, <1>7, RecordStoreAssumption
  <2>3. CASE written
    <3>1. \A k \in 1 .. Parts : CellAt(file', n + 1, k) = [b |-> binding[p], part |-> k]
      <4> SUFFICES ASSUME NEW k \in 1 .. Parts
                   PROVE  CellAt(file', n + 1, k) = [b |-> binding[p], part |-> k]
        OBVIOUS
      <4>1. CellAt(file', n + 1, k) = file'[n * Parts + k]
        BY <1>1, CellAfter
      <4>2. CASE k = Parts
        BY <1>3, <1>7, <2>3, <4>1, <4>2
      <4>3. CASE k # Parts
        <5>1. k \in 1 .. at[p] - 1 /\ n * Parts + k \in 1 .. Len(file)
          BY <1>1, <1>7, <4>3, RecordStoreAssumption
        <5>2. file[base[p] + k] = [b |-> binding[p], part |-> k]
          BY <5>1 DEF IInv, Own, Appending
        <5>3. file'[n * Parts + k] = file[n * Parts + k]
          BY <5>1, WriteGives
        <5>q. QED  BY <1>1, <4>1, <5>2, <5>3
      <4>q. QED  BY <4>2, <4>3
    <3>2. Whole(file', n + 1)
      BY <1>1, <3>1 DEF Whole
    <3>3. BindingAt(file', n + 1) = binding[p]
      <4>1. CellAt(file', n + 1, 1) = [b |-> binding[p], part |-> 1]
        BY <3>1, RecordStoreAssumption
      <4>q. QED  BY <4>1 DEF BindingAt
    <3>4. \A i \in 1 .. n + 1 : Whole(file', i)
      BY <1>1, <1>5, <3>2
    <3>5. LeadOf(file') = 1 .. n + 1 /\ Cardinality(LeadOf(file')) = n + 1
      BY <2>1, <3>4, LeadExact
    <3>6. /\ RecordsOf(file') = RecordsOf(file) \cup {binding[p]}
          /\ StableOf(file', synced) = StableOf(file, synced)
      BY <1>1, <1>2, <1>3, <1>4, <3>3, <3>5, SameLead
    <3>7. Ending' = None
      <4>1. Lead' = LeadOf(file')
        BY DEF Lead, LeadOf
      <4>q. QED  BY <2>1, <3>5, <4>1 DEF Ending
    <3>q. QED  BY <1>1, <2>2, <3>6, <3>7, Mapping, AbstractStep
  <2>4. CASE ~written
    <3>1. ~Whole(file', n + 1)
      <4>1. CellAt(file', n + 1, Parts) = Torn
        <5>1. Parts \in 1 .. Parts
          BY RecordStoreAssumption
        <5>2. CellAt(file', n + 1, Parts) = file'[n * Parts + Parts]
          BY <1>1, <5>1, CellAfter
        <5>q. QED  BY <1>3, <1>7, <2>4, <5>2
      <4>2. \A b \in Binding : [b |-> b, part |-> Parts] # Torn
        BY RecordStoreAssumption DEF Binding
      <4>3. Parts \in 1 .. Parts
        BY RecordStoreAssumption
      <4>q. QED  BY <4>1, <4>2, <4>3 DEF Whole
    <3>2. LeadOf(file') = 1 .. n /\ Cardinality(LeadOf(file')) = n
      BY <1>1, <1>5, <2>1, <3>1, LeadExact
    <3>3. RecordsOf(file') = RecordsOf(file) /\ StableOf(file', synced) = StableOf(file, synced)
      BY <1>1, <1>2, <1>3, <1>4, <3>2, SameLead
    <3>4. Ending' = Torn
      <4>1. Lead' = LeadOf(file')
        BY DEF Lead, LeadOf
      <4>2. Parts * (n + 1) # Parts * n
        BY <1>1, RecordStoreAssumption
      <4>3. \A q \in Proc : pc'[q] # "append"
        BY <2>4
      <4>q. QED  BY <2>1, <3>2, <4>1, <4>2, <4>3 DEF Ending
    <3>q. QED  BY <3>3, <3>4, Mapping, AbstractStep
  <2>q. QED  BY <2>3, <2>4
<1>q. QED  BY <1>1, <1>6, <1>7, RecordStoreAssumption

(* A power failure takes records from the end, none that was synchronised. *)
LEMMA PowerFailureStep ==
  ASSUME IInv, IInv', PowerFailure
  PROVE  [Log!Next]_(Log!logVars)
<1>0. PICK n \in synced .. Len(file) : \E bad \in SUBSET (synced + 1 .. n) :
        file' = [i \in 1 .. n |-> IF i \in bad THEN Torn ELSE file[i]]
  BY DEF PowerFailure
<1>1. PICK bad \in SUBSET (synced + 1 .. n) :
        file' = [i \in 1 .. n |-> IF i \in bad THEN Torn ELSE file[i]]
  BY <1>0
<1>2. /\ file \in Seq(Cell) /\ Len(file) \in Nat /\ synced \in Nat
      /\ n \in Nat /\ n <= Len(file) /\ synced <= n
  BY <1>1 DEF IInv, TypeOK
<1>3. Len(file') = n /\ synced' = synced /\ told' = told /\ \A p \in Proc : pc'[p] # "append"
  <2>1. Len(file') = n
    <3>1. file' \in Seq(Cell) /\ DOMAIN file' = 1 .. n
      BY <1>1 DEF IInv, TypeOK
    <3>q. QED  BY <1>2, <3>1
  <2>q. QED  BY <2>1 DEF PowerFailure, NoHandles
<1>4. /\ \A i \in 1 .. n : file'[i] = file[i] \/ file'[i] = Torn
      /\ \A i \in 1 .. synced : file'[i] = file[i]
  BY <1>1, <1>2
<1>5. ASSUME NEW i \in 1 .. Count(file'), Whole(file', i)
      PROVE  Whole(file, i) /\ BindingAt(file, i) = BindingAt(file', i)
  <2>1. PICK b \in Binding : \A k \in 1 .. Parts : CellAt(file', i, k) = [b |-> b, part |-> k]
    BY <1>5 DEF Whole
  <2>2. ASSUME NEW k \in 1 .. Parts PROVE CellAt(file, i, k) = [b |-> b, part |-> k]
    <3>1. (i - 1) * Parts + k \in 1 .. n
      BY <1>2, <1>3, CellInside DEF Count
    <3>2. [b |-> b, part |-> k] # Torn
      BY RecordStoreAssumption DEF Binding
    <3>q. QED  BY <1>4, <2>1, <3>1, <3>2 DEF CellAt
  <2>3. Whole(file, i)
    BY <2>2 DEF Whole
  <2>4. BindingAt(file, i) = BindingAt(file', i)
    BY <2>1, <2>2, RecordStoreAssumption DEF BindingAt
  <2>q. QED  BY <2>3, <2>4
<1>6. 1 .. Count(file') \subseteq 1 .. Count(file) /\ Count(file') \in Nat
  BY <1>2, <1>3, DivMonotone, Division DEF Count
<1>7. RecordsOf(file') \subseteq RecordsOf(file)
  <2>1. ASSUME NEW i \in LeadOf(file') PROVE i \in LeadOf(file) /\ BindingAt(file', i) = BindingAt(file, i)
    <3>1. i \in 1 .. Count(file') /\ \A j \in 1 .. i : Whole(file', j)
      BY <2>1 DEF LeadOf
    <3>2. 1 .. i \subseteq 1 .. Count(file') /\ i \in 1 .. i
      BY <1>6, <3>1
    <3>3. \A j \in 1 .. i : Whole(file, j)
      BY <1>5, <3>1, <3>2
    <3>4. BindingAt(file', i) = BindingAt(file, i)
      BY <1>5, <3>1, <3>2
    <3>q. QED  BY <1>6, <3>1, <3>3, <3>4 DEF LeadOf
  <2>q. QED  BY <2>1 DEF RecordsOf
<1>8. ASSUME NEW i \in 1 .. Count(file), i * Parts <= synced
      PROVE  /\ i \in 1 .. Count(file')
             /\ BindingAt(file, i) = BindingAt(file', i)
             /\ i \in LeadOf(file) <=> i \in LeadOf(file')
  <2>0. Count(file) \in Nat
    BY <1>2, Division DEF Count
  <2>1. i \in Nat /\ i >= 1
    BY <2>0
  <2>2. i \in 1 .. synced \div Parts
    BY <1>2, <1>8, <2>1, WholeUnits
  <2>3. i \in 1 .. Count(file')
    BY <1>2, <1>3, <2>2, DivMonotone DEF Count
  <2>4. \A j \in 1 .. i : (Whole(file, j) <=> Whole(file', j)) /\ BindingAt(file, j) = BindingAt(file', j)
    <3> SUFFICES ASSUME NEW j \in 1 .. i
                 PROVE  (Whole(file, j) <=> Whole(file', j)) /\ BindingAt(file, j) = BindingAt(file', j)
      OBVIOUS
    <3>0. synced \div Parts \in Nat
      BY <1>2, Division
    <3>1. j \in 1 .. synced \div Parts
      BY <2>1, <2>2, <3>0
    <3>q. QED  BY <1>2, <1>4, <3>1, SameRecord
  <2>5. i \in 1 .. i
    BY <2>1
  <2>q. QED  BY <2>3, <2>4, <2>5 DEF LeadOf
<1>9. StableOf(file', synced) = StableOf(file, synced) /\ StableOf(file, synced) \subseteq RecordsOf(file')
  <2>1. LeadOf(file) \subseteq 1 .. Count(file) /\ LeadOf(file') \subseteq 1 .. Count(file)
    BY <1>6 DEF LeadOf
  <2>2. /\ {j \in LeadOf(file') : j * Parts <= synced} = {j \in LeadOf(file) : j * Parts <= synced}
        /\ \A i \in {j \in LeadOf(file) : j * Parts <= synced} : BindingAt(file, i) = BindingAt(file', i)
    BY <1>8, <2>1
  <2>3. StableOf(file', synced) = StableOf(file, synced)
    BY <2>2 DEF StableOf
  <2>4. StableOf(file', synced) \subseteq RecordsOf(file')
    BY DEF StableOf, RecordsOf
  <2>q. QED  BY <2>3, <2>4
<1>10. Ending' \in {None, Torn}
  BY <1>3 DEF Ending
<1>q. QED  BY <1>3, <1>7, <1>9, <1>10, Mapping, AbstractStep

(* Every step of the store is a step of the log, or none.                  *)
LEMMA Implements == IInv /\ IInv' /\ [Next]_vars => [Log!Next]_(Log!logVars)
<1> SUFFICES ASSUME IInv, IInv', [Next]_vars PROVE [Log!Next]_(Log!logVars)
  OBVIOUS
<1>1. ASSUME NEW p \in Proc, lock = p \/ lock = None, pc'[p] # "append", lock' = p \/ lock' = None
      PROVE  \A q \in Proc : pc'[q] # "append"
  BY <1>1, RecordStoreAssumption DEF IInv, Own
<1>2. ASSUME NEW p \in Proc, Open(p) \/ Gone(p)
      PROVE  [Log!Next]_(Log!logVars)
  <2>1. (lock = p \/ lock = None) /\ (lock' = p \/ lock' = None) /\ UNCHANGED <<file, synced, told>>
    BY <1>2 DEF Open, Gone, IInv, Own
  <2>2. pc'[p] # "append"
    BY <1>2 DEF Open, Gone, IInv, TypeOK
  <2>q. QED  BY <1>1, <2>1, <2>2, IdleStep
<1>3. ASSUME NEW p \in Proc, AppendPart(p)
      PROVE  [Log!Next]_(Log!logVars)
  <2>1. /\ pc[p] = "append" /\ at[p] <= Parts /\ Write(p, TRUE, TRUE) /\ pc' = pc
        /\ at' = [at EXCEPT ![p] = @ + 1] /\ UNCHANGED <<synced, told, binding, base>>
    BY <1>3 DEF AppendPart
  <2>2. at'[p] = at[p] + 1
    BY <2>1 DEF IInv, TypeOK
  <2>q. QED  BY <2>1, <2>2, CellStep
<1>4. ASSUME NEW p \in Proc, NEW b \in Binding, NEW scans \in BOOLEAN, NEW fit \in BOOLEAN,
             Publish(p, b, scans, fit)
      PROVE  [Log!Next]_(Log!logVars)
  <2>1. /\ pc[p] = "ready" /\ lock = p /\ UNCHANGED <<file, synced, lock>>
    BY <1>4 DEF Publish, IInv, Own
  <2>2. CASE pc'[p] # "append"
    <3>2. told' = told
      BY <1>4 DEF Publish, Return
    <3>q. QED  BY <1>1, <2>1, <2>2, <3>2, IdleStep
  <2>3. CASE pc'[p] = "append"
    <3>1. Readable(file) /\ told' = told
      <4>1. ASSUME NEW o, Return(p, o, b) PROVE FALSE
        BY <2>3, <4>1 DEF Return, IInv, TypeOK
      <4>q. QED  BY <1>4, <4>1 DEF Publish, Scans
    <3>2. Len(file) = Parts * Cardinality(Lead)
      <4>1. Len(file) \in Nat /\ Lead = LeadOf(file)
        BY DEF IInv, TypeOK, Lead, LeadOf
      <4>q. QED  BY <3>1, <4>1, ReadableIsClean
    <3>3. Lead' = Lead
      BY <2>1 DEF Lead
    <3>4. Ending = None /\ Ending' = None
      BY <2>1, <3>2, <3>3 DEF Ending
    <3>5. UNCHANGED <<Records, Stable>>
      BY <2>1, Mapping
    <3>q. QED  BY <3>1, <3>4, <3>5, AbstractStep
  <2>q. QED  BY <2>2, <2>3
<1>5. ASSUME NEW p \in Proc, NEW how \in {"refused", "late", "partial"}, AppendEnds(p, how)
      PROVE  [Log!Next]_(Log!logVars)
  <2>1. /\ pc[p] = "append" /\ lock = p /\ at[p] <= Parts
        /\ \/ UNCHANGED <<file, failed>>
           \/ \E written, ok \in BOOLEAN : Write(p, written, ok)
        /\ Return(p, "Unknown", binding[p])
        /\ UNCHANGED <<synced, lock>>
    BY <1>5 DEF AppendEnds, IInv, Own
  <2>2. pc'[p] # "append" /\ told' = told
    BY <2>1 DEF Return, IInv, TypeOK
  <2>3. \A q \in Proc : pc'[q] # "append"
    BY <1>1, <2>1, <2>2
  <2>4. CASE UNCHANGED <<file, failed>>
    BY <2>1, <2>2, <2>3, <2>4, IdleStep
  <2>5. CASE \E written, ok \in BOOLEAN : Write(p, written, ok)
    <3>1. PICK written, ok \in BOOLEAN : Write(p, written, ok)
      BY <2>5
    <3>q. QED  BY <2>1, <2>2, <2>3, <3>1, CellStep
  <2>q. QED  BY <2>1, <2>4, <2>5
<1>6. ASSUME NEW p \in Proc, NEW how \in {"ok", "size", "sync", "late"}, Finalize(p, how)
      PROVE  [Log!Next]_(Log!logVars)
  <2> DEFINE n == base[p] \div Parts
             o == IF how = "ok" THEN "Durable" ELSE "Unknown"
  <2>1. /\ pc[p] = "append" /\ lock = p /\ at[p] = Parts + 1
        /\ synced' = IF how \in {"ok", "late"} THEN Len(file) ELSE synced
        /\ Return(p, o, binding[p]) /\ UNCHANGED <<file, lock>>
    BY <1>6 DEF Finalize, Synchronize, IInv, Own
  <2>2. /\ pc'[p] # "append"
        /\ told' = IF how = "ok" THEN told \cup {binding[p]} ELSE told
    BY <2>1 DEF Return, IInv, TypeOK
  <2>3. CASE how \in {"size", "sync"}
    BY <1>1, <2>1, <2>2, <2>3, IdleStep
  <2>4. CASE how \in {"ok", "late"}
    <3>1. /\ n \in Nat /\ Len(file) = n * Parts + Parts
          /\ BindingAt(file, n + 1) = binding[p] /\ Len(file) \div Parts = n + 1
          /\ Whole(file, n + 1)
      BY <2>1, WrittenIsWhole
    <3>2. \A i \in 1 .. n : Whole(file, i)
      BY <2>1, AppendShape
    <3>3. LeadOf(file) = 1 .. n + 1 /\ Cardinality(LeadOf(file)) = n + 1
      <4>1. \A i \in 1 .. n + 1 : Whole(file, i)
        BY <3>1, <3>2
      <4>q. QED  BY <3>1, <4>1, LeadExact DEF Count
    <3>4. Len(file) = Parts * Cardinality(Lead)
      <4>1. Parts * (n + 1) = n * Parts + Parts
        BY <3>1, RecordStoreAssumption
      <4>q. QED  BY <3>1, <3>3, <4>1 DEF Lead, LeadOf
    <3>5. binding[p] \in Records
      <4>1. n + 1 \in 1 .. n + 1
        BY <3>1
      <4>q. QED  BY <3>1, <3>3, <4>1, Mapping DEF RecordsOf
    <3>6. \E T \in SUBSET Records : told' = told \cup T
      <4>1. CASE how = "ok"
        BY <2>2, <3>5, <4>1
      <4>2. CASE how = "late"
        <5>1. told' = told \cup {}
          BY <2>2, <4>2
        <5>q. QED  BY <5>1
      <4>q. QED  BY <2>4, <4>1, <4>2
    <3>q. QED  BY <2>1, <2>4, <3>4, <3>6, AcknowledgeStep
  <2>q. QED  BY <2>3, <2>4
<1>7. ASSUME NEW p \in Proc, NEW b \in Binding, NEW how \in {"ok", "scan", "sync", "late"},
             Reconcile(p, b, how)
      PROVE  [Log!Next]_(Log!logVars)
  <2> DEFINE found == how # "scan" /\ Scans(p, b) /\ b \in BindingsOf(file)
             done  == found /\ how = "ok"
             o == IF done THEN "Durable" ELSE "Unknown"
  <2>1. /\ pc[p] = "ready" /\ lock = p
        /\ synced' = IF found /\ how # "sync" THEN Len(file) ELSE synced
        /\ Return(p, o, b) /\ UNCHANGED <<file, lock>>
    BY <1>7 DEF Reconcile, Synchronize, IInv, Own
  <2>2. /\ pc'[p] # "append"
        /\ told' = IF done THEN told \cup {b} ELSE told
    BY <2>1 DEF Return, IInv, TypeOK
  <2>3. CASE ~(found /\ how # "sync")
    BY <1>1, <2>1, <2>2, <2>3, IdleStep
  <2>4. CASE found /\ how # "sync"
    <3>1. Readable(file) /\ b \in BindingsOf(file) /\ Len(file) \in Nat
      BY <2>4 DEF Scans, IInv, TypeOK
    <3>2. LeadOf(file) = 1 .. Count(file) /\ Len(file) = Parts * Cardinality(LeadOf(file))
      BY <3>1, ReadableIsClean
    <3>3. b \in Records
      BY <3>1, <3>2, Mapping DEF RecordsOf, BindingsOf
    <3>4. \E T \in SUBSET Records : told' = told \cup T
      <4>1. CASE done
        BY <2>2, <3>3, <4>1
      <4>2. CASE ~done
        <5>1. told' = told \cup {}
          BY <2>2, <4>2
        <5>q. QED  BY <5>1
      <4>q. QED  BY <4>1, <4>2
    <3>5. Len(file) = Parts * Cardinality(Lead)
      BY <3>2 DEF Lead, LeadOf
    <3>q. QED  BY <2>1, <2>4, <3>4, <3>5, AcknowledgeStep
  <2>q. QED  BY <2>3, <2>4
<1>8. CASE UNCHANGED vars
  <2>1. UNCHANGED <<Records, Stable, Ending, told>>
    BY <1>8 DEF vars, Records, Stable, Ending, Lead
  <2>q. QED  BY <2>1, AbstractStep
<1>q. QED
  BY <1>2, <1>3, <1>4, <1>5, <1>6, <1>7, <1>8, PowerFailureStep DEF Next

(* The record store is the log it promises: for its callers there are only *)
(* whole records, at most one per job, none lost that was acknowledged,    *)
(* and a tail that is never written past (RecordStore).                    *)
THEOREM StoreImplementsLog == Spec => Promise
<1>1. Init => Log!Init
  <2> SUFFICES ASSUME Init PROVE Log!Init
    OBVIOUS
  <2>1. file = <<>> /\ Len(file) = 0 /\ told = {}
    BY DEF Init
  <2>2. Count(file) = 0
    <3>1. 0 * Parts + 0 = 0 /\ 0 \in 0 .. Parts - 1
      BY RecordStoreAssumption
    <3>q. QED  BY <2>1, <3>1, Divides DEF Count
  <2>3. Lead = {}
    BY <2>2 DEF Lead
  <2>4. Cardinality(Lead) = 0
    BY <2>3, FS_EmptySet
  <2>5. Records = {} /\ Stable = {}
    BY <2>3 DEF Records, Stable
  <2>6. Ending = None
    BY <2>1, <2>4, RecordStoreAssumption DEF Ending
  <2>q. QED  BY <2>1, <2>5, <2>6 DEF Log!Init, Records, Stable, Ending
<1>q. QED  BY <1>1, InvariantHolds, Implements, PTL DEF Spec, Promise, Log!Spec
==============================================================================
