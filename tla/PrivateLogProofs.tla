-------------------------- MODULE PrivateLogProofs --------------------------
(***************************************************************************)
(* Safety of the private audit log for every max_bytes, every number of    *)
(* retained generations and every sequence of failures and restarts.  The  *)
(* inductive invariant says how far the rotation in progress has come, and *)
(* how old a record in a given generation can be.                          *)
(***************************************************************************)
EXTENDS PrivateLog, TLAPS

(* Inside write, from the choice of the record's place on.                 *)
Busy == {"unlink", "shift", "create", "append"}

(* The values the variables take.                                          *)
TypeOK ==
  /\ dir \in [Slot -> File \cup {None}]
  /\ handle \in BOOLEAN /\ size \in Nat
  /\ pc \in {"down", "ready"} \cup Busy
  /\ at \in Slot
  /\ job \in [id : Nat, len : Nat]
  /\ offered \in Nat /\ begun \in Nat
  /\ acked \subseteq [id : Nat, born : Nat]

(* How far write has come: the slot a rename goes to is free, so is the    *)
(* name of the active file when it is created, and the record fits.        *)
PhaseInv ==
  /\ handle => pc \in {"ready", "append"}
  /\ pc \in Busy => job.id = offered /\ job.len \in 1 .. MaxBytes
  /\ pc = "shift" => at \in 0 .. Retained - 1 /\ dir[at + 1] = None
  /\ pc = "create" => dir[0] = None
  /\ pc = "append" => handle /\ size + job.len <= MaxBytes

(* The record being written is newer than all that is in the files.        *)
NewestInv ==
  \A i \in Slot : \A n \in DOMAIN Recs(i) :
    /\ Recs(i)[n].id <= offered
    /\ pc \in Busy => Recs(i)[n].id < offered

(* The generations the rotation in progress has still to move.             *)
Unmoved(i) == pc = "unlink" \/ (pc = "shift" /\ i <= at)

(* A recorded event moves by at most one generation in a rotation.         *)
Placed(r, i) ==
  /\ Keeps(i, r.id) /\ r.born + i <= begun
  /\ Unmoved(i) => r.born + i < begun
AgeInv ==
  \A r \in acked : begun > r.born + Retained \/ \E i \in Slot : Placed(r, i)

IInv == TypeOK /\ PhaseInv /\ Bounded /\ NewestInv /\ InOrder /\ AgeInv

-----------------------------------------------------------------------------
(* The files, record by record.                                            *)
SameRecs == \A i \in Slot : Recs(i)' = Recs(i)

(* The numbers of generations.                                             *)
LEMMA Slots ==
  /\ 0 \in Slot /\ Retained \in Slot /\ Retained \in Nat /\ Retained > 0
  /\ MaxBytes \in Nat /\ Slot \subseteq Nat
  /\ \A i \in 0 .. Retained - 1 : i \in Slot /\ i + 1 \in Slot
BY PrivateLogAssumption DEF Slot

(* A file is a sequence of records.                                        *)
LEMMA RecsTyped ==
  ASSUME TypeOK, NEW i \in Slot
  PROVE  Recs(i) \in Seq([id : Nat, whole : BOOLEAN])
<1>1. dir[i] \in File \cup {None}
  BY DEF TypeOK
<1>q. QED  BY <1>1 DEF Recs, File

(* Order is a matter of the records alone.                                 *)
LEMMA OrderKept ==
  ASSUME InOrder, SameRecs
  PROVE  InOrder'
BY DEF InOrder, SameRecs

(* A new record's number is above all the others'.                         *)
LEMMA NewestKept ==
  ASSUME TypeOK, NewestInv, SameRecs,
         \/ offered' = offered /\ (pc' \in Busy => pc \in Busy)
         \/ offered' = offered + 1
  PROVE  NewestInv'
<1>1. ASSUME NEW i \in Slot, NEW n \in DOMAIN Recs(i) PROVE Recs(i)[n].id \in Nat
  <2>1. Recs(i)[n] \in [id : Nat, whole : BOOLEAN]
    <3>1. Recs(i) \in Seq([id : Nat, whole : BOOLEAN])
      BY RecsTyped
    <3>2. ASSUME NEW R, NEW s \in Seq(R), NEW k \in DOMAIN s PROVE s[k] \in R
      OBVIOUS
    <3>q. QED  BY <3>1, <3>2
  <2>q. QED  BY <2>1
<1>2. offered \in Nat
  BY DEF TypeOK
<1>q. QED  BY <1>1, <1>2 DEF NewestInv, SameRecs

(* Records stay where they are while no rotation moves them.               *)
LEMMA AgeKept ==
  ASSUME TypeOK, AgeInv, SameRecs, acked' = acked,
         \/ begun' = begun /\ \A i \in Slot : Unmoved(i)' => Unmoved(i)
         \/ begun' = begun + 1
  PROVE  AgeInv'
<1> SUFFICES ASSUME NEW r \in acked
             PROVE  begun' > r.born + Retained \/ \E i \in Slot : Placed(r, i)'
  BY DEF AgeInv
<1>0. begun \in Nat /\ begun' \in Nat /\ begun' >= begun /\ r.born \in Nat
  BY DEF TypeOK
<1>1. CASE begun > r.born + Retained
  BY <1>0, <1>1, Slots
<1>2. ASSUME NEW i \in Slot, Placed(r, i)
      PROVE  Placed(r, i)'
  <2>1. Keeps(i, r.id)'
    BY <1>2 DEF Placed, Keeps, SameRecs
  <2>2. i \in Nat
    BY Slots
  <2>q. QED  BY <1>0, <1>2, <2>1, <2>2 DEF Placed
<1>q. QED  BY <1>1, <1>2 DEF AgeInv

(* Creating the active file, and doing nothing, leave the records alone.   *)
LEMMA AppendFileKeeps ==
  ASSUME TypeOK, AppendFile \/ UNCHANGED dir
  PROVE  /\ SameRecs /\ dir' \in [Slot -> File \cup {None}]
         /\ \A i \in Slot : dir'[i] = dir[i] \/ (i = 0 /\ dir[0] = None /\ dir'[0] = Empty)
<1>1. Empty \in File /\ Empty.recs = <<>> /\ Empty.bytes = 0
  BY DEF Empty, File
<1>2. dir \in [Slot -> File \cup {None}] /\ 0 \in Slot
  BY Slots DEF TypeOK
<1>3. dir' \in [Slot -> File \cup {None}]
  BY <1>1, <1>2 DEF AppendFile
<1>4. \A i \in Slot : dir'[i] = dir[i] \/ (i = 0 /\ dir[0] = None /\ dir'[0] = Empty)
  BY <1>2 DEF AppendFile
<1>5. SameRecs
  <2> SUFFICES ASSUME NEW i \in Slot PROVE Recs(i)' = Recs(i)
    BY DEF SameRecs
  <2>1. CASE dir'[i] = dir[i]
    BY <2>1 DEF Recs
  <2>2. CASE i = 0 /\ dir[0] = None /\ dir'[0] = Empty
    BY <1>1, <2>2, PrivateLogAssumption DEF Recs
  <2>q. QED  BY <1>4, <2>1, <2>2
<1>q. QED  BY <1>3, <1>4, <1>5

-----------------------------------------------------------------------------
(* The steps, one by one.                                                  *)

(* Opening the log takes its length from the file.                         *)
LEMMA OpenKeeps ==
  ASSUME IInv, NEW ok \in BOOLEAN, Open(ok)
  PROVE  IInv'
<1>0. TypeOK /\ PhaseInv /\ Bounded /\ NewestInv /\ InOrder /\ AgeInv
  BY DEF IInv
<1>1. /\ SameRecs /\ dir' \in [Slot -> File \cup {None}]
      /\ \A i \in Slot : dir'[i] = dir[i] \/ (i = 0 /\ dir[0] = None /\ dir'[0] = Empty)
  BY <1>0, AppendFileKeeps DEF Open
<1>2. /\ pc = "down" /\ UNCHANGED <<at, job, offered, begun, acked>>
      /\ \/ ok /\ pc' = "ready" /\ handle' = TRUE /\ size' = dir'[0].bytes /\ AppendFile
         \/ ~ok /\ UNCHANGED <<pc, handle, size>>
  BY DEF Open
<1>3. ~handle
  BY <1>0, <1>2 DEF PhaseInv
<1>4. Empty \in File /\ Empty.bytes = 0 /\ Empty # None /\ 0 \in Slot
  <2>1. Empty \in File /\ Empty.bytes = 0
    BY DEF Empty, File
  <2>q. QED  BY <2>1, Slots, PrivateLogAssumption
<1>5. ok => dir'[0] \in File /\ dir'[0] # None
  BY <1>0, <1>2, <1>4, PrivateLogAssumption DEF AppendFile, TypeOK
<1>6. TypeOK'
  BY <1>0, <1>1, <1>2, <1>5 DEF TypeOK, File
<1>7. PhaseInv'
  BY <1>2, <1>3 DEF PhaseInv, Busy
<1>8. Bounded'
  BY <1>0, <1>1, <1>2, <1>3, <1>4, <1>5, Slots DEF Bounded, Active
<1>9. NewestInv' /\ InOrder' /\ AgeInv'
  BY <1>0, <1>1, <1>2, NewestKept, OrderKept, AgeKept DEF Busy, Unmoved
<1>q. QED  BY <1>6, <1>7, <1>8, <1>9 DEF IInv

(* A record is given a number, and a place: the active file, or a new one. *)
LEMMA WriteKeeps ==
  ASSUME IInv, NEW n \in Size, NEW ok \in BOOLEAN, Write(n, ok)
  PROVE  IInv'
<1>0. TypeOK /\ PhaseInv /\ Bounded /\ NewestInv /\ InOrder /\ AgeInv
  BY DEF IInv
<1>1. /\ pc = "ready" /\ handle /\ offered' = offered + 1
      /\ UNCHANGED <<dir, size, at, acked>> /\ SameRecs
  BY DEF Write, SameRecs, Recs
<1>2. \/ Fail /\ begun' = begun
      \/ /\ n <= MaxBytes /\ Active /\ job' = [id |-> offered + 1, len |-> n]
         /\ \/ size + n > MaxBytes /\ pc' = "unlink" /\ handle' = FALSE /\ begun' = begun + 1
            \/ size + n <= MaxBytes /\ pc' = "append" /\ UNCHANGED <<handle, begun>>
  <2>1. n \in Nat /\ size \in Nat /\ MaxBytes \in Nat
    BY <1>0, PrivateLogAssumption DEF TypeOK
  <2>2. CASE n > MaxBytes \/ ~Active \/ ~ok
    BY <2>2 DEF Write
  <2>3. CASE ~(n > MaxBytes \/ ~Active \/ ~ok)
    <3>1. /\ Active /\ job' = [id |-> offered + 1, len |-> n]
          /\ IF size + n > MaxBytes
               THEN pc' = "unlink" /\ handle' = FALSE /\ begun' = begun + 1
               ELSE pc' = "append" /\ UNCHANGED <<handle, begun>>
      BY <2>3 DEF Write
    <3>2. n <= MaxBytes /\ (size + n > MaxBytes \/ size + n <= MaxBytes)
      BY <2>1, <2>3
    <3>3. CASE size + n > MaxBytes
      BY <3>1, <3>2, <3>3
    <3>4. CASE ~(size + n > MaxBytes)
      BY <3>1, <3>2, <3>4
    <3>q. QED  BY <3>3, <3>4
  <2>q. QED  BY <2>2, <2>3
<1>3. n \in Nat /\ n > 0 /\ size \in Nat /\ offered \in Nat /\ begun \in Nat /\ MaxBytes \in Nat
  BY <1>0, PrivateLogAssumption DEF TypeOK
<1>4. TypeOK'
  <2>1. job' \in [id : Nat, len : Nat]
    BY <1>2, <1>3 DEF Fail, NoJob
  <2>2. begun' \in Nat /\ offered' \in Nat
    <3>1. begun' = begun \/ begun' = begun + 1
      BY <1>2
    <3>q. QED  BY <1>1, <1>3, <3>1
  <2>3. handle' \in BOOLEAN /\ pc' \in {"down", "ready"} \cup Busy
    BY <1>1, <1>2 DEF Fail, Busy
  <2>q. QED  BY <1>0, <1>1, <2>1, <2>2, <2>3 DEF TypeOK
<1>5. PhaseInv'
  <2>1. CASE Fail
    BY <2>1 DEF Fail, PhaseInv, Busy
  <2>2. CASE n <= MaxBytes /\ job' = [id |-> offered + 1, len |-> n]
    <3>1. job'.id = offered' /\ job'.len = n /\ n \in 1 .. MaxBytes
      BY <1>1, <1>3, <2>2
    <3>q. QED  BY <1>1, <1>2, <1>3, <3>1 DEF PhaseInv, Busy, Fail
  <2>q. QED  BY <1>2, <2>1, <2>2
<1>6. Bounded'
  BY <1>0, <1>1, <1>2 DEF Bounded, Active, Fail
<1>7. NewestInv' /\ InOrder'
  BY <1>0, <1>1, NewestKept, OrderKept
<1>8. AgeInv'
  BY <1>0, <1>1, <1>2, AgeKept DEF Unmoved, Fail
<1>q. QED  BY <1>4, <1>5, <1>6, <1>7, <1>8 DEF IInv

(* A call that fails between the renames leaves the files as they are.     *)
LEMMA FailKeeps ==
  ASSUME IInv, Fail, UNCHANGED <<dir, size, at, offered, begun, acked>>
  PROVE  IInv'
<1>0. TypeOK /\ PhaseInv /\ Bounded /\ NewestInv /\ InOrder /\ AgeInv
  BY DEF IInv
<1>1. pc' = "ready" /\ handle' = FALSE /\ job' = NoJob /\ SameRecs
  BY DEF Fail, SameRecs, Recs
<1>2. TypeOK'
  BY <1>0, <1>1 DEF TypeOK, NoJob
<1>3. PhaseInv' /\ Bounded'
  BY <1>0, <1>1 DEF PhaseInv, Bounded, Busy
<1>4. NewestInv' /\ InOrder' /\ AgeInv'
  BY <1>0, <1>1, NewestKept, OrderKept, AgeKept DEF Busy, Unmoved
<1>q. QED  BY <1>2, <1>3, <1>4 DEF IInv

(* The last generation goes, and with it only records that have outlived   *)
(* the retained generations.                                               *)
LEMMA UnlinkKeeps ==
  ASSUME IInv, Unlink(TRUE)
  PROVE  IInv'
<1>0. TypeOK /\ PhaseInv /\ Bounded /\ NewestInv /\ InOrder /\ AgeInv
  BY DEF IInv
<1>1. /\ pc = "unlink" /\ pc' = "shift" /\ at' = Retained - 1
      /\ dir' = [dir EXCEPT ![Retained] = None]
      /\ UNCHANGED <<handle, job, size, offered, begun, acked>>
  BY DEF Unlink
<1>2. /\ dir'[Retained] = None
      /\ \A i \in Slot : i # Retained => dir'[i] = dir[i]
      /\ dir' \in [Slot -> File \cup {None}]
  BY <1>0, <1>1, Slots DEF TypeOK
<1>3. at' \in 0 .. Retained - 1 /\ at' + 1 = Retained /\ at' \in Slot
  BY <1>1, Slots
<1>4. TypeOK'
  BY <1>0, <1>1, <1>2, <1>3 DEF TypeOK, Busy
<1>5. PhaseInv'
  BY <1>0, <1>1, <1>2, <1>3 DEF PhaseInv, Busy
<1>6. Bounded'
  BY <1>0, <1>1, <1>2 DEF Bounded, PhaseInv
<1>7. /\ Recs(Retained)' = <<>>
      /\ \A i \in Slot : i # Retained => Recs(i)' = Recs(i)
  BY <1>2, Slots DEF Recs
<1>8. NewestInv'
  BY <1>0, <1>1, <1>7 DEF NewestInv, Busy
<1>9. InOrder'
  BY <1>0, <1>7 DEF InOrder
<1>10. AgeInv'
  <2> SUFFICES ASSUME NEW r \in acked
               PROVE  begun > r.born + Retained \/ \E i \in Slot : Placed(r, i)'
    BY <1>1 DEF AgeInv
  <2>0. begun \in Nat /\ r.born \in Nat
    BY <1>0 DEF TypeOK
  <2>1. ASSUME NEW i \in Slot, Placed(r, i)
        PROVE  begun > r.born + Retained \/ Placed(r, i)'
    <3>1. r.born + i < begun /\ i \in Nat
      BY <1>1, <2>1, Slots DEF Placed, Unmoved
    <3>2. CASE i = Retained
      BY <2>0, <3>1, <3>2
    <3>3. CASE i # Retained
      <4>1. Keeps(i, r.id)'
        BY <1>7, <2>1, <3>3 DEF Placed, Keeps
      <4>q. QED  BY <1>1, <2>0, <3>1, <4>1 DEF Placed
    <3>q. QED  BY <3>2, <3>3
  <2>q. QED  BY <1>0, <2>1 DEF AgeInv
<1>q. QED  BY <1>4, <1>5, <1>6, <1>8, <1>9, <1>10 DEF IInv

(* A generation moves up into the slot the one before it has left.         *)
LEMMA ShiftKeeps ==
  ASSUME IInv, Shift(TRUE)
  PROVE  IInv'
<1>0. TypeOK /\ PhaseInv /\ Bounded /\ NewestInv /\ InOrder /\ AgeInv
  BY DEF IInv
<1>g. PICK g : g = at
  OBVIOUS
<1>1. /\ pc = "shift" /\ UNCHANGED <<handle, job, size, offered, begun, acked>>
      /\ IF dir[g] = None THEN UNCHANGED dir ELSE Rename(g, g + 1)
      /\ \/ g = 0 /\ pc' = "create" /\ at' = g
         \/ g # 0 /\ pc' = "shift" /\ at' = g - 1
  BY <1>g DEF Shift
<1>2. /\ g \in 0 .. Retained - 1 /\ g \in Slot /\ g + 1 \in Slot /\ g + 1 # g
      /\ dir[g + 1] = None /\ ~handle
  BY <1>0, <1>g, <1>1, Slots DEF PhaseInv
<1>3. /\ dir'[g] = None /\ dir'[g + 1] = dir[g]
      /\ \A i \in Slot : i # g /\ i # g + 1 => dir'[i] = dir[i]
      /\ dir' \in [Slot -> File \cup {None}]
  <2>1. dir \in [Slot -> File \cup {None}]
    BY <1>0 DEF TypeOK
  <2>2. CASE dir[g] = None
    BY <1>1, <1>2, <2>1, <2>2
  <2>3. CASE dir[g] # None
    BY <1>1, <1>2, <2>1, <2>3 DEF Rename
  <2>q. QED  BY <2>2, <2>3
<1>4. pc' = "shift" => at' \in 0 .. Retained - 1 /\ at' + 1 = g
  BY <1>1, <1>2, Slots
<1>5. TypeOK'
  <2>1. at' \in Slot
    BY <1>1, <1>2, Slots DEF Slot
  <2>q. QED  BY <1>0, <1>1, <1>3, <2>1 DEF TypeOK, Busy
<1>6. PhaseInv'
  BY <1>0, <1>1, <1>2, <1>3, <1>4 DEF PhaseInv, Busy
<1>7. Bounded'
  BY <1>0, <1>1, <1>2, <1>3 DEF Bounded
<1>8. /\ Recs(g)' = <<>>
      /\ \A i \in Slot : i # g => \E j \in Slot : Recs(i)' = Recs(j)
                                                  /\ j = IF i = g + 1 THEN g ELSE i
  <2>1. Recs(g)' = <<>>
    BY <1>3 DEF Recs
  <2>2. ASSUME NEW i \in Slot, i # g, i # g + 1 PROVE Recs(i)' = Recs(i)
    BY <1>3, <2>2 DEF Recs
  <2>3. ASSUME NEW i \in Slot, i = g + 1 PROVE Recs(i)' = Recs(g)
    BY <1>3, <2>3 DEF Recs
  <2>q. QED  BY <1>2, <2>1, <2>2, <2>3
<1>9. NewestInv'
  BY <1>0, <1>1, <1>8 DEF NewestInv, Busy
<1>10. InOrder'
  <2> SUFFICES ASSUME NEW i \in Slot, NEW j \in Slot, NEW m \in DOMAIN Recs(i)',
                      NEW n \in DOMAIN Recs(j)', i > j \/ (i = j /\ m < n)
               PROVE  Recs(i)'[m].id < Recs(j)'[n].id
    BY DEF InOrder
  <2>1. i # g /\ j # g
    BY <1>8
  <2>2. PICK a \in Slot : Recs(i)' = Recs(a) /\ a = IF i = g + 1 THEN g ELSE i
    BY <1>8, <2>1
  <2>3. PICK b \in Slot : Recs(j)' = Recs(b) /\ b = IF j = g + 1 THEN g ELSE j
    BY <1>8, <2>1
  <2>4. a > b \/ (a = b /\ m < n)
    <3>1. i \in Nat /\ j \in Nat /\ g \in Nat
      BY <1>2, Slots
    <3>q. QED  BY <2>1, <2>2, <2>3, <3>1
  <2>q. QED  BY <1>0, <2>2, <2>3, <2>4 DEF InOrder
<1>11. AgeInv'
  <2> SUFFICES ASSUME NEW r \in acked
               PROVE  begun > r.born + Retained \/ \E i \in Slot : Placed(r, i)'
    BY <1>1 DEF AgeInv
  <2>0. begun \in Nat /\ r.born \in Nat
    BY <1>0 DEF TypeOK
  <2>1. ASSUME NEW i \in Slot, Placed(r, i)
        PROVE  \E j \in Slot : Placed(r, j)'
    <3>1. i # g + 1 /\ i \in Nat /\ g \in Nat
      <4>1. Recs(g + 1) = <<>>
        BY <1>2 DEF Recs
      <4>q. QED  BY <1>2, <2>1, <4>1, Slots DEF Placed, Keeps
    <3>2. CASE i = g
      <4>1. Recs(g + 1)' = Recs(g)
        BY <1>3 DEF Recs
      <4>2. Keeps(g + 1, r.id)'
        BY <2>1, <3>2, <4>1 DEF Placed, Keeps
      <4>3. r.born + i < begun
        BY <1>g, <1>1, <2>1, <3>1, <3>2 DEF Placed, Unmoved
      <4>4. r.born + (g + 1) <= begun'
        BY <1>1, <2>0, <3>1, <3>2, <4>3
      <4>5. ~Unmoved(g + 1)'
        BY <1>1, <3>1 DEF Unmoved
      <4>q. QED  BY <1>2, <4>2, <4>4, <4>5 DEF Placed
    <3>3. CASE i # g
      <4>1. Recs(i)' = Recs(i)
        BY <1>3, <3>1, <3>3 DEF Recs
      <4>2. Keeps(i, r.id)'
        BY <2>1, <4>1 DEF Placed, Keeps
      <4>3. Unmoved(i)' => Unmoved(i)
        BY <1>g, <1>1, <3>1 DEF Unmoved
      <4>q. QED  BY <1>1, <2>1, <4>2, <4>3 DEF Placed
    <3>q. QED  BY <3>2, <3>3
  <2>q. QED  BY <1>0, <2>1 DEF AgeInv
<1>q. QED  BY <1>5, <1>6, <1>7, <1>9, <1>10, <1>11 DEF IInv

(* The new active file is empty, and its record fits.                      *)
LEMMA CreateKeeps ==
  ASSUME IInv, NEW ok \in BOOLEAN, Create(ok)
  PROVE  IInv'
<1>0. TypeOK /\ PhaseInv /\ Bounded /\ NewestInv /\ InOrder /\ AgeInv
  BY DEF IInv
<1>1. /\ SameRecs /\ dir' \in [Slot -> File \cup {None}]
      /\ \A i \in Slot : dir'[i] = dir[i] \/ (i = 0 /\ dir[0] = None /\ dir'[0] = Empty)
  BY <1>0, AppendFileKeeps DEF Create
<1>2. /\ pc = "create" /\ dir[0] = None /\ UNCHANGED <<at, offered, begun, acked>>
      /\ \/ pc' = "append" /\ handle' = TRUE /\ size' = 0 /\ job' = job /\ AppendFile
         \/ Fail /\ size' = size
  BY <1>0 DEF Create, PhaseInv
<1>3. Empty \in File /\ Empty.bytes = 0 /\ Empty # None /\ 0 \in Slot
  <2>1. Empty \in File /\ Empty.bytes = 0
    BY DEF Empty, File
  <2>q. QED  BY <2>1, Slots, PrivateLogAssumption
<1>4. AppendFile => dir'[0] = Empty
  BY <1>0, <1>2, <1>3 DEF AppendFile, TypeOK
<1>5. job.id = offered /\ job.len \in 1 .. MaxBytes
  BY <1>0, <1>2 DEF PhaseInv, Busy
<1>6. TypeOK'
  <2>1. job' \in [id : Nat, len : Nat] /\ size' \in Nat
    BY <1>0, <1>2 DEF TypeOK, Fail, NoJob
  <2>2. handle' \in BOOLEAN /\ pc' \in {"down", "ready"} \cup Busy
    BY <1>2 DEF Fail, Busy
  <2>q. QED  BY <1>0, <1>1, <1>2, <2>1, <2>2 DEF TypeOK
<1>7. PhaseInv'
  <2>1. CASE Fail
    BY <2>1 DEF Fail, PhaseInv, Busy
  <2>2. CASE pc' = "append" /\ handle' = TRUE /\ size' = 0 /\ job' = job
    BY <1>2, <1>5, <2>2, Slots DEF PhaseInv, Busy
  <2>q. QED  BY <1>2, <2>1, <2>2
<1>8. Bounded'
  <2>1. \A i \in Slot : dir'[i] # None => dir'[i].bytes <= MaxBytes
    <3> SUFFICES ASSUME NEW i \in Slot, dir'[i] # None PROVE dir'[i].bytes <= MaxBytes
      OBVIOUS
    <3>1. CASE dir'[i] = dir[i]
      BY <1>0, <3>1 DEF Bounded
    <3>2. CASE dir'[i] = Empty
      BY <1>3, <3>2, Slots
    <3>q. QED  BY <1>1, <3>1, <3>2
  <2>2. handle' => Active'
    BY <1>2, <1>3, <1>4 DEF Active, Fail
  <2>q. QED  BY <2>1, <2>2 DEF Bounded
<1>9. NewestInv' /\ InOrder' /\ AgeInv'
  BY <1>0, <1>1, <1>2, NewestKept, OrderKept, AgeKept DEF Busy, Unmoved, Fail
<1>q. QED  BY <1>6, <1>7, <1>8, <1>9 DEF IInv

(* What k bytes of the record make of the active file.                     *)
LEMMA WrittenFile ==
  ASSUME IInv, pc = "append", NEW k \in Nat, k <= job.len, Written(k)
  PROVE  /\ dir' \in [Slot -> File \cup {None}]
         /\ \A i \in Slot : i # 0 => dir'[i] = dir[i]
         /\ dir'[0] # None /\ dir'[0].bytes = size + k /\ size + k <= MaxBytes
         /\ Recs(0)' = IF k = 0 THEN Recs(0)
                       ELSE Append(Recs(0), [id |-> job.id, whole |-> k = job.len])
<1>1. /\ handle /\ size \in Nat /\ job.len \in Nat /\ job.id \in Nat /\ size + job.len <= MaxBytes
      /\ dir \in [Slot -> File \cup {None}] /\ 0 \in Slot
      /\ dir[0] # None /\ dir[0].bytes = size
  BY Slots DEF IInv, TypeOK, PhaseInv, Bounded, Active
<1>2. dir[0] \in File /\ dir[0].recs \in Seq([id : Nat, whole : BOOLEAN]) /\ dir[0].bytes \in Nat
  BY <1>1 DEF File
<1>3. size + k <= MaxBytes
  BY <1>1, Slots
<1>4. CASE k = 0
  <2>1. dir' = dir
    BY <1>4 DEF Written
  <2>q. QED  BY <1>1, <1>3, <1>4, <2>1 DEF Recs
<1>5. CASE k # 0
  <2> DEFINE rec == [id |-> job.id, whole |-> k = job.len]
             new == [recs |-> Append(dir[0].recs, rec), bytes |-> dir[0].bytes + k]
  <2>1. dir' = [dir EXCEPT ![0] = new]
    BY <1>5 DEF Written
  <2>2. rec \in [id : Nat, whole : BOOLEAN]
    BY <1>1
  <2> HIDE DEF rec
  <2>3. Append(dir[0].recs, rec) \in Seq([id : Nat, whole : BOOLEAN])
    BY <1>2, <2>2
  <2>4. new \in File /\ new.bytes = size + k /\ new.recs = Append(dir[0].recs, rec)
    BY <1>1, <1>2, <2>3 DEF File
  <2>5. new # None
    BY <2>4, PrivateLogAssumption
  <2> HIDE DEF new
  <2>6. dir'[0] = new /\ dir' \in [Slot -> File \cup {None}]
        /\ \A i \in Slot : i # 0 => dir'[i] = dir[i]
    BY <1>1, <2>1, <2>4
  <2>7. Recs(0)' = Append(Recs(0), rec)
    BY <1>1, <2>4, <2>5, <2>6 DEF Recs
  <2>q. QED  BY <1>3, <1>5, <2>4, <2>5, <2>6, <2>7 DEF rec
<1>q. QED  BY <1>4, <1>5

(* The record comes last, and moves no other.                              *)
LEMMA WrittenKeeps ==
  ASSUME IInv, pc = "append", NEW k \in Nat, k <= job.len, Written(k),
         pc' \in {"ready", "down"}, UNCHANGED <<offered, begun>>
  PROVE  /\ NewestInv' /\ InOrder'
         /\ \A r \in acked : begun' > r.born + Retained \/ \E i \in Slot : Placed(r, i)'
         /\ \A id : k # 0 /\ k = job.len /\ id = job.id => Keeps(0, id)'
<1>1. /\ \A i \in Slot : i # 0 => Recs(i)' = Recs(i)
      /\ Recs(0)' = IF k = 0 THEN Recs(0)
                    ELSE Append(Recs(0), [id |-> job.id, whole |-> k = job.len])
  BY WrittenFile DEF Recs
<1>2. 0 \in Slot /\ Slot \subseteq Nat /\ offered \in Nat /\ job.id = offered
  BY Slots DEF IInv, TypeOK, PhaseInv, Busy
<1>3. Recs(0) \in Seq([id : Nat, whole : BOOLEAN])
  BY <1>2, RecsTyped DEF IInv
<1>4. CASE k = 0
  <2>1. SameRecs
    BY <1>1, <1>4 DEF SameRecs
  <2>2. NewestInv' /\ InOrder'
    BY <2>1, NewestKept, OrderKept DEF IInv, Busy
  <2>3. ASSUME NEW r \in acked, NEW i \in Slot, Placed(r, i) PROVE Placed(r, i)'
    BY <2>1, <2>3 DEF Placed, Keeps, SameRecs, Unmoved
  <2>q. QED  BY <1>4, <2>2, <2>3 DEF IInv, AgeInv
<1>5. CASE k # 0
  <2>1. PICK rec : rec = [id |-> job.id, whole |-> k = job.len] /\ rec.id = offered
    <3>1. [id |-> job.id, whole |-> k = job.len].id = offered
      BY <1>2
    <3>q. QED  BY <3>1
  <2>2. PICK s : s = Recs(0)
    OBVIOUS
  <2>3. /\ Len(s) \in Nat /\ DOMAIN s = 1 .. Len(s)
        /\ Recs(0)' = Append(s, rec) /\ DOMAIN Recs(0)' = 1 .. Len(s) + 1
        /\ Recs(0)'[Len(s) + 1] = rec
        /\ \A n \in 1 .. Len(s) : Recs(0)'[n] = Recs(0)[n]
    <3>1. Recs(0)' = Append(s, rec)
      BY <1>1, <1>5, <2>1, <2>2
    <3>2. s \in Seq([id : Nat, whole : BOOLEAN])
      BY <1>3, <2>2
    <3>3. ASSUME NEW R, NEW q \in Seq(R), NEW e
          PROVE  /\ Len(q) \in Nat /\ DOMAIN q = 1 .. Len(q)
                 /\ DOMAIN Append(q, e) = 1 .. Len(q) + 1
                 /\ Append(q, e)[Len(q) + 1] = e
                 /\ \A n \in 1 .. Len(q) : Append(q, e)[n] = q[n]
      OBVIOUS
    <3>q. QED  BY <2>2, <3>1, <3>2, <3>3
  <2>4. ASSUME NEW i \in Slot, NEW n \in DOMAIN Recs(i)'
        PROVE  \/ n \in DOMAIN Recs(i) /\ Recs(i)'[n] = Recs(i)[n] /\ Recs(i)[n].id < offered
               \/ i = 0 /\ n = Len(s) + 1 /\ Recs(i)'[n] = rec
    <3>1. CASE i # 0
      BY <1>1, <3>1, <2>4 DEF IInv, NewestInv, Busy
    <3>2. CASE i = 0 /\ n # Len(s) + 1
      <4>1. n \in 1 .. Len(s)
        BY <2>3, <2>4, <3>2
      <4>q. QED  BY <2>2, <2>3, <3>2, <4>1 DEF IInv, NewestInv, Busy
    <3>3. CASE i = 0 /\ n = Len(s) + 1
      BY <2>3, <3>3
    <3>q. QED  BY <3>1, <3>2, <3>3
  <2>5. ASSUME NEW i \in Slot, NEW n \in DOMAIN Recs(i) PROVE Recs(i)[n].id \in Nat
    <3>1. Recs(i) \in Seq([id : Nat, whole : BOOLEAN])
      BY RecsTyped DEF IInv
    <3>2. ASSUME NEW R, NEW q \in Seq(R), NEW m \in DOMAIN q PROVE q[m] \in R
      OBVIOUS
    <3>3. Recs(i)[n] \in [id : Nat, whole : BOOLEAN]
      BY <3>1, <3>2
    <3>q. QED  BY <3>3
  <2>6. NewestInv'
    BY <1>2, <2>1, <2>4, <2>5 DEF NewestInv, Busy
  <2>7. InOrder'
    <3> SUFFICES ASSUME NEW i \in Slot, NEW j \in Slot, NEW m \in DOMAIN Recs(i)',
                        NEW n \in DOMAIN Recs(j)', i > j \/ (i = j /\ m < n)
                 PROVE  Recs(i)'[m].id < Recs(j)'[n].id
      BY DEF InOrder
    <3>1. m \in DOMAIN Recs(i) /\ Recs(i)'[m] = Recs(i)[m] /\ Recs(i)[m].id < offered
      <4>1. ~(i = 0 /\ m = Len(s) + 1)
        <5>1. i = 0 => j = 0 /\ m < n /\ n \in 1 .. Len(s) + 1
          BY <1>2, <2>3
        <5>q. QED  BY <2>3, <5>1
      <4>q. QED  BY <2>4, <4>1
    <3>2. CASE j = 0 /\ n = Len(s) + 1 /\ Recs(j)'[n] = rec
      BY <2>1, <3>1, <3>2
    <3>3. CASE n \in DOMAIN Recs(j) /\ Recs(j)'[n] = Recs(j)[n]
      BY <3>1, <3>3 DEF IInv, InOrder
    <3>q. QED  BY <2>4, <3>2, <3>3
  <2>8. ASSUME NEW r \in acked, NEW i \in Slot, Placed(r, i) PROVE Placed(r, i)'
    <3>1. Keeps(i, r.id)'
      <4>1. CASE i # 0
        BY <1>1, <2>8, <4>1 DEF Placed, Keeps
      <4>2. CASE i = 0
        <5>1. PICK n \in DOMAIN Recs(0) : Recs(0)[n] = [id |-> r.id, whole |-> TRUE]
          BY <2>8, <4>2 DEF Placed, Keeps
        <5>2. n \in 1 .. Len(s)
          BY <2>2, <2>3, <5>1
        <5>3. n \in 1 .. Len(s) + 1
          BY <2>3, <5>2
        <5>4. n \in DOMAIN Recs(0)' /\ Recs(0)'[n] = [id |-> r.id, whole |-> TRUE]
          BY <2>3, <5>1, <5>2, <5>3
        <5>q. QED  BY <4>2, <5>4 DEF Keeps
      <4>q. QED  BY <4>1, <4>2
    <3>q. QED  BY <2>8, <3>1 DEF Placed, Unmoved
  <2>9. ASSUME NEW id, k = job.len, id = job.id PROVE Keeps(0, id)'
    <3>1. rec = [id |-> id, whole |-> TRUE]
      BY <2>1, <2>9
    <3>2. Len(s) + 1 \in DOMAIN Recs(0)'
      BY <2>3
    <3>q. QED  BY <2>3, <3>1, <3>2 DEF Keeps
  <2>q. QED  BY <2>6, <2>7, <2>8, <2>9 DEF IInv, AgeInv
<1>q. QED  BY <1>4, <1>5

(* A record that is acknowledged is whole, and in the active file.         *)
LEMMA WriteAllKeeps ==
  ASSUME IInv, NEW ok \in BOOLEAN, NEW k \in 0 .. MaxBytes, WriteAll(ok, k)
  PROVE  IInv'
<1>0. TypeOK /\ PhaseInv /\ Bounded /\ NewestInv /\ InOrder /\ AgeInv
  BY DEF IInv
<1>1. k \in Nat /\ 0 \in Slot /\ Slot \subseteq Nat
  BY Slots
<1>2. /\ pc = "append" /\ k <= job.len /\ Written(k) /\ UNCHANGED <<at, offered, begun>>
      /\ \/ /\ k = job.len /\ pc' = "ready" /\ job' = NoJob /\ size' = size + k
            /\ acked' = acked \cup {[id |-> job.id, born |-> begun]} /\ handle' = handle
         \/ Fail /\ UNCHANGED <<size, acked>>
  BY DEF WriteAll
<1>3. pc' = "ready" /\ job' = NoJob
  BY <1>2 DEF Fail
<1>4. /\ dir' \in [Slot -> File \cup {None}]
      /\ \A i \in Slot : i # 0 => dir'[i] = dir[i]
      /\ dir'[0] # None /\ dir'[0].bytes = size + k /\ size + k <= MaxBytes
  BY <1>1, <1>2, WrittenFile
<1>5. size \in Nat /\ job.id \in Nat /\ begun \in Nat /\ job.len > 0
  BY <1>0, <1>2 DEF TypeOK, PhaseInv, Busy
<1>6. TypeOK'
  <2>1. size' \in Nat
    BY <1>1, <1>2, <1>5
  <2>2. acked' \subseteq [id : Nat, born : Nat]
    BY <1>0, <1>2, <1>5 DEF TypeOK
  <2>3. handle' \in BOOLEAN
    BY <1>0, <1>2 DEF TypeOK, Fail
  <2>q. QED  BY <1>0, <1>2, <1>3, <1>4, <2>1, <2>2, <2>3 DEF TypeOK, NoJob
<1>7. PhaseInv'
  BY <1>3 DEF PhaseInv, Busy
<1>8. Bounded'
  <2>1. \A i \in Slot : dir'[i] # None => dir'[i].bytes <= MaxBytes
    BY <1>0, <1>4 DEF Bounded
  <2>2. handle' => Active'
    BY <1>2, <1>4 DEF Active, Fail
  <2>q. QED  BY <2>1, <2>2 DEF Bounded
<1>9. /\ NewestInv' /\ InOrder'
      /\ \A r \in acked : begun' > r.born + Retained \/ \E i \in Slot : Placed(r, i)'
      /\ \A id : k # 0 /\ k = job.len /\ id = job.id => Keeps(0, id)'
  BY <1>1, <1>2, <1>3, WrittenKeeps
<1>10. AgeInv'
  <2>1. ASSUME NEW r, k = job.len, r = [id |-> job.id, born |-> begun] PROVE Placed(r, 0)'
    <3>1. k # 0 /\ r.id = job.id /\ r.born = begun
      BY <1>5, <2>1
    <3>2. Keeps(0, r.id)'
      BY <1>9, <2>1, <3>1
    <3>3. r.born + 0 <= begun'
      BY <1>2, <1>5, <3>1
    <3>q. QED  BY <1>3, <3>2, <3>3 DEF Placed, Unmoved
  <2>2. ASSUME NEW r \in acked' PROVE r \in acked \/ (k = job.len /\ r = [id |-> job.id, born |-> begun])
    BY <1>2, <2>2
  <2>q. QED  BY <1>1, <1>9, <2>1, <2>2 DEF AgeInv
<1>q. QED  BY <1>6, <1>7, <1>8, <1>9, <1>10 DEF IInv

(* The process may end anywhere.                                           *)
LEMMA CrashKeeps ==
  ASSUME IInv, NEW k \in 0 .. MaxBytes, Crash(k)
  PROVE  IInv'
<1>0. TypeOK /\ PhaseInv /\ Bounded /\ NewestInv /\ InOrder /\ AgeInv
  BY DEF IInv
<1>1. pc' = "down" /\ handle' = FALSE /\ job' = NoJob /\ UNCHANGED <<size, at, offered, begun, acked>>
  BY DEF Crash
<1>2. PhaseInv'
  BY <1>1 DEF PhaseInv, Busy
<1>3. dir' \in [Slot -> File \cup {None}] => TypeOK'
  BY <1>0, <1>1 DEF TypeOK, NoJob
<1>4. CASE pc # "append"
  <2>1. dir' = dir /\ SameRecs
    BY <1>4 DEF Crash, SameRecs, Recs
  <2>2. NewestInv' /\ InOrder' /\ AgeInv'
    BY <1>0, <1>1, <2>1, NewestKept, OrderKept, AgeKept DEF Busy, Unmoved
  <2>3. TypeOK' /\ Bounded'
    BY <1>0, <1>1, <1>3, <2>1 DEF Bounded, TypeOK
  <2>q. QED  BY <1>2, <2>2, <2>3 DEF IInv
<1>5. CASE pc = "append"
  <2>1. k \in Nat /\ k <= job.len /\ Written(k)
    BY <1>5, Slots DEF Crash
  <2>2. /\ dir' \in [Slot -> File \cup {None}]
        /\ \A i \in Slot : i # 0 => dir'[i] = dir[i]
        /\ dir'[0].bytes <= MaxBytes
    BY <1>5, <2>1, WrittenFile
  <2>3. Bounded'
    BY <1>0, <1>1, <2>2 DEF Bounded
  <2>4. NewestInv' /\ InOrder' /\ AgeInv'
    BY <1>1, <1>5, <2>1, WrittenKeeps DEF AgeInv
  <2>q. QED  BY <1>2, <1>3, <2>2, <2>3, <2>4 DEF IInv
<1>q. QED  BY <1>4, <1>5

-----------------------------------------------------------------------------
(* Every reachable state of the log, over all restarts of its process,     *)
(* satisfies the inductive invariant.                                      *)
THEOREM InvariantHolds == Spec => []IInv
<1>1. Init => IInv
  <2> SUFFICES ASSUME Init PROVE IInv
    OBVIOUS
  <2>1. /\ \A i \in Slot : dir[i] = None
        /\ dir \in [Slot -> File \cup {None}]
        /\ handle = FALSE /\ size = 0 /\ pc = "down" /\ at = 0 /\ job = NoJob
        /\ offered = 0 /\ begun = 0 /\ acked = {}
    BY DEF Init
  <2>2. TypeOK
    BY <2>1, Slots DEF TypeOK, NoJob
  <2>3. PhaseInv /\ Bounded /\ AgeInv
    BY <2>1 DEF PhaseInv, Bounded, AgeInv, Busy
  <2>4. \A i \in Slot : Recs(i) = <<>>
    BY <2>1 DEF Recs
  <2>5. NewestInv /\ InOrder
    BY <2>4 DEF NewestInv, InOrder
  <2>q. QED  BY <2>2, <2>3, <2>5 DEF IInv
<1>2. IInv /\ [Next]_vars => IInv'
  <2> SUFFICES ASSUME IInv, [Next]_vars PROVE IInv'
    OBVIOUS
  <2>1. ASSUME NEW ok \in BOOLEAN, Unlink(ok) \/ Shift(ok) PROVE IInv'
    <3>1. CASE ok
      BY <2>1, <3>1, UnlinkKeeps, ShiftKeeps DEF Unlink, Shift
    <3>2. CASE ~ok
      BY <2>1, <3>2, FailKeeps DEF Unlink, Shift
    <3>q. QED  BY <3>1, <3>2
  <2>2. CASE UNCHANGED vars
    BY <2>2 DEF vars, IInv, TypeOK, PhaseInv, Bounded, Active, NewestInv, InOrder, AgeInv,
                Placed, Keeps, Unmoved, Recs
  <2>q. QED
    BY <2>1, <2>2, OpenKeeps, WriteKeeps, CreateKeeps, WriteAllKeeps, CrashKeeps DEF Next
<1>q. QED  BY <1>1, <1>2, PTL DEF Spec

(* Over every rotation, cut off or not, and every restart the files read   *)
(* from the oldest generation on are in the order of recording (rotate).   *)
THEOREM LogIsInOrder == Spec => []InOrder
<1>1. IInv => InOrder
  BY DEF IInv
<1>q. QED  BY InvariantHolds, <1>1, PTL

(* A recorded event is lost only to more rotations than generations are    *)
(* retained, however many of them failed half way (rotate, write_inner).   *)
THEOREM EventsAreRetained == Spec => []Retention
<1>1. IInv => Retention
  BY DEF IInv, AgeInv, Retention, Placed
<1>q. QED  BY InvariantHolds, <1>1, PTL

(* No file outgrows max_bytes, and an open log knows its file's length     *)
(* (write_inner, validate_active).                                         *)
THEOREM FilesAreBounded == Spec => []Bounded
<1>1. IInv => Bounded
  BY DEF IInv
<1>q. QED  BY InvariantHolds, <1>1, PTL
=============================================================================
