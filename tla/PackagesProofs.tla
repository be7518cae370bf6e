---------------------------- MODULE PackagesProofs ----------------------------
(***************************************************************************)
(* Safety of paged package observations for any number of tasks, records,  *)
(* pages, connections and captures.  The inductive invariant follows one   *)
(* snapshot through the lease: the slot holds the latest capture or        *)
(* nothing, and the page a request has in hand is a slice of it.  The      *)
(* chain of cursors is followed by the least offset it would miss.         *)
(***************************************************************************)
EXTENDS Packages, WellFoundedInduction, TLAPS

(* The lease is held by the one request under way; a capture works on an   *)
(* empty slot and with the newest nonce.                                   *)
LeaseInv ==
  \A p \in Task :
    /\ pc[p] # "idle" <=> lock = p
    /\ pc[p] # "idle" => job[p] \in Requests
    /\ pc[p] \in {"nonce", "capture"} => slot = None /\ job[p].cursor = None
    /\ pc[p] = "capture" => started.nonce = minted /\ minted \in Nonce \ dead

(* Epochs only grow; nonces are spent in order.                            *)
OrderInv == epoch \in {0, epochs} /\ dead \subseteq 1 .. minted

(* The slot's snapshot is the latest capture, and one that must not serve  *)
(* again is not usable.                                                    *)
SlotInv ==
  slot # None =>
    /\ slot.nonce = minted /\ slot.epoch <= epochs
    /\ captured[slot.nonce] = [count |-> slot.count, op |-> slot.op]
    /\ slot.nonce \in dead => slot.age = TTL \/ slot.epoch # epoch

(* A page in hand is the slice of the slot's snapshot that was asked for.  *)
ResultInv ==
  \A p \in Task : pc[p] \in {"close", "audit"} /\ result[p].ok /\ slot # None =>
    LET c == job[p].cursor
        o == IF c = None THEN 0 ELSE c.offset
    IN  /\ slot.op = job[p].op
        /\ slot.nonce = IF c = None THEN result[p].nonce ELSE c.nonce
        /\ result[p].items = o + 1 .. Smaller(o + Page, slot.count)

IInv == /\ TypeOK /\ LeaseInv /\ OrderInv /\ SlotInv /\ ResultInv
        /\ result = [p \in Task |-> result[p]]

-----------------------------------------------------------------------------
Pcs       == {"idle", "nonce", "capture", "close", "audit"}
Snapshots == [nonce : Nonce, count : 0 .. MaxRecords, op : Operation,
              epoch : 1 .. MaxEpoch, age : 0 .. TTL]
Captures  == [nonce : 0 .. MaxNonce, age : 0 .. TTL, previous : 0 .. MaxEpoch]

(* What p's page is to the slot, for an action that ends with p at l.      *)
Holds(p) ==
  /\ pc[p] \in {"nonce", "capture"} => slot = None /\ job[p].cursor = None
  /\ pc[p] = "capture" => started.nonce = minted /\ minted \in Nonce \ dead
  /\ pc[p] \in {"close", "audit"} /\ result[p].ok /\ slot # None =>
       LET c == job[p].cursor
           o == IF c = None THEN 0 ELSE c.offset
       IN  /\ slot.op = job[p].op
           /\ slot.nonce = IF c = None THEN result[p].nonce ELSE c.nonce
           /\ result[p].items = o + 1 .. Smaller(o + Page, slot.count)

(* Everybody but the holder of the lease is idle, so a step of the holder  *)
(* has to care for itself only.                                            *)
LEMMA HolderStep ==
  ASSUME IInv, NEW p \in Task, lock \in {p, None}, lock' = p,
         NEW l \in Pcs \ {"idle"}, Goto(p, l), job'[p] \in Requests, Holds(p)'
  PROVE  LeaseInv' /\ ResultInv' /\ pc' \in [Task -> Pcs]
<1>1. pc' \in [Task -> Pcs] /\ pc'[p] = l /\ \A q \in Task \ {p} : pc'[q] = pc[q]
  BY DEF Goto, IInv, TypeOK, Pcs
<1>2. \A q \in Task \ {p} : pc'[q] = "idle" /\ lock' # q
  BY <1>1, PackagesAssumption DEF IInv, LeaseInv
<1>3. LeaseInv'
  BY <1>1, <1>2 DEF LeaseInv, Holds
<1>4. ResultInv'
  BY <1>1, <1>2 DEF ResultInv, Holds
<1>q. QED  BY <1>1, <1>3, <1>4

(* The end of a request: the slot is kept only as it was.                  *)
LEMMA DropKeepsInv ==
  ASSUME IInv, NEW p \in Task, pc[p] # "idle", NEW keep \in BOOLEAN, Drop(p, keep)
  PROVE  IInv'
<1>1. /\ lock = p /\ lock' = None
      /\ slot' = IF keep THEN slot ELSE None
      /\ dead' = IF keep \/ slot = None THEN dead ELSE dead \cup {slot.nonce}
      /\ started' = NoCapture /\ Goto(p, "idle")
      /\ job' = [job EXCEPT ![p] = None]
      /\ result' = [result EXCEPT ![p] = Error]
      /\ expired' = [expired EXCEPT ![p] = FALSE]
      /\ UNCHANGED <<epoch, epochs, minted, captured>>
  BY DEF Drop, IInv, LeaseInv
<1>2. slot # None => slot.nonce \in Nonce /\ slot.nonce \in 1 .. minted
  BY DEF IInv, TypeOK, SlotInv, Nonce
<1>3. pc' \in [Task -> Pcs] /\ \A q \in Task : pc'[q] = "idle"
  BY <1>1 DEF Goto, IInv, TypeOK, LeaseInv, Pcs
<1>4. dead' \subseteq Nonce /\ dead' \subseteq 1 .. minted
  BY <1>1, <1>2 DEF IInv, TypeOK, OrderInv
<1>5. TypeOK'
  <2>1. NoCapture \in Captures
    BY PackagesAssumption DEF NoCapture, Captures
  <2>2. started' \in Captures /\ slot' \in Snapshots \cup {None}
    BY <1>1, <2>1 DEF IInv, TypeOK, Snapshots
  <2>3. job' \in [Task -> Requests \cup {None}] /\ expired' \in [Task -> BOOLEAN]
    BY <1>1 DEF IInv, TypeOK
  <2>q. QED  BY <1>1, <1>3, <1>4, <2>2, <2>3 DEF IInv, TypeOK, Pcs, Snapshots, Captures
<1>6. LeaseInv' /\ ResultInv'
  BY <1>1, <1>3, PackagesAssumption DEF LeaseInv, ResultInv
<1>7. OrderInv' /\ SlotInv'
  BY <1>1, <1>4 DEF IInv, OrderInv, SlotInv
<1>8. result' = [q \in Task |-> result'[q]]
  BY <1>1 DEF IInv
<1>q. QED  BY <1>5, <1>6, <1>7, <1>8 DEF IInv

(* A page asked for with a cursor is of the snapshot the cursor names.     *)
LEMMA ContinueGives ==
  ASSUME NEW op, NEW c, Continue(op, c).ok
  PROVE  /\ slot.op = op /\ slot.nonce = c.nonce
         /\ Continue(op, c).items = c.offset + 1 .. Smaller(c.offset + Page, slot.count)
<1>1. /\ c.nonce = slot.nonce /\ op = slot.op
      /\ Continue(op, c) = PageAt(slot, c.offset)
  BY DEF Continue, Error
<1>2. PageAt(slot, c.offset).ok
  BY <1>1
<1>q. QED  BY <1>1, <1>2 DEF PageAt, PageOf, Error

(* The first page of a fresh snapshot.                                     *)
LEMMA FirstPageGives ==
  ASSUME NEW s, PageAt(s, 0).ok
  PROVE  /\ PageAt(s, 0).nonce = s.nonce
         /\ PageAt(s, 0).items = 0 + 1 .. Smaller(0 + Page, s.count)
BY DEF PageAt, PageOf, Error

(* The lease is taken; a capture first discards the old snapshot.          *)
LEMMA RequestKeeps ==
  ASSUME IInv, NEW p \in Task, NEW j \in Requests, Request(p, j)
  PROVE  IInv'
<1>1. /\ pc[p] = "idle" /\ lock = None /\ lock' = p
      /\ job' = [job EXCEPT ![p] = j]
      /\ UNCHANGED <<epoch, epochs, minted, captured, expired>>
  BY DEF Request
<1>2. job' \in [Task -> Requests \cup {None}] /\ job'[p] = j
  BY <1>1 DEF IInv, TypeOK
<1>3. CASE j.cursor # None
  <2>1. /\ result' = [result EXCEPT ![p] = Continue(j.op, j.cursor)]
        /\ Goto(p, "close") /\ UNCHANGED <<slot, started, dead>>
    BY <1>3 DEF Request
  <2>2. /\ result'[p] = Continue(j.op, j.cursor)
        /\ result' = [q \in Task |-> result'[q]]
    BY <2>1 DEF IInv
  <2>3. pc'[p] = "close"
    BY <2>1 DEF Goto, IInv, TypeOK
  <2>4. Holds(p)'
    <3> SUFFICES ASSUME result'[p].ok
                 PROVE  /\ slot.op = j.op /\ slot.nonce = j.cursor.nonce
                        /\ result'[p].items = j.cursor.offset + 1 .. Smaller(j.cursor.offset + Page, slot.count)
      BY <1>2, <1>3, <2>1, <2>3 DEF Holds
    <3>q. QED  BY <2>2, ContinueGives
  <2>5. LeaseInv' /\ ResultInv' /\ pc' \in [Task -> Pcs]
    BY <1>1, <1>2, <2>1, <2>4, HolderStep DEF Pcs
  <2>6. TypeOK' /\ OrderInv' /\ SlotInv'
    BY <1>1, <1>2, <2>1, <2>5 DEF IInv, TypeOK, OrderInv, SlotInv, Pcs
  <2>q. QED  BY <2>2, <2>5, <2>6 DEF IInv
<1>4. CASE j.cursor = None
  <2>1. /\ slot' = None /\ started' = NoCapture
        /\ dead' = dead \cup 1 .. minted
        /\ Goto(p, "nonce") /\ UNCHANGED result
    BY <1>4 DEF Request
  <2>2. pc'[p] = "nonce"
    BY <2>1 DEF Goto, IInv, TypeOK
  <2>3. Holds(p)'
    BY <1>2, <1>4, <2>1, <2>2 DEF Holds
  <2>4. LeaseInv' /\ ResultInv' /\ pc' \in [Task -> Pcs]
    BY <1>1, <1>2, <2>1, <2>3, HolderStep DEF Pcs
  <2>5. dead' \subseteq 1 .. minted /\ 1 .. minted \subseteq Nonce
    BY <2>1, PackagesAssumption DEF IInv, TypeOK, OrderInv, Nonce
  <2>6. NoCapture \in Captures
    BY PackagesAssumption DEF NoCapture, Captures
  <2>7. TypeOK'
    <3>1. started' \in Captures /\ dead' \subseteq Nonce /\ lock' \in Task \cup {None}
      BY <1>1, <2>1, <2>5, <2>6
    <3>q. QED  BY <1>1, <1>2, <2>1, <2>4, <3>1 DEF IInv, TypeOK, Pcs, Captures
  <2>8. OrderInv' /\ SlotInv' /\ result' = [q \in Task |-> result'[q]]
    BY <1>1, <2>1, <2>5 DEF IInv, OrderInv, SlotInv
  <2>q. QED  BY <2>4, <2>7, <2>8 DEF IInv
<1>q. QED  BY <1>3, <1>4

(* A request that fails keeps what there is; its drop will clear it.       *)
LEMMA FailsKeeps ==
  ASSUME IInv, NEW p \in Task, pc[p] # "idle", Fails(p),
         UNCHANGED <<slot, lock, epoch, epochs, minted, captured, job, expired, started, dead>>
  PROVE  IInv'
<1>1. lock = p /\ job[p] \in Requests
  BY DEF IInv, LeaseInv
<1>2. /\ result' = [result EXCEPT ![p] = Error] /\ Goto(p, "close")
      /\ result'[p] = Error /\ pc'[p] = "close"
  BY DEF Fails, Goto, IInv, TypeOK
<1>3. Holds(p)'
  BY <1>2 DEF Holds, Error
<1>4. LeaseInv' /\ ResultInv' /\ pc' \in [Task -> Pcs]
  BY <1>1, <1>2, <1>3, HolderStep DEF Pcs
<1>5. TypeOK' /\ OrderInv' /\ SlotInv'
  BY <1>4 DEF IInv, TypeOK, OrderInv, SlotInv, Pcs
<1>6. result' = [q \in Task |-> result'[q]]
  BY <1>2 DEF IInv
<1>q. QED  BY <1>4, <1>5, <1>6 DEF IInv

(* A capture that is in time becomes the slot's snapshot.                  *)
LEMMA CaptureReturnsKeeps ==
  ASSUME IInv, NEW p \in Task, NEW ok \in BOOLEAN, NEW n \in 0 .. MaxRecords, CaptureReturns(p, ok, n)
  PROVE  IInv'
<1>1. /\ pc[p] = "capture" /\ lock = p /\ job[p] \in Requests
      /\ started.nonce = minted /\ minted \in Nonce \ dead /\ job[p].cursor = None
      /\ UNCHANGED <<lock, epoch, epochs, minted, job, expired, started, dead>>
  BY DEF CaptureReturns, IInv, LeaseInv
<1>2. CASE Fails(p) /\ UNCHANGED <<slot, captured>>
  BY <1>1, <1>2, FailsKeeps
<1>3. CASE ~(Fails(p) /\ UNCHANGED <<slot, captured>>)
  <2> DEFINE s == [nonce |-> started.nonce, count |-> n, op |-> job[p].op,
                   epoch |-> epoch, age |-> started.age]
  <2>1. /\ epoch # 0 /\ slot' = s
        /\ captured' = [captured EXCEPT ![s.nonce] = [count |-> n, op |-> s.op]]
        /\ result' = [result EXCEPT ![p] = PageAt(s, 0)]
        /\ Goto(p, "close")
    BY <1>3 DEF CaptureReturns
  <2>2. s \in Snapshots
    BY <1>1, <2>1 DEF IInv, TypeOK, Snapshots, Requests
  <2>3. s.nonce = minted /\ s.op = job[p].op /\ s.count = n /\ s.epoch = epoch
    BY <1>1
  <2> HIDE DEF s
  <2>4. /\ result'[p] = PageAt(s, 0) /\ result' = [q \in Task |-> result'[q]]
        /\ pc'[p] = "close"
    BY <2>1 DEF IInv, TypeOK, Goto
  <2>5. Holds(p)'
    <3> SUFFICES ASSUME result'[p].ok
                 PROVE  LET c == job[p].cursor
                            o == IF c = None THEN 0 ELSE c.offset
                        IN  /\ s.op = job[p].op
                            /\ s.nonce = IF c = None THEN result'[p].nonce ELSE c.nonce
                            /\ result'[p].items = o + 1 .. Smaller(o + Page, s.count)
      BY <1>1, <2>1, <2>4 DEF Holds
    <3>q. QED  BY <1>1, <2>3, <2>4, FirstPageGives
  <2>6. LeaseInv' /\ ResultInv' /\ pc' \in [Task -> Pcs]
    BY <1>1, <2>1, <2>5, HolderStep DEF Pcs
  <2>7. /\ captured' \in [Nonce -> [count : 0 .. MaxRecords, op : Operation] \cup {None}]
        /\ captured'[minted] = [count |-> s.count, op |-> s.op]
    BY <1>1, <2>1, <2>2, <2>3 DEF IInv, TypeOK, Snapshots
  <2>8. TypeOK'
    BY <1>1, <2>1, <2>2, <2>6, <2>7 DEF IInv, TypeOK, Pcs, Snapshots
  <2>9. OrderInv' /\ SlotInv'
    BY <1>1, <2>1, <2>3, <2>7 DEF IInv, TypeOK, OrderInv, SlotInv
  <2>q. QED  BY <2>4, <2>6, <2>8, <2>9 DEF IInv
<1>q. QED  BY <1>2, <1>3

(* Every step of the requests and of their surroundings keeps the          *)
(* invariant.                                                              *)
LEMMA Kept == IInv /\ [Next]_vars => IInv'
<1> SUFFICES ASSUME IInv, [Next]_vars PROVE IInv'
  OBVIOUS
<1>1. ASSUME NEW p \in Task, NEW ok \in BOOLEAN, DrawNonce(p, ok)
      PROVE  IInv'
  <2>1. /\ pc[p] = "nonce" /\ lock = p /\ job[p] \in Requests /\ job[p].cursor = None /\ slot = None
        /\ UNCHANGED <<slot, lock, epoch, epochs, captured, job, expired, dead>>
    BY <1>1 DEF DrawNonce, IInv, LeaseInv
  <2>2. CASE Fails(p) /\ UNCHANGED <<minted, started>>
    BY <2>1, <2>2, FailsKeeps
  <2>3. CASE ~(Fails(p) /\ UNCHANGED <<minted, started>>)
    <3>1. /\ minted < MaxNonce /\ minted' = minted + 1
          /\ started' = [started EXCEPT !.nonce = minted + 1, !.previous = epoch]
          /\ Goto(p, "capture") /\ result' = result
      BY <1>1, <2>3 DEF DrawNonce
    <3>2. minted' \in Nonce \ dead /\ minted' \in 0 .. MaxNonce /\ 1 .. minted \subseteq 1 .. minted'
      BY <3>1, PackagesAssumption DEF IInv, TypeOK, OrderInv, Nonce
    <3>3. started' \in Captures /\ started'.nonce = minted'
      <4>1. started \in Captures /\ minted + 1 \in 0 .. MaxNonce /\ epoch \in 0 .. MaxEpoch
        BY <3>1, <3>2 DEF IInv, TypeOK, Captures
      <4>q. QED  BY <3>1, <4>1 DEF Captures
    <3>4. pc'[p] = "capture"
      BY <3>1 DEF Goto, IInv, TypeOK
    <3>5. Holds(p)'
      BY <2>1, <3>2, <3>3, <3>4 DEF Holds
    <3>6. LeaseInv' /\ ResultInv' /\ pc' \in [Task -> Pcs]
      BY <2>1, <3>1, <3>5, HolderStep DEF Pcs
    <3>7. TypeOK'
      BY <2>1, <3>2, <3>3, <3>6 DEF IInv, TypeOK, Pcs, Captures
    <3>8. OrderInv' /\ SlotInv'
      BY <2>1, <3>2 DEF IInv, OrderInv, SlotInv
    <3>q. QED  BY <3>1, <3>6, <3>7, <3>8 DEF IInv
  <2>q. QED  BY <2>2, <2>3
<1>2. ASSUME NEW p \in Task, Close(p)
      PROVE  IInv'
  <2>1. /\ pc[p] = "close" /\ lock = p /\ job[p] \in Requests
        /\ result' = IF expired[p] THEN [result EXCEPT ![p] = Error] ELSE result
        /\ Goto(p, "audit")
        /\ UNCHANGED <<slot, lock, epoch, epochs, minted, captured, job, expired, started, dead>>
    BY <1>2 DEF Close, IInv, LeaseInv
  <2>2. pc'[p] = "audit" /\ result'[p] \in {Error, result[p]} /\ result' = [q \in Task |-> result'[q]]
    BY <2>1 DEF Goto, IInv, TypeOK
  <2>3. Holds(p)'
    <3>1. CASE result'[p] = Error
      BY <2>2, <3>1 DEF Holds, Error
    <3>2. CASE result'[p] = result[p]
      BY <2>1, <2>2, <3>2 DEF Holds, IInv, ResultInv
    <3>q. QED  BY <2>2, <3>1, <3>2
  <2>4. LeaseInv' /\ ResultInv' /\ pc' \in [Task -> Pcs]
    BY <2>1, <2>3, HolderStep DEF Pcs
  <2>5. TypeOK' /\ OrderInv' /\ SlotInv'
    BY <2>1, <2>4 DEF IInv, TypeOK, OrderInv, SlotInv, Pcs
  <2>q. QED  BY <2>2, <2>4, <2>5 DEF IInv
<1>3. ASSUME NEW p \in Task, NEW ok \in BOOLEAN, Finish(p, ok)
      PROVE  IInv'
  <2>1. Drop(p, TRUE) \/ Drop(p, FALSE)
    BY <1>3 DEF Finish, Drop
  <2>q. QED  BY <1>3, <2>1, DropKeepsInv DEF Finish
<1>4. ASSUME NEW p \in Task, Timer(p) \/ Cancel(p)
      PROVE  IInv'
  BY <1>4, FailsKeeps, DropKeepsInv DEF Timer, Cancel
<1>5. ASSUME NEW p \in Task, Expire(p)
      PROVE  IInv'
  <2>1. /\ expired' = [expired EXCEPT ![p] = TRUE]
        /\ UNCHANGED <<slot, lock, epoch, epochs, minted, captured, pc, job, result, started, dead>>
    BY <1>5 DEF Expire
  <2>2. TypeOK'
    BY <2>1 DEF IInv, TypeOK
  <2>q. QED  BY <2>1, <2>2 DEF IInv, LeaseInv, OrderInv, SlotInv, ResultInv
<1>6. CASE Tick
  <2>1. UNCHANGED <<lock, epoch, epochs, minted, captured, pc, job, result, expired>>
    BY <1>6 DEF Tick
  <2>2. CASE slot = None
    <3>1. slot' = None /\ dead' = dead
      BY <1>6, <2>2 DEF Tick
    <3>2. started' \in Captures /\ started'.nonce = started.nonce
      BY <1>6, PackagesAssumption DEF Tick, IInv, TypeOK, Captures
    <3>3. TypeOK'
      BY <2>1, <3>1, <3>2 DEF IInv, TypeOK, Captures
    <3>q. QED  BY <2>1, <2>2, <3>1, <3>2, <3>3 DEF IInv, LeaseInv, OrderInv, SlotInv, ResultInv
  <2>3. CASE slot # None
    <3>1. slot \in Snapshots /\ slot.nonce = minted /\ slot.nonce \in 1 .. minted
      BY <2>3 DEF IInv, TypeOK, Snapshots, SlotInv, Nonce
    <3>2. /\ slot' \in Snapshots /\ slot'.nonce = slot.nonce /\ slot'.count = slot.count
          /\ slot'.op = slot.op /\ slot'.epoch = slot.epoch
          /\ slot.age = TTL => slot'.age = TTL
      BY <1>6, <2>3, <3>1, PackagesAssumption DEF Tick, Snapshots
    <3>3. dead' = IF slot'.age = TTL THEN dead \cup {slot.nonce} ELSE dead
      BY <1>6, <2>3 DEF Tick
    <3>4. \A p \in Task : pc[p] \notin {"nonce", "capture"}
      BY <2>3 DEF IInv, LeaseInv
    <3>5. started' = started
      <4>1. lock # None => lock \in Task
        BY DEF IInv, TypeOK
      <4>q. QED  BY <1>6, <3>4, <4>1 DEF Tick
    <3>6. TypeOK'
      BY <2>1, <3>1, <3>2, <3>3, <3>5 DEF IInv, TypeOK, Snapshots
    <3>7. LeaseInv' /\ OrderInv'
      BY <2>1, <3>1, <3>3, <3>4 DEF IInv, LeaseInv, OrderInv
    <3>8. SlotInv'
      BY <2>1, <2>3, <3>2, <3>3 DEF IInv, SlotInv
    <3>9. ResultInv'
      BY <2>1, <2>3, <3>2 DEF IInv, ResultInv
    <3>q. QED  BY <2>1, <3>6, <3>7, <3>8, <3>9 DEF IInv
  <2>q. QED  BY <2>2, <2>3
<1>7. CASE EpochChange
  <2>1. /\ \/ epochs' = epochs + 1 /\ epoch' = epochs + 1 /\ epochs < MaxEpoch
           \/ epochs' = epochs /\ epoch' = 0
        /\ dead' = IF slot # None THEN dead \cup {slot.nonce} ELSE dead
        /\ UNCHANGED <<slot, lock, minted, captured, pc, job, result, expired, started>>
    BY <1>7 DEF EpochChange
  <2>2. slot # None => /\ slot.nonce \in Nonce /\ slot.nonce \in 1 .. minted
                       /\ slot.epoch \in 1 .. epochs
    BY DEF IInv, TypeOK, SlotInv, Nonce
  <2>3. dead' \subseteq Nonce /\ dead' \subseteq 1 .. minted
    BY <2>1, <2>2 DEF IInv, TypeOK, OrderInv
  <2>4. epoch' \in 0 .. MaxEpoch /\ epochs' \in 0 .. MaxEpoch /\ epoch' \in {0, epochs'}
    BY <2>1, PackagesAssumption DEF IInv, TypeOK
  <2>5. TypeOK' /\ OrderInv'
    BY <2>1, <2>3, <2>4 DEF IInv, TypeOK, OrderInv
  <2>6. LeaseInv' /\ ResultInv'
    BY <2>1 DEF IInv, LeaseInv, ResultInv
  <2>7. SlotInv'
    <3>1. slot # None => slot.epoch # epoch' /\ slot.epoch <= epochs'
      BY <2>1, <2>2 DEF IInv, TypeOK
    <3>q. QED  BY <2>1, <3>1 DEF IInv, SlotInv
  <2>q. QED  BY <2>1, <2>5, <2>6, <2>7 DEF IInv
<1>8. CASE UNCHANGED vars
  BY <1>8 DEF vars, IInv, TypeOK, LeaseInv, OrderInv, SlotInv, ResultInv
<1>q. QED
  BY <1>1, <1>2, <1>3, <1>4, <1>5, <1>6, <1>7, <1>8, RequestKeeps, CaptureReturnsKeeps DEF Next

(* Every reachable state of requests and slot satisfies the invariant.     *)
THEOREM InvariantHolds == Spec => []IInv
<1>1. Init => IInv
  <2> SUFFICES ASSUME Init PROVE IInv
    OBVIOUS
  <2>1. TypeOK
    <3>1. NoCapture \in Captures /\ 0 \in 0 .. MaxEpoch /\ 0 \in 0 .. MaxNonce
      BY PackagesAssumption DEF NoCapture, Captures
    <3>q. QED  BY <3>1 DEF Init, TypeOK, Captures
  <2>2. LeaseInv /\ OrderInv /\ SlotInv /\ ResultInv
    BY PackagesAssumption DEF Init, LeaseInv, OrderInv, SlotInv, ResultInv
  <2>3. result = [p \in Task |-> result[p]]
    BY DEF Init
  <2>q. QED  BY <2>1, <2>2, <2>3 DEF IInv
<1>q. QED  BY <1>1, Kept, PTL DEF Spec

(* A snapshot that outlives its request is the latest capture and unspoilt *)
(* (PageLease::drop, Packages::lease).                                     *)
THEOREM SlotRests == Spec => []RestingSlot
<1>1. IInv => RestingSlot
  BY DEF IInv, SlotInv, RestingSlot
<1>q. QED  BY InvariantHolds, <1>1, PTL

(* A page a client gets is the slice its cursor names of the snapshot its  *)
(* cursor names, which is still to be served (page, preserve).             *)
THEOREM PagesAreCurrent == Spec => PageIsCurrent
<1> DEFINE Current ==
      \A p \in Task : Answers(p) =>
       LET c == job[p].cursor
           n == IF c = None THEN result[p].nonce ELSE c.nonce
           o == IF c = None THEN 0 ELSE c.offset
       IN  /\ n \notin dead /\ captured[n] # None
           /\ captured[n].op = job[p].op
           /\ result[p].items = o + 1 .. Smaller(o + Page, captured[n].count)
<1>1. IInv /\ [Next]_vars => [Current]_vars
  <2> SUFFICES ASSUME IInv, Next, NEW p \in Task, Answers(p)
               PROVE  LET c == job[p].cursor
                          n == IF c = None THEN result[p].nonce ELSE c.nonce
                          o == IF c = None THEN 0 ELSE c.offset
                      IN  /\ n \notin dead /\ captured[n] # None
                          /\ captured[n].op = job[p].op
                          /\ result[p].items = o + 1 .. Smaller(o + Page, captured[n].count)
    BY DEF Answers, vars
  <2>1. pc[p] = "audit" /\ pc'[p] = "idle" /\ lock = p /\ result[p].ok /\ slot' # None
    BY DEF Answers
  <2>2. \A q \in Task : q # p => pc[q] = "idle"
    BY <2>1 DEF IInv, LeaseInv
  <2>3. PICK audited \in BOOLEAN : Finish(p, audited)
    <3>1. ASSUME NEW l, NEW q \in Task, l # "idle", Goto(q, l) PROVE FALSE
      BY <2>1, <3>1 DEF Goto, IInv, TypeOK
    <3>2. ASSUME NEW q \in Task, NEW j, Request(q, j) PROVE FALSE
      BY <3>1, <3>2 DEF Request
    <3>3. ASSUME NEW q \in Task, NEW ok, DrawNonce(q, ok) PROVE FALSE
      BY <3>1, <3>3 DEF DrawNonce, Fails
    <3>4. ASSUME NEW q \in Task, NEW ok, NEW n, CaptureReturns(q, ok, n) PROVE FALSE
      BY <3>1, <3>4 DEF CaptureReturns, Fails
    <3>5. ASSUME NEW q \in Task, Close(q) \/ Timer(q) PROVE FALSE
      BY <3>1, <3>5 DEF Close, Timer, Fails
    <3>6. ASSUME NEW q \in Task, Cancel(q) PROVE FALSE
      BY <2>1, <3>6 DEF Cancel, Drop
    <3>7. ASSUME NEW q \in Task, NEW ok, Finish(q, ok) PROVE q = p
      BY <2>2, <3>7 DEF Finish
    <3>8. pc' # pc
      BY <2>1
    <3>q. QED
      BY <3>2, <3>3, <3>4, <3>5, <3>6, <3>7, <3>8 DEF Next, Expire, Tick, EpochChange
  <2>4. slot # None /\ slot.age < TTL /\ slot.epoch = epoch
    BY <2>1, <2>3 DEF Finish, Drop, Preserves, Usable
  <2>5. slot \in Snapshots
    BY <2>4 DEF IInv, TypeOK, Snapshots
  <2>6. slot.nonce \notin dead
    <3>1. slot.age # TTL
      BY <2>4, <2>5, PackagesAssumption DEF Snapshots
    <3>q. QED  BY <2>4, <3>1 DEF IInv, SlotInv
  <2>7. /\ captured[slot.nonce] # None
        /\ captured[slot.nonce].op = slot.op /\ captured[slot.nonce].count = slot.count
    <3>1. captured[slot.nonce] = [count |-> slot.count, op |-> slot.op]
      BY <2>4 DEF IInv, SlotInv
    <3>2. captured[slot.nonce] \in [count : 0 .. MaxRecords, op : Operation]
      BY <2>5, <3>1 DEF Snapshots
    <3>q. QED  BY <3>1, <3>2, PackagesAssumption
  <2>q. QED  BY <2>1, <2>4, <2>6, <2>7 DEF IInv, ResultInv
<1>2. PageIsCurrent <=> [][Current]_vars
  BY DEF PageIsCurrent
<1>q. QED  BY InvariantHolds, <1>1, <1>2, PTL DEF Spec

-----------------------------------------------------------------------------
(* Arithmetic of aligned offsets: what \div and % mean.                    *)
LEMMA Division ==
  ASSUME NEW P \in Nat \ {0}, NEW a \in Nat
  PROVE  a = P * (a \div P) + (a % P) /\ a % P \in 0 .. P - 1 /\ a \div P \in Nat
OBVIOUS

(* No multiple lies strictly between 0 and P.                              *)
LEMMA NoMultiple ==
  ASSUME NEW P \in Nat \ {0}, NEW q \in Int, P * q >= 0, P * q < P
  PROVE  q = 0
<1>1. CASE q >= 1
  BY <1>1
<1>2. CASE q <= -1
  BY <1>2
<1>q. QED  BY <1>1, <1>2

(* A multiple is aligned,                                                  *)
LEMMA Multiple ==
  ASSUME NEW P \in Nat \ {0}, NEW k \in Nat
  PROVE  P * k \in Nat /\ (P * k) % P = 0
<1>1. P * k \in Nat
  OBVIOUS
<1>2. PICK a \in Nat : a = P * k
  BY <1>1
<1>3. PICK r \in 0 .. P - 1 : r = a % P
  BY Division
<1>4. PICK q \in Nat : a = P * q + r
  BY <1>3, Division
<1>5. P * (k - q) = P * k - P * q
  OBVIOUS
<1>6. P * (k - q) = r
  <2>1. P * k = P * q + r /\ P * q \in Int
    BY <1>2, <1>4
  <2>q. QED  BY <1>5, <2>1
<1>7. k - q = 0
  BY <1>6, NoMultiple
<1>8. r = 0
  BY <1>6, <1>7
<1>q. QED  BY <1>1, <1>2, <1>3, <1>8

(* and what is aligned is a multiple.                                      *)
LEMMA Aligned ==
  ASSUME NEW P \in Nat \ {0}, NEW a \in Nat, a % P = 0
  PROVE  \E k \in Nat : a = P * k
<1>1. PICK q \in Nat : a = P * q + (a % P)
  BY Division
<1>2. P * q \in Nat
  OBVIOUS
<1>q. QED  BY <1>1, <1>2

(* The neighbours of an aligned offset.                                    *)
LEMMA Neighbours ==
  ASSUME NEW P \in Nat \ {0}, NEW a \in Nat, a % P = 0
  PROVE  /\ (a + P) % P = 0
         /\ a # 0 => a - P \in Nat /\ (a - P) % P = 0
<1>1. PICK k \in Nat : a = P * k
  BY Aligned
<1>2. (a + P) % P = 0
  <2>1. PICK j \in Nat : j = k + 1
    OBVIOUS
  <2>2. a + P = P * j
    BY <1>1, <2>1
  <2>q. QED  BY <2>2, Multiple
<1>3. ASSUME a # 0 PROVE a - P \in Nat /\ (a - P) % P = 0
  <2>1. k # 0
    BY <1>1, <1>3
  <2>2. a - P = P * (k - 1) /\ k - 1 \in Nat
    BY <1>1, <2>1
  <2>q. QED  BY <2>2, Multiple
<1>q. QED  BY <1>2, <1>3

(* Two aligned offsets are a page apart.                                   *)
LEMMA Apart ==
  ASSUME NEW P \in Nat \ {0}, NEW a \in Nat, NEW b \in Nat, a % P = 0, b % P = 0, a < b
  PROVE  a + P <= b
<1>1. PICK k \in Nat : a = P * k
  BY Aligned
<1>2. PICK j \in Nat : b = P * j
  BY Aligned
<1>3. P * (j - k) > 0
  BY <1>1, <1>2
<1>4. j - k >= 1
  BY <1>3
<1>5. P * (j - k) >= P
  BY <1>4
<1>q. QED  BY <1>1, <1>2, <1>5

(* Every position lies on the page of an aligned offset.                   *)
LEMMA Floor ==
  ASSUME NEW P \in Nat \ {0}, NEW a \in Nat
  PROVE  \E o \in Nat : o % P = 0 /\ o <= a /\ a < o + P
<1>1. PICK q \in Nat, r \in 0 .. P - 1 : a = P * q + r
  BY Division
<1>2. P * q \in Nat /\ (P * q) % P = 0
  BY Multiple
<1>3. PICK o \in Nat : o = P * q
  BY <1>2
<1>q. QED  BY <1>1, <1>2, <1>3

(* A set of numbers has a least one: induction, as a fact about sets.      *)
LEMMA Least ==
  ASSUME NEW T, T \subseteq Nat, T # {}
  PROVE  \E x \in T : \A y \in T : x <= y
<1> DEFINE R == {p \in Nat \X Nat : p[1] < p[2]}
<1>1. IsWellFoundedOn(R, Nat)
  BY NatLessThanWellFounded DEF OpToRel
<1>2. \A x, y \in Nat : x < y => <<x, y>> \in R
  OBVIOUS
<1>h. HIDE DEF R
<1>3. PICK x \in T : \A y \in T : ~(<<y, x>> \in R)
  BY <1>1, WFMin
<1>4. \A y \in T : ~(y < x)
  BY <1>2, <1>3
<1>q. QED  BY <1>4

(* PackageObservation::page at an aligned offset of a snapshot.            *)
LEMMA PageFacts ==
  ASSUME NEW s, s.count \in 0 .. MaxRecords, s.nonce \in Nonce,
         NEW o \in Offset, o % Page = 0, o = 0 \/ o < s.count
  PROVE  /\ PageAt(s, o).ok
         /\ PageAt(s, o).items = o + 1 .. Smaller(o + Page, s.count)
         /\ IF o + Page < s.count
              THEN PageAt(s, o).next = [nonce |-> s.nonce, offset |-> o + Page] /\ PageAt(s, o).next # None
              ELSE PageAt(s, o).next = None
<1>0. Page \in Nat \ {0} /\ MaxRecords \in Nat /\ o \in Nat /\ s.count \in Nat
  BY PackagesAssumption DEF Offset
<1>1. PICK end : end = Smaller(o + Page, s.count)
  OBVIOUS
<1>2. end < s.count <=> o + Page < s.count
  BY <1>0, <1>1 DEF Smaller
<1>3. ~(o % Page # 0 \/ (o # 0 /\ o >= s.count))
  BY <1>0
<1>4. PageAt(s, o) = PageOf(s.nonce, s.op, o, o + 1 .. end,
                            IF end < s.count THEN [nonce |-> s.nonce, offset |-> end] ELSE None)
  BY <1>1, <1>3 DEF PageAt
<1>5. /\ PageAt(s, o).ok /\ PageAt(s, o).items = o + 1 .. end
      /\ PageAt(s, o).next = IF end < s.count THEN [nonce |-> s.nonce, offset |-> end] ELSE None
  BY <1>4 DEF PageOf
<1>6. CASE o + Page < s.count
  <2>1. end = o + Page
    BY <1>0, <1>1, <1>6 DEF Smaller
  <2>2. PageAt(s, o).next = [nonce |-> s.nonce, offset |-> o + Page]
    BY <1>2, <1>5, <1>6, <2>1
  <2>3. o + Page \in 0 .. MaxRecords
    BY <1>0, <1>6
  <2>4. [nonce |-> s.nonce, offset |-> o + Page] \in [nonce : 1 .. MaxNonce, offset : 0 .. MaxRecords]
    BY <2>3 DEF Nonce
  <2>q. QED  BY <1>1, <1>5, <1>6, <2>2, <2>4, PackagesAssumption
<1>7. CASE ~(o + Page < s.count)
  BY <1>1, <1>2, <1>5, <1>7
<1>q. QED  BY <1>6, <1>7

(* The aligned offsets of a snapshot are the offsets of its chain.         *)
LEMMA ChainIsAligned ==
  ASSUME NEW s, s.count \in 0 .. MaxRecords, s.nonce \in Nonce
  PROVE  Chain(s) = {o \in Offset : o % Page = 0 /\ (o = 0 \/ o < s.count)}
<1> DEFINE A == {o \in Offset : o % Page = 0 /\ (o = 0 \/ o < s.count)}
<1> DEFINE Closed(S) == 0 \in S /\ \A l \in Links(s) : l[1] \in S => l[2] \in S
<1>0. Page \in Nat \ {0} /\ MaxRecords \in Nat /\ s.count \in Nat
  BY PackagesAssumption
<1>1. \A o : o \in Chain(s) <=> o \in Offset /\ \A S \in SUBSET Offset : Closed(S) => o \in S
  BY DEF Chain
<1>2. 0 \in A
  <2>1. 0 \in Offset /\ 0 = Page * 0
    BY <1>0 DEF Offset
  <2>2. 0 % Page = 0
    BY <1>0, <2>1, Multiple
  <2>q. QED  BY <2>1, <2>2
<1>3. \A o \in A : o \in Nat /\ o % Page = 0 /\ o \in Offset
  BY <1>0 DEF Offset
<1>4. \A o \in A : o + Page < s.count =>
        <<o, o + Page>> \in Links(s) /\ o + Page \in A
  <2> SUFFICES ASSUME NEW o \in A, o + Page < s.count
               PROVE  <<o, o + Page>> \in Links(s) /\ o + Page \in A
    OBVIOUS
  <2>1. /\ PageAt(s, o).ok /\ PageAt(s, o).next # None
        /\ PageAt(s, o).next = [nonce |-> s.nonce, offset |-> o + Page]
    BY <1>3, PageFacts
  <2>2. PageAt(s, o).next.offset = o + Page
    BY <2>1
  <2>3. <<o, o + Page>> \in Links(s)
    BY <1>3, <2>1, <2>2 DEF Links
  <2>4. o + Page \in Offset
    BY <1>0, <1>3 DEF Offset
  <2>5. (o + Page) % Page = 0
    BY <1>0, <1>3, Neighbours
  <2>q. QED  BY <2>3, <2>4, <2>5
<1>5. ASSUME NEW l \in Links(s), l[1] \in A PROVE l[2] \in A
  <2>1. PICK o \in Offset : /\ PageAt(s, o).ok /\ PageAt(s, o).next # None
                            /\ l = <<o, PageAt(s, o).next.offset>>
    BY DEF Links
  <2>2. o \in A
    BY <1>5, <2>1
  <2>3. o + Page < s.count /\ PageAt(s, o).next = [nonce |-> s.nonce, offset |-> o + Page]
    BY <1>3, <2>1, <2>2, PageFacts
  <2>4. l[2] = o + Page
    BY <2>1, <2>3
  <2>q. QED  BY <1>4, <2>2, <2>3, <2>4
<1>6. Closed(A) /\ A \in SUBSET Offset
  BY <1>2, <1>5
<1>7. Chain(s) \subseteq A
  BY <1>1, <1>6
<1>8. 0 \in Chain(s)
  BY <1>1, <1>2
<1>9. ASSUME NEW o \in Chain(s), NEW q \in Offset, <<o, q>> \in Links(s) PROVE q \in Chain(s)
  <2> SUFFICES ASSUME NEW S \in SUBSET Offset, Closed(S) PROVE q \in S
    BY <1>1
  <2>1. o \in S
    BY <1>1
  <2>2. <<o, q>>[1] = o /\ <<o, q>>[2] = q
    OBVIOUS
  <2>q. QED  BY <1>9, <2>1, <2>2
<1>h. HIDE DEF A, Closed
<1>10. A \subseteq Chain(s)
  <2> DEFINE T == A \ Chain(s)
  <2> SUFFICES ASSUME T # {} PROVE FALSE
    OBVIOUS
  <2>1. PICK x \in T : \A y \in T : x <= y
    <3>1. T \subseteq Nat
      BY <1>3
    <3>q. QED  BY <3>1, Least
  <2>2. x # 0 /\ x \in A /\ x \notin Chain(s)
    BY <1>8, <2>1
  <2>3. x - Page \in Nat /\ (x - Page) % Page = 0
    BY <1>0, <1>3, <2>2, Neighbours
  <2>4. x < s.count /\ x \in Offset /\ x \in Nat
    BY <1>3, <2>2 DEF A
  <2>5. PICK y \in Nat : y = x - Page
    BY <2>3
  <2>6. y + Page = x /\ y < x
    BY <1>0, <2>4, <2>5
  <2>7. y \in A
    <3>1. y \in Offset /\ y < s.count
      BY <1>0, <2>4, <2>6 DEF Offset
    <3>q. QED  BY <2>3, <2>5, <3>1 DEF A
  <2>8. y \in Chain(s)
    BY <2>1, <2>4, <2>6, <2>7
  <2>9. <<y, x>> \in Links(s)
    BY <1>4, <2>4, <2>6, <2>7
  <2>q. QED  BY <1>9, <2>2, <2>4, <2>8, <2>9
<1>q. QED  BY <1>7, <1>10 DEF A

(* The pages of a chain are the snapshot, each record on one page.         *)
LEMMA ChainCovers ==
  ASSUME NEW s, s.count \in 0 .. MaxRecords, s.nonce \in Nonce
  PROVE  Covers(s)
<1> DEFINE A == {o \in Offset : o % Page = 0 /\ (o = 0 \/ o < s.count)}
<1> DEFINE pages == {PageAt(s, o) : o \in A}
<1>0. Page \in Nat \ {0} /\ MaxRecords \in Nat /\ s.count \in Nat
  BY PackagesAssumption
<1>1. Chain(s) = A
  BY ChainIsAligned
<1>2. \A o \in A : /\ o \in Nat /\ o % Page = 0 /\ o \in Offset /\ (o = 0 \/ o < s.count)
                   /\ PageAt(s, o).ok
                   /\ PageAt(s, o).items = o + 1 .. Smaller(o + Page, s.count)
                   /\ IF o + Page < s.count
                        THEN PageAt(s, o).next = [nonce |-> s.nonce, offset |-> o + Page]
                        ELSE PageAt(s, o).next = None
  <2> SUFFICES ASSUME NEW o \in A
               PROVE  /\ o \in Nat /\ o % Page = 0 /\ o \in Offset /\ (o = 0 \/ o < s.count)
                      /\ PageAt(s, o).ok
                      /\ PageAt(s, o).items = o + 1 .. Smaller(o + Page, s.count)
                      /\ IF o + Page < s.count
                           THEN PageAt(s, o).next = [nonce |-> s.nonce, offset |-> o + Page]
                           ELSE PageAt(s, o).next = None
    OBVIOUS
  <2>1. o % Page = 0 /\ o \in Offset /\ (o = 0 \/ o < s.count)
    OBVIOUS
  <2>2. o \in Nat
    BY <1>0, <2>1 DEF Offset
  <2>q. QED  BY <2>1, <2>2, PageFacts
<1>3. \A o \in Nat : o % Page = 0 /\ o < s.count => o \in A
  BY <1>0 DEF Offset
<1>h. HIDE DEF A
<1>4. ASSUME NEW g \in pages PROVE g.ok /\ (g.next # None => Parses(g.next))
  <2>1. PICK o \in A : g = PageAt(s, o)
    OBVIOUS
  <2>2. ASSUME g.next # None PROVE Parses(g.next)
    <3>1. o + Page < s.count /\ g.next = [nonce |-> s.nonce, offset |-> o + Page]
      BY <1>2, <2>1, <2>2
    <3>2. g.next.offset = o + Page
      BY <3>1
    <3>3. (o + Page) % Page = 0
      BY <1>0, <1>2, Neighbours
    <3>4. o + Page # 0 /\ o + Page < MaxRecords
      BY <1>0, <1>2, <3>1
    <3>q. QED  BY <3>2, <3>3, <3>4 DEF Parses
  <2>q. QED  BY <1>2, <2>1, <2>2
<1>5. \A i : i \in 1 .. s.count => \E g \in pages : i \in g.items
  <2> SUFFICES ASSUME NEW i \in 1 .. s.count PROVE \E g \in pages : i \in g.items
    OBVIOUS
  <2>1. i - 1 \in Nat /\ i \in Nat
    OBVIOUS
  <2>2. PICK o \in Nat : o % Page = 0 /\ o <= i - 1 /\ i - 1 < o + Page
    BY <1>0, <2>1, Floor
  <2>3. o \in A
    BY <1>0, <1>3, <2>1, <2>2
  <2>4. i \in o + 1 .. Smaller(o + Page, s.count)
    BY <1>0, <2>1, <2>2 DEF Smaller
  <2>5. PageAt(s, o) \in pages
    BY <2>3
  <2>6. i \in PageAt(s, o).items
    BY <1>2, <2>3, <2>4
  <2>q. QED  BY <2>5, <2>6
<1>6. ASSUME NEW g \in pages PROVE g.items \subseteq 1 .. s.count
  <2>1. PICK o \in A : g = PageAt(s, o)
    OBVIOUS
  <2>2. o \in Nat /\ g.items = o + 1 .. Smaller(o + Page, s.count)
    BY <1>2, <2>1
  <2>3. o + 1 .. Smaller(o + Page, s.count) \subseteq 1 .. s.count
    BY <1>0, <2>2 DEF Smaller
  <2>q. QED  BY <2>2, <2>3
<1>7. UNION {g.items : g \in pages} = 1 .. s.count
  BY <1>5, <1>6
<1>8. ASSUME NEW o \in A, NEW q \in A, o < q
      PROVE  PageAt(s, o).items \cap PageAt(s, q).items = {}
  <2>1. o + Page <= q
    BY <1>0, <1>2, <1>8, Apart
  <2>2. o \in Nat /\ q \in Nat
    BY <1>2
  <2>3. (o + 1 .. Smaller(o + Page, s.count)) \cap (q + 1 .. Smaller(q + Page, s.count)) = {}
    BY <1>0, <2>1, <2>2 DEF Smaller
  <2>q. QED  BY <1>2, <2>3
<1>9. ASSUME NEW g \in pages, NEW h \in pages, g # h PROVE g.items \cap h.items = {}
  <2>1. PICK o \in A, q \in A : g = PageAt(s, o) /\ h = PageAt(s, q)
    OBVIOUS
  <2>2. o \in Nat /\ q \in Nat /\ o # q
    BY <1>2, <1>9, <2>1
  <2>3. o < q \/ q < o
    BY <2>2
  <2>q. QED  BY <1>8, <2>1, <2>3
<1>q. QED  BY <1>1, <1>4, <1>7, <1>9 DEF Covers

(* Following next_cursor from the first page gives every record of the     *)
(* snapshot once, for every count, every page size and every bound on the  *)
(* records (PackageObservation::page, PackageCursor::parse).               *)
THEOREM ChainsAreComplete == Spec => []ChainIsComplete
<1>1. IInv => ChainIsComplete
  <2> SUFFICES ASSUME IInv, slot # None PROVE Covers(slot)
    BY DEF ChainIsComplete
  <2>1. slot \in Snapshots
    BY DEF IInv, TypeOK, Snapshots
  <2>2. slot.count \in 0 .. MaxRecords /\ slot.nonce \in Nonce
    BY <2>1 DEF Snapshots
  <2>q. QED  BY <2>2, ChainCovers
<1>q. QED  BY InvariantHolds, <1>1, PTL
=============================================================================
