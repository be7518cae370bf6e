------------------------------ MODULE Packages ------------------------------
(***************************************************************************)
(* Paged package observations (crates/runtime/src/packages.rs,             *)
(* crates/core/src/packages.rs, and the page branch of                     *)
(* Dispatcher::invoke): one private snapshot slot, leased without waiting  *)
(* for a whole request, completion audit included.  The lease clears the   *)
(* slot when it is dropped, unless the page was preserved.                 *)
(*                                                                         *)
(* Nonces are 128 random bits; fresh ones are modelled as fresh numbers.   *)
(* A snapshot's records are its positions 1..count, sorted once.           *)
(***************************************************************************)
EXTENDS Naturals, FiniteSets

CONSTANTS Task,        \* the dispatcher's max_concurrent slots
          Operation,   \* catalog names of package page operations
          Page,        \* PACKAGE_PAGE_RECORDS
          MaxRecords,  \* MAX_PACKAGE_RECORDS
          TTL,         \* 120 s, in ticks
          MaxNonce,    \* bound on captures
          MaxEpoch,    \* bound on connections
          None

ASSUME PackagesAssumption ==
  /\ Page \in Nat \ {0} /\ MaxRecords \in Nat /\ TTL \in Nat \ {0}
  /\ MaxNonce \in Nat /\ MaxEpoch \in Nat
  /\ None \notin Task \cup Operation
  /\ None \notin [count : 0 .. MaxRecords, op : Operation]
  /\ None \notin [nonce : 1 .. MaxNonce, offset : 0 .. MaxRecords]

VARIABLES slot,            \* Packages.slot
          lock,            \* holder of its mutex: the request with the lease
          epoch, epochs,   \* Backend::capability_epoch (0: none); connections so far
          minted,          \* nonces drawn
          captured,        \* history: what the capture of each nonce gathered
          pc, job, result, expired,
          started,         \* age, nonce and previous epoch of a capture in flight
          dead             \* history: nonces whose snapshot must not serve again

vars == <<slot, lock, epoch, epochs, minted, captured, pc, job, result, expired,
          started, dead>>

Nonce    == 1 .. MaxNonce
Offset   == 0 .. MaxRecords
Cursors  == [nonce : Nonce, offset : Offset]
Requests == [op : Operation, cursor : Cursors \cup {None}]
NoCapture == [nonce |-> 0, age |-> 0, previous |-> 0]
Error    == [ok |-> FALSE]
PageOf(n, op, offset, items, next) ==
  [ok |-> TRUE, nonce |-> n, op |-> op, offset |-> offset, items |-> items, next |-> next]

Init ==
  /\ slot = None /\ lock = None
  /\ epoch = 0 /\ epochs = 0 /\ minted = 0
  /\ captured = [n \in Nonce |-> None]
  /\ pc = [p \in Task |-> "idle"]
  /\ job = [p \in Task |-> None]
  /\ result = [p \in Task |-> Error]
  /\ expired = [p \in Task |-> FALSE]
  /\ started = NoCapture
  /\ dead = {}

Goto(p, l) == pc' = [pc EXCEPT ![p] = l]
Smaller(a, b) == IF a < b THEN a ELSE b

-----------------------------------------------------------------------------
(* core::packages.                                                         *)

(* PackageCursor::parse: the syntax a continuation must have.              *)
Parses(c) == c.offset # 0 /\ c.offset < MaxRecords /\ c.offset % Page = 0

PageAtEager(s, offset) ==
  LET end == Smaller(offset + Page, s.count)
  IN  IF offset % Page # 0 \/ (offset # 0 /\ offset >= s.count)
        THEN Error
        ELSE PageOf(s.nonce, s.op, offset, offset + 1 .. end,
                    IF offset + Page + 1 < s.count THEN [nonce |-> s.nonce, offset |-> end] ELSE None)

(* PackageObservation::page.                                               *)
PageAt(s, offset) ==
  LET end == Smaller(offset + Page, s.count)
  IN  IF offset % Page # 0 \/ (offset # 0 /\ offset >= s.count)
        THEN Error
        ELSE PageOf(s.nonce, s.op, offset, offset + 1 .. end,
                    IF end < s.count THEN [nonce |-> s.nonce, offset |-> end] ELSE None)

-----------------------------------------------------------------------------
(* The request.                                                            *)

Usable(s) == s.age < TTL /\ epoch = s.epoch

ContinueAnyNonce(op, c) ==
  IF slot # None /\ Parses(c) /\ op = slot.op /\ Usable(slot)
    THEN PageAt(slot, c.offset) ELSE Error

(* page with a cursor: no await, no device work.                           *)
Continue(op, c) ==
  IF Parses(c) /\ slot # None /\ c.nonce = slot.nonce /\ op = slot.op /\ Usable(slot)
    THEN PageAt(slot, c.offset)
    ELSE Error

(* lease without waiting: an overlapping request is Busy and leaves the    *)
(* slot alone.  A capture discards the old snapshot before anything else.  *)
Request(p, j) ==
  /\ pc[p] = "idle" /\ lock = None
  /\ lock' = p
  /\ job' = [job EXCEPT ![p] = j]
  /\ IF j.cursor # None
       THEN /\ result' = [result EXCEPT ![p] = Continue(j.op, j.cursor)]
            /\ Goto(p, "close")
            /\ UNCHANGED <<slot, started, dead>>
       ELSE /\ slot' = None
            /\ started' = NoCapture
            /\ dead' = dead \cup 1 .. minted
            /\ Goto(p, "nonce")
            /\ UNCHANGED result
  /\ UNCHANGED <<epoch, epochs, minted, captured, expired>>

Fails(p) == result' = [result EXCEPT ![p] = Error] /\ Goto(p, "close")

(* SnapshotTokens::nonce returns a nonce, or fails (or is all zero, or     *)
(* came too late).  The capture is then sent to the backend.               *)
DrawNonce(p, ok) ==
  /\ pc[p] = "nonce"
  /\ IF ok /\ ~expired[p]
       THEN /\ minted < MaxNonce
            /\ minted' = minted + 1
            /\ started' = [started EXCEPT !.nonce = minted + 1, !.previous = epoch]
            /\ Goto(p, "capture")
            /\ UNCHANGED result
       ELSE Fails(p) /\ UNCHANGED <<minted, started>>
  /\ UNCHANGED <<slot, lock, epoch, epochs, captured, job, expired, dead>>

(* The backend returns a complete listing of n records of the requested    *)
(* profile, or fails.                                                      *)
CaptureReturns(p, ok, n) ==
  /\ pc[p] = "capture"
  /\ IF /\ ok /\ epoch # 0 /\ ~expired[p]
        /\ started.previous \in {0, epoch} /\ started.age < TTL
       THEN LET s == [nonce |-> started.nonce, count |-> n, op |-> job[p].op,
                      epoch |-> epoch, age |-> started.age]
            IN  /\ slot' = s
                /\ captured' = [captured EXCEPT ![s.nonce] = [count |-> n, op |-> s.op]]
                /\ result' = [result EXCEPT ![p] = PageAt(s, 0)]
                /\ Goto(p, "close")
       ELSE Fails(p) /\ UNCHANGED <<slot, captured>>
  /\ UNCHANGED <<lock, epoch, epochs, minted, job, expired, started, dead>>

(* enforce_deadline, then the completion audit is awaited with the lease   *)
(* still held.                                                             *)
Close(p) ==
  /\ pc[p] = "close"
  /\ result' = IF expired[p] THEN [result EXCEPT ![p] = Error] ELSE result
  /\ Goto(p, "audit")
  /\ UNCHANGED <<slot, lock, epoch, epochs, minted, captured, job, expired, started, dead>>

DropKeeps(p, keep) ==
  /\ slot' = slot
  /\ lock' = None
  /\ dead' = IF keep \/ slot = None THEN dead ELSE dead \cup {slot.nonce}
  /\ started' = NoCapture
  /\ Goto(p, "idle")
  /\ job' = [job EXCEPT ![p] = None]
  /\ result' = [result EXCEPT ![p] = Error]
  /\ expired' = [expired EXCEPT ![p] = FALSE]
  /\ UNCHANGED <<epoch, epochs, minted, captured>>

(* PageLease::drop: the slot is cleared unless preserved, the mutex freed. *)
Drop(p, keep) ==
  /\ slot' = IF keep THEN slot ELSE None
  /\ lock' = None
  /\ dead' = IF keep \/ slot = None THEN dead ELSE dead \cup {slot.nonce}
  /\ started' = NoCapture
  /\ Goto(p, "idle")
  /\ job' = [job EXCEPT ![p] = None]
  /\ result' = [result EXCEPT ![p] = Error]
  /\ expired' = [expired EXCEPT ![p] = FALSE]
  /\ UNCHANGED <<epoch, epochs, minted, captured>>

(* finish returned Ok (the page, and its audit), and preserve finds the    *)
(* snapshot still usable: only then does the client get the page.          *)
Preserves(p, audited) == audited /\ result[p].ok /\ slot # None /\ Usable(slot)

Finish(p, audited) == pc[p] = "audit" /\ Drop(p, Preserves(p, audited))

TimerOverNonce(p) ==
  /\ pc[p] = "nonce" /\ expired[p]
  /\ Fails(p)
  /\ UNCHANGED <<slot, lock, epoch, epochs, minted, captured, job, expired, started, dead>>

(* The deadline's timer drops a pending nonce or capture.                  *)
Timer(p) ==
  /\ pc[p] \in {"nonce", "capture"} /\ expired[p]
  /\ Fails(p)
  /\ UNCHANGED <<slot, lock, epoch, epochs, minted, captured, job, expired, started, dead>>

(* The client goes away at an await.                                       *)
Cancel(p) == pc[p] \in {"nonce", "capture", "audit"} /\ Drop(p, FALSE)

Expire(p) ==
  /\ pc[p] \in {"nonce", "capture", "close"} /\ ~expired[p]
  /\ expired' = [expired EXCEPT ![p] = TRUE]
  /\ UNCHANGED <<slot, lock, epoch, epochs, minted, captured, pc, job, result, started, dead>>

(* Time passes, up to TTL, where an age stops being of interest.           *)
Tick ==
  /\ slot' = IF slot # None /\ slot.age < TTL THEN [slot EXCEPT !.age = @ + 1] ELSE slot
  /\ started' = IF lock # None /\ started.age < TTL /\ pc[lock] \in {"nonce", "capture"}
                  THEN [started EXCEPT !.age = @ + 1] ELSE started
  /\ dead' = IF slot # None /\ slot'.age = TTL THEN dead \cup {slot.nonce} ELSE dead
  /\ UNCHANGED <<lock, epoch, epochs, minted, captured, pc, job, result, expired>>

(* The backend's connection comes up under a new epoch, or goes down.      *)
EpochChange ==
  /\ \/ epochs < MaxEpoch /\ epochs' = epochs + 1 /\ epoch' = epochs'
     \/ epoch # 0 /\ epoch' = 0 /\ UNCHANGED epochs
  /\ dead' = IF slot # None THEN dead \cup {slot.nonce} ELSE dead
  /\ UNCHANGED <<slot, lock, minted, captured, pc, job, result, expired, started>>

Next ==
  \/ \E p \in Task :
       \/ \E j \in Requests : Request(p, j)
       \/ \E ok \in BOOLEAN : DrawNonce(p, ok) \/ Finish(p, ok)
       \/ \E ok \in BOOLEAN, n \in 0 .. MaxRecords : CaptureReturns(p, ok, n)
       \/ Close(p) \/ Timer(p) \/ Cancel(p) \/ Expire(p)
  \/ Tick \/ EpochChange

Spec == Init /\ [][Next]_vars

(* Tasks are polled, the deadline's timer fires, and the completion audit  *)
(* ends one way or the other (it has a timeout of its own).                *)
Fairness == \A p \in Task : /\ WF_vars(Close(p)) /\ WF_vars(Expire(p)) /\ WF_vars(Timer(p))
                            /\ WF_vars(\E ok \in BOOLEAN : Finish(p, ok))
FairSpec == Spec /\ Fairness

-----------------------------------------------------------------------------
(* The values the variables take.                                          *)
TypeOK ==
  /\ slot \in [nonce : Nonce, count : 0 .. MaxRecords, op : Operation,
               epoch : 1 .. MaxEpoch, age : 0 .. TTL] \cup {None}
  /\ lock \in Task \cup {None}
  /\ epoch \in 0 .. MaxEpoch /\ epochs \in 0 .. MaxEpoch /\ minted \in 0 .. MaxNonce
  /\ captured \in [Nonce -> [count : 0 .. MaxRecords, op : Operation] \cup {None}]
  /\ pc \in [Task -> {"idle", "nonce", "capture", "close", "audit"}]
  /\ job \in [Task -> Requests \cup {None}]
  /\ expired \in [Task -> BOOLEAN]
  /\ started \in [nonce : 0 .. MaxNonce, age : 0 .. TTL, previous : 0 .. MaxEpoch]
  /\ dead \subseteq Nonce

(* The step in which a client gets its page.                               *)
Answers(p) == pc[p] = "audit" /\ pc'[p] = "idle" /\ lock = p /\ result[p].ok
              /\ slot' # None

(* A page a client gets belongs to the snapshot its cursor names, taken by *)
(* the same operation, is the slice its offset names, and that snapshot is *)
(* neither expired, superseded by a later capture, from another connection *)
(* nor touched by a request that failed or went away.                      *)
PageIsCurrent ==
  [][\A p \in Task : Answers(p) =>
       LET c == job[p].cursor
           n == IF c = None THEN result[p].nonce ELSE c.nonce
           o == IF c = None THEN 0 ELSE c.offset
       IN  /\ n \notin dead /\ captured[n] # None
           /\ captured[n].op = job[p].op
           /\ result[p].items = o + 1 .. Smaller(o + Page, captured[n].count)]_vars

(* A snapshot left in the free slot is the latest capture, and no request  *)
(* on it ended without its page audited and delivered.                     *)
RestingSlot ==
  lock = None /\ slot # None =>
    /\ slot.nonce = minted
    /\ captured[slot.nonce] = [count |-> slot.count, op |-> slot.op]
    /\ slot.nonce \in dead => slot.age = TTL \/ slot.epoch # epoch

(* Following next_cursor from the first page gives every record of the     *)
(* snapshot, each once, and every cursor that page() hands out parses.     *)
Links(s) ==   \* an offset, and the one its page leads to
  {<<o, PageAt(s, o).next.offset>> : o \in {q \in Offset : PageAt(s, q).ok /\ PageAt(s, q).next # None}}
Chain(s) ==   \* what is reached from the first
  LET links == Links(s)
      closed == {S \in SUBSET Offset : 0 \in S /\ \A l \in links : l[1] \in S => l[2] \in S}
  IN  {o \in Offset : \A S \in closed : o \in S}
Covers(s) ==
  LET pages == {PageAt(s, o) : o \in Chain(s)}
  IN  /\ \A g \in pages : g.ok /\ (g.next # None => Parses(g.next))
      /\ UNION {g.items : g \in pages} = 1 .. s.count
      /\ \A g, h \in pages : g # h => g.items \cap h.items = {}

(* Covers for every snapshot the slot can hold, up to MaxRecords records.  *)
ChainIsComplete == slot # None => Covers(slot)

(* Whoever has the lease gives it back.                                    *)
LeaseReturns == \A p \in Task : lock = p ~> lock # p
=============================================================================
