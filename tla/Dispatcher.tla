----------------------------- MODULE Dispatcher -----------------------------
(***************************************************************************)
(* The runtime's Dispatcher (crates/runtime/src/dispatcher.rs): policy     *)
(* admission, the bounded audit writer with its permanent failure latch,   *)
(* the device-work deadline, and the answer the client gets.               *)
(*                                                                         *)
(* Every request is one async task.  A step of the model is the code       *)
(* between two awaits, or between two accesses of shared atomics.  The     *)
(* audit write itself runs in a blocking worker that outlives the future   *)
(* that spawned it, so `workers' is state of its own.  A future may be     *)
(* dropped at any await (Cancel).                                          *)
(*                                                                         *)
(* Time is abstract: `expired[r]' says that r's device-work deadline has   *)
(* passed (only tracked until the last check of it), and an audit future   *)
(* that is still waiting may hit its own 1 s timeout.                      *)
(***************************************************************************)
EXTENDS Naturals, FiniteSets, Sequences

CONSTANTS Req,            \* request sequence numbers; each is used once
          MaxConcurrent,  \* Limits.max_concurrent
          Refusals,       \* AuditOutcomes of a refused request: UnknownOperation,
                          \* Denied, InvalidArguments
          None

ASSUME ReqAssumption  == IsFiniteSet(Req) /\ None \notin Req
ASSUME RefusalAssumption ==
  Refusals \cap {"ok", "none", "failed", "timeout", "busy", "invalid_cursor",
                 "audit_unavailable", "completion_audit_failed", "dropped"} = {}
ASSUME MaxAssumption  == MaxConcurrent \in Nat \ {0}

VARIABLES pc,            \* where the request's future stands
          kind,          \* which use case the request asked for
          event,         \* the audit event the request is recording
          result,        \* what the device work came to
          answer,        \* what the client was told
          expired,       \* the device-work deadline has passed
          touched,       \* device, key or connection I/O was begun
          permits,       \* Dispatcher.permits, a semaphore
          waiters,       \* Dispatcher.audit_waiters, a semaphore
          gate,          \* Dispatcher.audit_gate, a semaphore of one
          workers,       \* blocking tasks inside AuditSink::record
          reply,         \* what a worker returned to its waiting future
          audit_failed,  \* the permanent latch
          lease,         \* holder of the package slot's lock
          audit_log      \* per request, the events the sink holds, oldest first

vars == <<pc, kind, event, result, answer, expired, touched, permits, waiters,
          gate, workers, reply, audit_failed, lease, audit_log>>

Kinds      == {"invoke", "page", "status", "package_status"}
Results    == {"ok", "failed", "timeout", "busy", "invalid_cursor"}
Answers    == Results \cup Refusals \cup
              {"none", "audit_unavailable", "completion_audit_failed", "dropped"}
AuditPcs   == {"latch", "waiter", "gate", "write"}
WaitPcs    == {"gate", "write"}             \* a waiter slot is held
DevicePcs  == {"observe", "execute", "page"}  \* awaiting the backend
BodyPcs    == {"body", "project", "close"} \cup DevicePcs
Pcs        == {"idle", "permit", "done"} \cup AuditPcs \cup BodyPcs
Phases     == {"none", "start", "finish", "rejection"}
Outcomes   == {"none", "attempt", "success", "failed", "busy"} \cup Refusals

Event(p, o) == [phase |-> p, outcome |-> o]
Events      == [phase : Phases, outcome : Outcomes]
Records     == [req : Req, phase : Phases, outcome : Outcomes]
Logs        == [Req -> Seq(Events)]
Record(r)   == [req |-> r, phase |-> event[r].phase, outcome |-> event[r].outcome]

(* The records a log holds, however often and in whatever order.           *)
Filed(log) ==
  {w \in Records : \E i \in DOMAIN log[w.req] : log[w.req][i] = Event(w.phase, w.outcome)}
Written     == Filed(audit_log)
Wrote(r, p) == \E w \in Written : w.req = r /\ w.phase = p

(* The requests that hold an execution permit: admitted and not yet ended. *)
Holders == {r \in Req : \/ pc[r] \in BodyPcs
                        \/ pc[r] \in AuditPcs /\ event[r].phase # "rejection"}
Waiting == {r \in Req : pc[r] \in WaitPcs}

-----------------------------------------------------------------------------
Init ==
  /\ pc = [r \in Req |-> "idle"]
  /\ kind = [r \in Req |-> "invoke"]
  /\ event = [r \in Req |-> Event("none", "none")]
  /\ result = [r \in Req |-> "failed"]
  /\ answer = [r \in Req |-> "none"]
  /\ expired = [r \in Req |-> FALSE]
  /\ touched = [r \in Req |-> FALSE]
  /\ permits = MaxConcurrent
  /\ waiters = MaxConcurrent + 1
  /\ gate = 1
  /\ workers = {}
  /\ reply = [r \in Req |-> "none"]
  /\ audit_failed = FALSE
  /\ lease = None
  /\ audit_log = [r \in Req |-> <<>>]

Goto(r, p)     == pc' = [pc EXCEPT ![r] = p]
NoteEvent(r, p, o) ==
  /\ event' = [event EXCEPT ![r] = Event(p, o)]
  /\ Goto(r, "latch")

(* The future ends with answer a; dropping its locals returns the permit   *)
(* and the package lease it holds.                                         *)
Done(r, a) ==
  /\ Goto(r, "done")
  /\ kind' = [kind EXCEPT ![r] = "invoke"]
  /\ event' = [event EXCEPT ![r] = Event("none", "none")]
  /\ result' = [result EXCEPT ![r] = "failed"]
  /\ answer' = [answer EXCEPT ![r] = a]
  /\ permits' = IF r \in Holders THEN permits + 1 ELSE permits
  /\ lease' = IF lease = r THEN None ELSE lease

GoesOn(r, p) ==
  /\ Goto(r, p)
  /\ UNCHANGED <<kind, event, result, answer, permits, lease>>

-----------------------------------------------------------------------------
(* Admission.                                                              *)

(* invoke / capability_status up to the first await: the next sequence     *)
(* number, the catalog, policy and argument checks.  `check' is the first  *)
(* check that fails, or "ok".                                              *)
Arrive(r, k, check) ==
  /\ pc[r] = "idle"
  /\ kind' = [kind EXCEPT ![r] = k]
  /\ IF check = "ok"
       THEN Goto(r, "permit") /\ UNCHANGED event
       ELSE NoteEvent(r, "rejection", check)
  /\ UNCHANGED <<result, answer, expired, touched, permits, waiters, gate,
                 workers, reply, audit_failed, lease, audit_log>>

(* admit: a permit without waiting, else an audited Busy rejection.        *)
Admit(r) ==
  /\ pc[r] = "permit"
  /\ IF permits > 0
       THEN permits' = permits - 1 /\ NoteEvent(r, "start", "attempt")
       ELSE NoteEvent(r, "rejection", "busy") /\ UNCHANGED permits
  /\ UNCHANGED <<kind, result, answer, expired, touched, waiters, gate,
                 workers, reply, audit_failed, lease, audit_log>>

-----------------------------------------------------------------------------
(* record_audit.                                                           *)

AuditReturnsUnheeded(r, ok) ==
  IF event[r].phase = "start"
    THEN GoesOn(r, "body")
    ELSE Done(r, IF ok THEN result[r] ELSE "audit_unavailable")

(* What the caller of record_audit does with its result: reject and admit  *)
(* pass a failure on as AuditUnavailable, finish as CompletionAuditFailed. *)
(* A page that succeeded is preserved only after its completion audit, and *)
(* that can still fail with InvalidCursor.                                 *)
AuditReturns(r, ok) ==
  \/ /\ event[r].phase = "rejection"
     /\ Done(r, IF ok THEN event[r].outcome ELSE "audit_unavailable")
  \/ /\ event[r].phase = "start"
     /\ IF ok THEN GoesOn(r, "body")
              ELSE Done(r, "audit_unavailable")
  \/ /\ event[r].phase = "finish"
     /\ \/ Done(r, IF ok THEN result[r] ELSE "completion_audit_failed")
        \/ ok /\ kind[r] = "page" /\ result[r] = "ok" /\ Done(r, "invalid_cursor")

(* The latch is looked at before anything else is acquired.                *)
CheckLatch(r) ==
  /\ pc[r] = "latch"
  /\ IF audit_failed THEN AuditReturns(r, FALSE)
                     ELSE GoesOn(r, "waiter")
  /\ UNCHANGED <<expired, touched, waiters, gate,
                 workers, reply, audit_failed, audit_log>>

(* A bounded number of audit futures wait; saturation fails this request   *)
(* closed but does not set the latch.                                      *)
TakeWaiter(r) ==
  /\ pc[r] = "waiter"
  /\ IF waiters > 0
       THEN waiters' = waiters - 1 /\ GoesOn(r, "gate")
       ELSE AuditReturns(r, FALSE) /\ UNCHANGED waiters
  /\ UNCHANGED <<expired, touched, gate, workers, reply,
                 audit_failed, audit_log>>

AcquireGateUnchecked(r) ==
  /\ pc[r] = "gate"
  /\ gate > 0
  /\ gate' = gate - 1
  /\ workers' = workers \cup {Record(r)}
  /\ Goto(r, "write")
  /\ UNCHANGED <<kind, event, result, answer, expired, touched, permits,
                 waiters, reply, audit_failed, lease, audit_log>>

(* The gate is acquired, the latch is looked at again, and the worker that *)
(* owns the gate is spawned, all in one poll.                              *)
AcquireGate(r) ==
  /\ pc[r] = "gate"
  /\ gate > 0
  /\ IF audit_failed
       THEN /\ AuditReturns(r, FALSE)
            /\ waiters' = waiters + 1
            /\ UNCHANGED <<gate, workers>>
       ELSE /\ gate' = gate - 1
            /\ workers' = workers \cup {Record(r)}
            /\ GoesOn(r, "write")
            /\ UNCHANGED waiters
  /\ UNCHANGED <<expired, touched, reply, audit_failed,
                 audit_log>>

(* The OS write returns: the record is there ("ok"), the sink failed, with *)
(* or without the record having landed ("landed", "err"), or the worker    *)
(* ended without a result ("lost", a JoinError).  The gate is free again.  *)
WorkerReturns(w, how) ==
  /\ workers' = workers \ {w}
  /\ gate' = gate + 1
  /\ audit_log' = IF how \in {"ok", "landed"}
                    THEN [audit_log EXCEPT ![w.req] = Append(@, Event(w.phase, w.outcome))]
                    ELSE audit_log
  /\ audit_failed' = IF how \in {"err", "landed"} THEN TRUE ELSE audit_failed
  /\ reply' = IF pc[w.req] = "write"
                THEN [reply EXCEPT ![w.req] = IF how = "ok" THEN "ok" ELSE "err"]
                ELSE reply
  /\ UNCHANGED <<pc, kind, event, result, answer, expired, touched, permits,
                 waiters, lease>>

ResumeTrusting(r) ==
  /\ pc[r] = "write" /\ reply[r] # "none"
  /\ waiters' = waiters + 1
  /\ AuditReturns(r, TRUE)
  /\ reply' = [reply EXCEPT ![r] = "none"]
  /\ UNCHANGED <<expired, touched, gate, workers,
                 audit_failed, audit_log>>

(* The future learns what its worker returned.                             *)
Resume(r) ==
  /\ pc[r] = "write" /\ reply[r] # "none"
  /\ waiters' = waiters + 1
  /\ AuditReturns(r, reply[r] = "ok")
  /\ audit_failed' = IF reply[r] = "ok" THEN audit_failed ELSE TRUE
  /\ reply' = [reply EXCEPT ![r] = "none"]
  /\ UNCHANGED <<expired, touched, gate, workers, audit_log>>

AuditTimeoutFreeing(r) ==
  /\ pc[r] \in WaitPcs /\ reply[r] = "none"
  /\ waiters' = waiters + 1
  /\ audit_failed' = audit_failed
  /\ AuditReturns(r, FALSE)
  /\ gate' = IF pc[r] = "write" THEN gate + 1 ELSE gate
  /\ UNCHANGED <<expired, touched, workers, reply, audit_log>>

AuditTimeoutQueuedOnly(r) ==
  /\ pc[r] = "gate"
  /\ waiters' = waiters + 1
  /\ audit_failed' = TRUE
  /\ AuditReturns(r, FALSE)
  /\ UNCHANGED <<expired, touched, gate, workers, reply, audit_log>>

(* The audit deadline passes while the future waits for the gate or for    *)
(* its worker.  The worker, if there is one, keeps the gate.               *)
AuditTimeout(r) ==
  /\ pc[r] \in WaitPcs /\ reply[r] = "none"
  /\ waiters' = waiters + 1
  /\ audit_failed' = TRUE
  /\ AuditReturns(r, FALSE)
  /\ UNCHANGED <<expired, touched, gate, workers, reply,
                 audit_log>>

-----------------------------------------------------------------------------
(* Device work under the deadline.                                         *)

EnforceNothing(r, res) == res

(* enforce_deadline: a result computed after the deadline is a Timeout.    *)
Enforce(r, res) == IF expired[r] THEN "timeout" ELSE res

BeginBusyRejected(r) ==
  /\ pc[r] = "body"
  /\ \/ /\ kind[r] = "page" /\ lease # None
        /\ NoteEvent(r, "rejection", "busy")
        /\ UNCHANGED <<result, touched, lease>>
     \/ /\ kind[r] = "package_status"
        /\ result' = [result EXCEPT ![r] = "ok"]
        /\ NoteEvent(r, "finish", "success")
        /\ UNCHANGED <<touched, lease>>
     \/ /\ kind[r] = "page" /\ lease = None
        /\ lease' = r
        /\ Goto(r, "page")
        /\ \E io \in BOOLEAN : touched' = [touched EXCEPT ![r] = io]
        /\ UNCHANGED <<event, result>>
     \/ /\ kind[r] \in {"invoke", "status"}
        /\ Goto(r, "observe")
        /\ \E io \in BOOLEAN : touched' = [touched EXCEPT ![r] = io]
        /\ UNCHANGED <<event, result, lease>>
  /\ UNCHANGED <<kind, answer, expired, permits, waiters, gate, workers, reply,
                 audit_failed, audit_log>>

(* After the start audit: the deadline starts, and the use case is chosen. *)
(* A package status answers at once; a page needs the package slot; the    *)
(* others begin with an observation, which may be a cache hit (no I/O).    *)
Begin(r) ==
  /\ pc[r] = "body"
  /\ \/ /\ kind[r] = "package_status"
        /\ result' = [result EXCEPT ![r] = "ok"]
        /\ NoteEvent(r, "finish", "success")
        /\ UNCHANGED <<touched, lease>>
     \/ /\ kind[r] = "page" /\ lease # None
        /\ result' = [result EXCEPT ![r] = "busy"]
        /\ NoteEvent(r, "finish", "failed")
        /\ UNCHANGED <<touched, lease>>
     \/ /\ kind[r] = "page" /\ lease = None
        /\ lease' = r
        /\ Goto(r, "page")
        /\ \E io \in BOOLEAN : touched' = [touched EXCEPT ![r] = io]
        /\ UNCHANGED <<event, result>>
     \/ /\ kind[r] \in {"invoke", "status"}
        /\ Goto(r, "observe")
        /\ \E io \in BOOLEAN : touched' = [touched EXCEPT ![r] = io]
        /\ UNCHANGED <<event, result, lease>>
  /\ UNCHANGED <<kind, answer, expired, permits, waiters, gate, workers, reply,
                 audit_failed, audit_log>>

Yields(r, p, res) ==
  /\ Goto(r, p)
  /\ result' = [result EXCEPT ![r] = res]
  /\ UNCHANGED <<kind, event, answer, expired, permits, waiters, gate, workers,
                 reply, audit_failed, lease, audit_log>>

(* observe returns: an error, a verdict that is not Compatible, or go on.  *)
ObserveReturns(r, res) ==
  /\ pc[r] = "observe"
  /\ IF kind[r] = "invoke" /\ Enforce(r, res) = "ok"
       THEN /\ Yields(r, "execute", result[r])
            /\ touched' = [touched EXCEPT ![r] = TRUE]
       ELSE Yields(r, "close", Enforce(r, res)) /\ UNCHANGED touched

ExecuteReturns(r, res) ==
  /\ pc[r] = "execute"
  /\ Yields(r, IF Enforce(r, res) = "ok" THEN "project" ELSE "close",
            Enforce(r, res))
  /\ UNCHANGED touched

(* The synchronous projection of the device's answer.                      *)
Project(r, res) ==
  /\ pc[r] = "project"
  /\ Yields(r, "close", Enforce(r, res))
  /\ UNCHANGED touched

PageReturns(r, res) ==
  /\ pc[r] = "page"
  /\ Yields(r, "close", res)
  /\ UNCHANGED touched

(* timeout_at drops the pending backend future.                            *)
Timer(r) ==
  /\ pc[r] \in DevicePcs /\ expired[r]
  /\ Yields(r, "close", "timeout")
  /\ UNCHANGED touched

Expire(r) ==
  /\ pc[r] \in BodyPcs \ {"body"} /\ ~expired[r]
  /\ expired' = [expired EXCEPT ![r] = TRUE]
  /\ UNCHANGED <<pc, kind, event, result, answer, touched, permits, waiters,
                 gate, workers, reply, audit_failed, lease, audit_log>>

(* The outer enforce_deadline, and finish's choice of the outcome.         *)
Close(r) ==
  /\ pc[r] = "close"
  /\ LET res == Enforce(r, result[r])
     IN  /\ result' = [result EXCEPT ![r] = res]
         /\ NoteEvent(r, "finish", IF res = "ok" THEN "success" ELSE "failed")
  /\ UNCHANGED <<kind, answer, expired, touched, permits, waiters, gate,
                 workers, reply, audit_failed, lease, audit_log>>

(* The client goes away: the future is dropped where it awaits.  A worker  *)
(* that it spawned goes on.                                                *)
Cancel(r) ==
  /\ pc[r] \in WaitPcs \cup DevicePcs
  /\ Done(r, "dropped")
  /\ waiters' = IF pc[r] \in WaitPcs THEN waiters + 1 ELSE waiters
  /\ reply' = [reply EXCEPT ![r] = "none"]
  /\ UNCHANGED <<expired, touched, gate, workers,
                 audit_failed, audit_log>>

-----------------------------------------------------------------------------
Step(r) == Admit(r) \/ CheckLatch(r) \/ TakeWaiter(r) \/ Resume(r)
           \/ Begin(r) \/ Close(r)
           \/ \E res \in {"ok", "failed"} : Project(r, res)

Returns(r) ==
  \/ \E res \in {"ok", "failed"} : ObserveReturns(r, res) \/ ExecuteReturns(r, res)
  \/ \E res \in {"ok", "failed", "invalid_cursor"} : PageReturns(r, res)

Ended == \A r \in Req : pc[r] = "done"

Next ==
  \/ \E r \in Req :
       \/ \E k \in Kinds, check \in Refusals \cup {"ok"} : Arrive(r, k, check)
       \/ Step(r) \/ AcquireGate(r) \/ AuditTimeout(r)
       \/ Returns(r) \/ Timer(r) \/ Expire(r) \/ Cancel(r)
  \/ \E w \in workers, how \in {"ok", "err", "landed", "lost"} : WorkerReturns(w, how)
  \/ Ended /\ UNCHANGED vars

Spec == Init /\ [][Next]_vars

(* What the runtime guarantees: a runnable task is polled, and a timer     *)
(* fires.  Nothing is assumed of the sink, of the backend or of clients.   *)
Fairness == \A r \in Req : /\ WF_vars(Step(r))
                           /\ WF_vars(AuditTimeout(r))
                           /\ WF_vars(Expire(r))
                           /\ WF_vars(Timer(r))

FairSpec == Spec /\ Fairness

-----------------------------------------------------------------------------
(* The values the variables take.                                          *)
TypeOK ==
  /\ pc \in [Req -> Pcs]
  /\ kind \in [Req -> Kinds]
  /\ event \in [Req -> Events]
  /\ result \in [Req -> Results]
  /\ answer \in [Req -> Answers]
  /\ expired \in [Req -> BOOLEAN]
  /\ touched \in [Req -> BOOLEAN]
  /\ permits \in Nat
  /\ waiters \in Nat
  /\ gate \in Nat
  /\ workers \subseteq Records
  /\ reply \in [Req -> {"none", "ok", "err"}]
  /\ audit_failed \in BOOLEAN
  /\ lease \in Req \cup {None}
  /\ audit_log \in Logs

(* No probe, key, connection or device I/O begins for a request before its *)
(* start record is in the audit sink, whatever the writer, its timeouts    *)
(* and the latch do (admit's `?' before any backend call).                 *)
WorkIsAudited == \A r \in Req : touched[r] => Wrote(r, "start")

(* What the client is told agrees with the audit trail: a success has its  *)
(* Success record and a refusal its Rejection, "operation was not started" *)
(* (AuditUnavailable) is never said of an operation that was, and only     *)
(* CompletionAuditFailed stands for a missing completion record.  A page   *)
(* whose snapshot is lost during its completion audit is the one failure   *)
(* that is recorded as a success.                                          *)
AnswerOK(r) ==
  LET Has(p, o) == [req |-> r, phase |-> p, outcome |-> o] \in Written
  IN  /\ answer[r] = "ok" => Has("finish", "success")
      /\ answer[r] \in {"failed", "timeout"} => Has("finish", "failed")
      /\ answer[r] = "invalid_cursor" => Has("finish", "success") \/ Has("finish", "failed")
      /\ answer[r] = "busy" => Has("rejection", "busy") \/ Has("finish", "failed")
      /\ answer[r] \in Refusals => Has("rejection", answer[r])
      /\ answer[r] = "audit_unavailable" => ~touched[r] /\ ~Wrote(r, "finish")
      /\ answer[r] = "completion_audit_failed" => Wrote(r, "start")

(* AnswerOK for every request, whatever the interleaving of timeouts, late *)
(* workers, saturation and drops (finish, reject, record_audit).           *)
AnswerIsAudited == \A r \in Req : AnswerOK(r)

(* A request leaves one verdict in the audit log: a rejection alone, or a  *)
(* start and then at most one finish, each once and in this order.  Late   *)
(* workers of timed out or dropped futures included, and a page that finds *)
(* the package slot taken after its start was recorded: its busy answer    *)
(* is a failed finish there, and a rejection only where admit refused it.  *)
OneVerdict ==
  \A r \in Req : [i \in DOMAIN audit_log[r] |-> audit_log[r][i].phase]
                   \in {<<>>, <<"rejection">>, <<"start">>, <<"start", "finish">>}

(* Semaphore accounting over every return, timeout and drop: no permit and *)
(* no waiter slot leaks or is returned twice, and at most one audit worker *)
(* is ever alive, however many futures gave up on a blocked one.  None is  *)
(* taken where none is left.                                               *)
Conserved ==
  /\ permits >= 0 /\ waiters >= 0 /\ gate >= 0
  /\ permits + Cardinality(Holders) = MaxConcurrent
  /\ waiters + Cardinality(Waiting) = MaxConcurrent + 1
  /\ gate + Cardinality(workers) = 1

(* A result that came after the device-work deadline never gets a Success  *)
(* completion record.                                                      *)
LateIsNoSuccess ==
  \A w \in Written : w.phase = "finish" /\ w.outcome = "success" => ~expired[w.req]

(* Once the latch is set it stays, and once the one worker still alive has *)
(* returned, no audit record is ever written again: futures that were      *)
(* queued at the gate see the latch.                                       *)
LatchIsFinal ==
  [][audit_failed => /\ audit_failed'
                     /\ workers = {} => workers' = {} /\ audit_log' = audit_log]_vars

(* Every request is answered (or dropped by its client), even if the audit *)
(* sink or the backend hangs for ever.                                     *)
Answered == \A r \in Req : pc[r] # "idle" ~> pc[r] = "done"
=============================================================================
