-------------------------- MODULE DispatcherProofs --------------------------
(***************************************************************************)
(* Safety of the Dispatcher for every set of requests and every            *)
(* max_concurrent.  The inductive invariant ties the audit records, those  *)
(* written and those still inside a worker, to where their request stands. *)
(***************************************************************************)
EXTENDS Dispatcher, FiniteSetTheorems, TLAPS

(* The set of records in the log is always read through the log itself.    *)
USE DEF Written

(* Every record a worker has written or may still write.                   *)
All == Written \cup workers

EarlyPcs == {"latch", "waiter", "gate"}   \* an event waits, no worker yet

(* Before the worker of its start or rejection is spawned a request has no *)
(* record; from its start to the spawning of its finish only start records.*)
Fresh(r)   == pc[r] \in {"idle", "permit"} \/ (pc[r] \in EarlyPcs /\ event[r].phase # "finish")
Started(r) == pc[r] \in BodyPcs \/ (pc[r] \in EarlyPcs /\ event[r].phase = "finish")
Trail ==
  \A r \in Req, w \in All : w.req = r =>
    /\ ~Fresh(r)
    /\ Started(r) => w.phase = "start"
    /\ pc[r] = "write" => w = Record(r) \/ (w.phase = "start" /\ event[r].phase = "finish")

(* Workers belong to the future that waits for them, or to none.           *)
WorkerInv ==
  /\ \A w \in workers : /\ pc[w.req] \in {"write", "done"}
                        /\ pc[w.req] = "write" => w = Record(w.req) /\ reply[w.req] = "none"
  /\ \A r \in Req : reply[r] # "none" => pc[r] = "write"
  /\ \A r \in Req : reply[r] = "ok" => Record(r) \in Written

(* What the pending event says.                                            *)
EventInv ==
  \A r \in Req : pc[r] \in AuditPcs =>
    /\ event[r].phase \in {"start", "finish", "rejection"}
    /\ event[r].phase = "finish" =>
         /\ event[r].outcome = (IF result[r] = "ok" THEN "success" ELSE "failed")
         /\ result[r] = "ok" => ~expired[r]
    /\ event[r].phase = "rejection" => event[r].outcome \in Refusals \cup {"busy"}

(* Device work and its completion come after a written start record, and   *)
(* before the work nothing was touched and no deadline ran.                *)
Active(r)  == pc[r] \in BodyPcs \/ (pc[r] \in AuditPcs /\ event[r].phase = "finish")
Unbegun(r) == \/ pc[r] \in {"idle", "permit", "body"}
              \/ pc[r] \in AuditPcs /\ event[r].phase # "finish"
Audited ==
  /\ WorkIsAudited
  /\ \A r \in Req : Active(r) => Wrote(r, "start")
  /\ \A r \in Req : Unbegun(r) => ~touched[r] /\ ~expired[r]

(* Records still to be written included: successes are in time and no      *)
(* request has two verdicts.                                               *)
Verdicts ==
  /\ \A w \in All : w.phase = "finish" /\ w.outcome = "success" => ~expired[w.req]
  /\ \A v, w \in All : v.req = w.req => v = w \/ {v.phase, w.phase} = {"start", "finish"}

AnswerInv ==
  /\ AnswerIsAudited
  /\ \A r \in Req : answer[r] # "none" => pc[r] = "done"
  /\ \A r \in Req : answer[r] = "audit_unavailable" => \A w \in All : w.req = r => w.phase # "finish"

(* A log holds a rejection, or a start and then a finish; and a worker is  *)
(* the one that has the next of these to write.                            *)
Orderly(log) ==
  /\ Len(log) \in 0 .. 2
  /\ Len(log) = 1 => log[1].phase \in {"start", "rejection"}
  /\ Len(log) = 2 => log[1].phase = "start" /\ log[2].phase = "finish"
Opened(log) == Len(log) = 1 /\ log[1].phase = "start"
Due(w, log) == IF w.phase = "finish" THEN Opened(log)
               ELSE Len(log) = 0 /\ w.phase \in {"start", "rejection"}
LogInv ==
  /\ \A r \in Req : Orderly(audit_log[r])
  /\ \A w \in workers : Due(w, audit_log[w.req])

IInv == TypeOK /\ LogInv /\ EventInv /\ Trail /\ WorkerInv /\ Audited /\ Verdicts /\ AnswerInv

-----------------------------------------------------------------------------
(* The events the dispatcher builds are events.                            *)
LEMMA EventTyped ==
  /\ \A p \in Phases, o \in Outcomes : Event(p, o) \in Events
  /\ {"none", "start", "finish", "rejection"} \subseteq Phases
  /\ {"none", "attempt", "success", "failed", "busy"} \cup Refusals \subseteq Outcomes
BY DEF Event, Events, Phases, Outcomes

(* How the groups of program points nest.                                  *)
LEMMA PcTyped ==
  /\ {"idle", "permit", "done", "latch", "waiter", "gate", "write", "body",
      "project", "close", "observe", "execute", "page"} \subseteq Pcs
  /\ AuditPcs = {"latch", "waiter", "gate", "write"}
  /\ WaitPcs = {"gate", "write"}
BY DEF Pcs, AuditPcs, WaitPcs, BodyPcs, DevicePcs

(* What is in the log are records.                                         *)
LEMMA FiledAreRecords == Written \subseteq Records
BY DEF Filed

(* A worker that returns adds at most its own record to the log.           *)
LEMMA WorkerFiles ==
  ASSUME TypeOK, NEW w \in workers, NEW how \in {"ok", "err", "landed", "lost"},
         WorkerReturns(w, how)
  PROVE  /\ audit_log' \in Logs
         /\ Written \subseteq Written' /\ Written' \subseteq Written \cup {w}
         /\ how \in {"ok", "landed"} => w \in Written'
<1>1. w \in Records /\ w.req \in Req /\ Event(w.phase, w.outcome) \in Events
  BY DEF TypeOK, Records, Event, Events
<1>2. CASE how \notin {"ok", "landed"}
  <2>1. audit_log' = audit_log
    BY <1>2 DEF WorkerReturns
  <2>q. QED  BY <1>2, <2>1 DEF TypeOK
<1>3. CASE how \in {"ok", "landed"}
  <2>1. PICK e \in Events : e = Event(w.phase, w.outcome)
    BY <1>1
  <2>2. PICK q \in Req : q = w.req
    BY <1>1
  <2>3. audit_log' = [audit_log EXCEPT ![q] = Append(@, e)]
    BY <1>3, <2>1, <2>2 DEF WorkerReturns
  <2>4. PICK s \in Seq(Events) : s = audit_log[q]
    BY DEF TypeOK, Logs
  <2>a. Append(s, e) \in Seq(Events)
    BY <2>1, <2>4
  <2>5. PICK t \in Seq(Events) : t = Append(s, e)
    BY <2>a
  <2>6. audit_log' = [audit_log EXCEPT ![q] = t]
    BY <2>3, <2>4, <2>5
  <2>7. audit_log' \in Logs
    BY <2>6 DEF TypeOK, Logs
  <2>8. audit_log'[q] = t /\ \A r \in Req : r # q => audit_log'[r] = audit_log[r]
    BY <2>6 DEF TypeOK, Logs
  <2>9. /\ \A i \in DOMAIN s : i \in DOMAIN t /\ t[i] = s[i]
        /\ \A i \in DOMAIN t : i \in DOMAIN s \/ t[i] = e
        /\ Len(t) \in DOMAIN t /\ t[Len(t)] = e
    BY <2>5
  <2>10. Written \subseteq Written'
    <3> SUFFICES ASSUME NEW v \in Written PROVE v \in Written'
      OBVIOUS
    <3>1. v \in Records /\ v.req \in Req
      BY DEF Filed, Records
    <3>2. PICK i \in DOMAIN audit_log[v.req] : audit_log[v.req][i] = Event(v.phase, v.outcome)
      BY DEF Filed
    <3>3. i \in DOMAIN audit_log'[v.req] /\ audit_log'[v.req][i] = Event(v.phase, v.outcome)
      BY <2>4, <2>8, <2>9, <3>1, <3>2
    <3>q. QED  BY <3>1, <3>3 DEF Filed
  <2>11. Written' \subseteq Written \cup {w}
    <3> SUFFICES ASSUME NEW v \in Written' PROVE v \in Written \/ v = w
      OBVIOUS
    <3>1. v \in Records /\ v.req \in Req
      BY DEF Filed, Records
    <3>2. PICK i \in DOMAIN audit_log'[v.req] : audit_log'[v.req][i] = Event(v.phase, v.outcome)
      BY DEF Filed
    <3>3. CASE v.req # q \/ i \in DOMAIN s
      <4>1. i \in DOMAIN audit_log[v.req] /\ audit_log[v.req][i] = Event(v.phase, v.outcome)
        BY <2>4, <2>8, <2>9, <3>1, <3>2, <3>3
      <4>q. QED  BY <3>1, <4>1 DEF Filed
    <3>4. CASE v.req = q /\ i \notin DOMAIN s
      <4>1. Event(v.phase, v.outcome) = e
        BY <2>8, <2>9, <3>2, <3>4
      <4>2. v.phase = w.phase /\ v.outcome = w.outcome
        BY <2>1, <4>1 DEF Event
      <4>3. v = w
        BY <1>1, <2>2, <3>1, <3>4, <4>2 DEF Records
      <4>q. QED  BY <4>3
    <3>q. QED  BY <3>3, <3>4
  <2>12. w \in Written'
    BY <1>1, <2>1, <2>2, <2>8, <2>9 DEF Filed
  <2>q. QED  BY <2>7, <2>10, <2>11, <2>12
<1>q. QED  BY <1>2, <1>3

(* A finished record_audit leaves the request's state well typed.          *)
LEMMA ReturnsTyped ==
  ASSUME TypeOK, EventInv, NEW r \in Req, NEW ok \in BOOLEAN, pc[r] \in AuditPcs,
         AuditReturns(r, ok)
  PROVE  /\ pc' \in [Req -> Pcs]
         /\ kind' \in [Req -> Kinds]
         /\ event' \in [Req -> Events]
         /\ result' \in [Req -> Results]
         /\ answer' \in [Req -> Answers]
         /\ permits' \in Nat
         /\ lease' \in Req \cup {None}
<1>1. ASSUME NEW a \in Answers, Done(r, a)
      PROVE  /\ pc' \in [Req -> Pcs]
             /\ kind' \in [Req -> Kinds]
             /\ event' \in [Req -> Events]
             /\ result' \in [Req -> Results]
             /\ answer' \in [Req -> Answers]
             /\ permits' \in Nat
             /\ lease' \in Req \cup {None}
  BY <1>1, EventTyped DEF Done, Goto, TypeOK, Pcs, Kinds, Results
<1>2. \/ \E a \in Answers : Done(r, a)
      \/ GoesOn(r, "body")
  <2>1. CASE event[r].phase = "rejection"
    BY <2>1 DEF AuditReturns, EventInv, Answers, Results
  <2>2. CASE event[r].phase = "start"
    BY <2>2 DEF AuditReturns, Answers
  <2>3. CASE event[r].phase = "finish"
    BY <2>3 DEF AuditReturns, Answers, TypeOK, Results
  <2>q. QED  BY <2>1, <2>2, <2>3 DEF AuditReturns
<1>3. CASE GoesOn(r, "body")
  BY <1>3 DEF GoesOn, Goto, TypeOK, Pcs, BodyPcs
<1>q. QED  BY <1>1, <1>2, <1>3

(* Every step of the dispatcher keeps its variables within their types.    *)
LEMMA TypeStep ==
  ASSUME TypeOK, EventInv, [Next]_vars
  PROVE  TypeOK'
<1> USE PcTyped DEF TypeOK, Goto
<1>1. ASSUME NEW r \in Req, NEW k \in Kinds, NEW check \in Refusals \cup {"ok"},
             Arrive(r, k, check)
      PROVE  TypeOK'
  BY <1>1, EventTyped DEF Arrive, NoteEvent
<1>2. ASSUME NEW r \in Req,
             Admit(r)
      PROVE  TypeOK'
  BY <1>2, EventTyped DEF Admit, NoteEvent
<1>3. ASSUME NEW r \in Req,
             CheckLatch(r)
      PROVE  TypeOK'
  BY <1>3, ReturnsTyped DEF CheckLatch, GoesOn
<1>4. ASSUME NEW r \in Req,
             TakeWaiter(r)
      PROVE  TypeOK'
  <2>1. CASE waiters > 0
    BY <1>4, <2>1 DEF TakeWaiter, GoesOn
  <2>2. CASE ~(waiters > 0)
    <3>1. AuditReturns(r, FALSE) /\ pc[r] \in AuditPcs
      BY <1>4, <2>2 DEF TakeWaiter
    <3>q. QED  BY <1>4, <2>2, <3>1, ReturnsTyped DEF TakeWaiter
  <2>q. QED  BY <2>1, <2>2
<1>5. ASSUME NEW r \in Req,
             Resume(r)
      PROVE  TypeOK'
  <2>1. AuditReturns(r, reply[r] = "ok") /\ pc[r] \in AuditPcs /\ waiters' \in Nat
    BY <1>5 DEF Resume
  <2>2. audit_failed' \in BOOLEAN /\ reply' \in [Req -> {"none", "ok", "err"}]
    BY <1>5 DEF Resume
  <2>q. QED  BY <1>5, <2>1, <2>2, ReturnsTyped DEF Resume
<1>6. ASSUME NEW r \in Req,
             Begin(r)
      PROVE  TypeOK'
  BY <1>6, EventTyped DEF Begin, NoteEvent, Results
<1>7. ASSUME NEW r \in Req,
             Close(r)
      PROVE  TypeOK'
  BY <1>7, EventTyped DEF Close, NoteEvent, Results, Enforce
<1>8. ASSUME NEW r \in Req, NEW res \in {"ok", "failed"},
             Project(r, res)
      PROVE  TypeOK'
  BY <1>8 DEF Project, Yields, Enforce, Results
<1>9. ASSUME NEW r \in Req,
             AcquireGate(r)
      PROVE  TypeOK'
  <2>1. CASE audit_failed
    <3>1. AuditReturns(r, FALSE) /\ pc[r] \in AuditPcs
      BY <1>9, <2>1 DEF AcquireGate
    <3>2. waiters' \in Nat
      BY <1>9, <2>1 DEF AcquireGate
    <3>q. QED  BY <1>9, <2>1, <3>1, <3>2, ReturnsTyped DEF AcquireGate
  <2>2. CASE ~audit_failed
    <3>1. Record(r) \in Records
      BY DEF Record, Records, Events
    <3>q. QED  BY <1>9, <2>2, <3>1 DEF AcquireGate, GoesOn
  <2>q. QED  BY <2>1, <2>2
<1>10. ASSUME NEW r \in Req,
             AuditTimeout(r)
      PROVE  TypeOK'
  <2>1. AuditReturns(r, FALSE) /\ pc[r] \in AuditPcs
    BY <1>10 DEF AuditTimeout
  <2>2. waiters' \in Nat /\ audit_failed' \in BOOLEAN
    BY <1>10 DEF AuditTimeout
  <2>q. QED  BY <1>10, <2>1, <2>2, ReturnsTyped DEF AuditTimeout
<1>11. ASSUME NEW r \in Req, NEW res \in {"ok", "failed"},
             ObserveReturns(r, res)
      PROVE  TypeOK'
  BY <1>11 DEF ObserveReturns, Yields, Enforce, Results
<1>12. ASSUME NEW r \in Req, NEW res \in {"ok", "failed"},
             ExecuteReturns(r, res)
      PROVE  TypeOK'
  BY <1>12 DEF ExecuteReturns, Yields, Enforce, Results
<1>13. ASSUME NEW r \in Req, NEW res \in {"ok", "failed", "invalid_cursor"},
             PageReturns(r, res)
      PROVE  TypeOK'
  BY <1>13 DEF PageReturns, Yields, Results
<1>14. ASSUME NEW r \in Req,
             Timer(r)
      PROVE  TypeOK'
  BY <1>14 DEF Timer, Yields, Results
<1>15. ASSUME NEW r \in Req,
             Expire(r)
      PROVE  TypeOK'
  BY <1>15 DEF Expire
<1>16. ASSUME NEW r \in Req,
             Cancel(r)
      PROVE  TypeOK'
  BY <1>16, EventTyped DEF Cancel, Done, Kinds, Results, Answers
<1>17. ASSUME NEW w \in workers, NEW how \in {"ok", "err", "landed", "lost"},
             WorkerReturns(w, how)
      PROVE  TypeOK'
  <2>1. w.req \in Req
    BY DEF Records
  <2>2. workers' \subseteq Records /\ audit_log' \in Logs
    BY <1>17, WorkerFiles DEF WorkerReturns
  <2>3. reply' \in [Req -> {"none", "ok", "err"}] /\ audit_failed' \in BOOLEAN
    BY <1>17, <2>1 DEF WorkerReturns
  <2>4. gate' \in Nat
    BY <1>17 DEF WorkerReturns
  <2>q. QED  BY <1>17, <2>2, <2>3, <2>4 DEF WorkerReturns
<1>18. CASE UNCHANGED vars
  BY <1>18 DEF vars
<1>q. QED
  BY <1>1, <1>2, <1>3, <1>4, <1>5, <1>6, <1>7, <1>8, <1>9, <1>10, <1>11, <1>12, <1>13, <1>14, <1>15, <1>16, <1>17, <1>18 DEF Next, Step, Returns

(* What a finished record_audit does to the request: it goes on to the     *)
(* device work only after a written start, and otherwise ends with an      *)
(* answer that says how its audit went.  Other requests stay as they are.  *)
Others(r) == \A q \in Req : q # r => /\ pc'[q] = pc[q] /\ event'[q] = event[q]
                                    /\ result'[q] = result[q] /\ answer'[q] = answer[q]
Same(r) == event'[r] = event[r] /\ result'[r] = result[r] /\ answer'[r] = answer[r]
Ends(r, ok) ==
  /\ pc'[r] = "done"
  /\ event'[r] = Event("none", "none")
  /\ \/ ok /\ event[r].phase = "rejection" /\ answer'[r] = event[r].outcome
     \/ ok /\ event[r].phase = "finish" /\ answer'[r] = result[r]
     \/ ok /\ event[r].phase = "finish" /\ result[r] = "ok" /\ answer'[r] = "invalid_cursor"
     \/ ~ok /\ event[r].phase # "finish" /\ answer'[r] = "audit_unavailable"
     \/ ~ok /\ event[r].phase = "finish" /\ answer'[r] = "completion_audit_failed"

(* An answer changes the request that gets it, and no other.               *)
LEMMA DoneCase ==
  ASSUME TypeOK, NEW r \in Req, NEW a, Done(r, a)
  PROVE  Others(r) /\ pc'[r] = "done" /\ event'[r] = Event("none", "none") /\ answer'[r] = a
BY DEF TypeOK, Done, Goto, Others

(* A step that only moves on changes where its request is, and no more.    *)
LEMMA GoesOnCase ==
  ASSUME TypeOK, NEW r \in Req, NEW p, GoesOn(r, p)
  PROVE  Others(r) /\ Same(r) /\ pc'[r] = p
BY DEF TypeOK, GoesOn, Goto, Others, Same

(* A record that returns lets the body begin or ends the request.          *)
LEMMA ReturnsCases ==
  ASSUME TypeOK, NEW r \in Req, NEW ok \in BOOLEAN, AuditReturns(r, ok)
  PROVE  /\ Others(r)
         /\ \/ ok /\ event[r].phase = "start" /\ pc'[r] = "body" /\ Same(r)
            \/ Ends(r, ok)
<1>1. CASE event[r].phase = "rejection"
  BY <1>1, DoneCase DEF AuditReturns, Ends
<1>2. CASE event[r].phase = "start"
  BY <1>2, DoneCase, GoesOnCase DEF AuditReturns, Ends
<1>3. CASE event[r].phase = "finish"
  BY <1>3, DoneCase DEF AuditReturns, Ends
<1>q. QED  BY <1>1, <1>2, <1>3 DEF AuditReturns

(* The end of an audit disturbs no other request's event.                  *)
LEMMA EventKept ==
  ASSUME TypeOK, EventInv, NEW r \in Req, NEW ok \in BOOLEAN, AuditReturns(r, ok),
         UNCHANGED expired
  PROVE  EventInv'
<1>1. Others(r) /\ pc'[r] \in {"body", "done"}
  BY ReturnsCases DEF Ends
<1>2. \A q \in Req : q # r =>
        pc'[q] = pc[q] /\ event'[q] = event[q] /\ result'[q] = result[q]
  BY <1>1 DEF Others
<1>3. \A q \in Req : pc'[q] \in AuditPcs => q # r
  BY <1>1, PcTyped
<1>q. QED  BY <1>2, <1>3 DEF EventInv

(* A pending event always says what its request is about to report.        *)
LEMMA EventStep ==
  ASSUME TypeOK, EventInv, Audited, [Next]_vars
  PROVE  EventInv'
<1> USE PcTyped DEF TypeOK, EventInv, Goto, Event, BodyPcs, DevicePcs
<1>1. ASSUME NEW r \in Req, NEW k \in Kinds, NEW check \in Refusals \cup {"ok"},
             Arrive(r, k, check)
      PROVE  EventInv'
  BY <1>1 DEF Arrive, NoteEvent, Event
<1>2. ASSUME NEW r \in Req,
             Admit(r)
      PROVE  EventInv'
  BY <1>2 DEF Admit, NoteEvent, Event
<1>3. ASSUME NEW r \in Req,
             CheckLatch(r)
      PROVE  EventInv'
  <2>1. CASE audit_failed
    BY <1>3, <2>1, EventKept DEF CheckLatch
  <2>2. CASE ~audit_failed
    BY <1>3, <2>2, GoesOnCase DEF CheckLatch, Others, Same
  <2>q. QED  BY <2>1, <2>2
<1>4. ASSUME NEW r \in Req,
             TakeWaiter(r)
      PROVE  EventInv'
  <2>1. CASE waiters > 0
    BY <1>4, <2>1, GoesOnCase DEF TakeWaiter, Others, Same
  <2>2. CASE ~(waiters > 0)
    BY <1>4, <2>2, EventKept DEF TakeWaiter
  <2>q. QED  BY <2>1, <2>2
<1>5. ASSUME NEW r \in Req,
             Resume(r)
      PROVE  EventInv'
  BY <1>5, EventKept DEF Resume
<1>6. ASSUME NEW r \in Req,
             Begin(r)
      PROVE  EventInv'
  <2>1. \A q \in Req : q # r => pc'[q] = pc[q] /\ event'[q] = event[q] /\ result'[q] = result[q]
    BY <1>6 DEF Begin, NoteEvent
  <2>2. CASE pc'[r] = "latch"
    <3>1. event'[r].phase = "finish" /\ result'[r] \in {"ok", "busy"}
      BY <1>6, <2>2 DEF Begin, NoteEvent
    <3>2. event'[r].outcome = (IF result'[r] = "ok" THEN "success" ELSE "failed")
      BY <1>6, <2>2 DEF Begin, NoteEvent
    <3>q. QED  BY <1>6, <2>1, <3>1, <3>2 DEF Begin, Audited, Unbegun
  <2>3. CASE pc'[r] # "latch"
    <3>1. pc'[r] \in {"page", "observe"}
      BY <1>6, <2>3 DEF Begin, NoteEvent
    <3>q. QED  BY <1>6, <2>1, <3>1 DEF Begin
  <2>q. QED  BY <2>2, <2>3
<1>7. ASSUME NEW r \in Req,
             Close(r)
      PROVE  EventInv'
  BY <1>7 DEF Close, NoteEvent, Event, Enforce
<1>8. ASSUME NEW r \in Req, NEW res \in {"ok", "failed"},
             Project(r, res)
      PROVE  EventInv'
  BY <1>8 DEF Project, Yields, Enforce
<1>9. ASSUME NEW r \in Req,
             AcquireGate(r)
      PROVE  EventInv'
  <2>1. CASE audit_failed
    BY <1>9, <2>1, EventKept DEF AcquireGate
  <2>2. CASE ~audit_failed
    BY <1>9, <2>2, GoesOnCase DEF AcquireGate, Others, Same
  <2>q. QED  BY <2>1, <2>2
<1>10. ASSUME NEW r \in Req,
             AuditTimeout(r)
      PROVE  EventInv'
  BY <1>10, EventKept DEF AuditTimeout
<1>11. ASSUME NEW r \in Req, NEW res \in {"ok", "failed"},
             ObserveReturns(r, res)
      PROVE  EventInv'
  BY <1>11 DEF ObserveReturns, Yields, Enforce
<1>12. ASSUME NEW r \in Req, NEW res \in {"ok", "failed"},
             ExecuteReturns(r, res)
      PROVE  EventInv'
  BY <1>12 DEF ExecuteReturns, Yields, Enforce
<1>13. ASSUME NEW r \in Req, NEW res \in {"ok", "failed", "invalid_cursor"},
             PageReturns(r, res)
      PROVE  EventInv'
  BY <1>13 DEF PageReturns, Yields
<1>14. ASSUME NEW r \in Req,
             Timer(r)
      PROVE  EventInv'
  BY <1>14 DEF Timer, Yields
<1>15. ASSUME NEW r \in Req,
             Expire(r)
      PROVE  EventInv'
  BY <1>15 DEF Expire
<1>16. ASSUME NEW r \in Req,
             Cancel(r)
      PROVE  EventInv'
  BY <1>16, DoneCase DEF Cancel, Others, Event
<1>17. ASSUME NEW w \in workers, NEW how \in {"ok", "err", "landed", "lost"},
             WorkerReturns(w, how)
      PROVE  EventInv'
  BY <1>17 DEF WorkerReturns
<1>18. CASE UNCHANGED vars
  BY <1>18 DEF vars
<1>q. QED
  BY <1>1, <1>2, <1>3, <1>4, <1>5, <1>6, <1>7, <1>8, <1>9, <1>10, <1>11, <1>12, <1>13, <1>14, <1>15, <1>16, <1>17, <1>18 DEF Next, Step, Returns

(* The end of an audit keeps the trail: only a written start goes on.      *)
LEMMA TrailKept ==
  ASSUME TypeOK, Trail, NEW r \in Req, NEW ok \in BOOLEAN, AuditReturns(r, ok),
         ok => pc[r] = "write", UNCHANGED <<Written, workers>>
  PROVE  Trail'
<1>1. /\ Others(r)
      /\ pc'[r] = "done" \/ (pc[r] = "write" /\ pc'[r] = "body" /\ event[r].phase = "start")
  BY ReturnsCases DEF Ends
<1>2. ASSUME NEW q \in Req, NEW w \in All', w.req = q, q # r
      PROVE  /\ ~Fresh(q)'
             /\ Started(q)' => w.phase = "start"
             /\ pc'[q] = "write" => w = Record(q)' \/ (w.phase = "start" /\ event'[q].phase = "finish")
  BY <1>1, <1>2 DEF Others, Trail, Fresh, Started, Record, All
<1>3. ASSUME NEW w \in All', w.req = r
      PROVE  /\ ~Fresh(r)'
             /\ Started(r)' => w.phase = "start"
             /\ pc'[r] # "write"
  BY <1>1, <1>3 DEF Trail, Fresh, Started, Record, All, EarlyPcs, BodyPcs, DevicePcs
<1>q. QED  BY <1>2, <1>3 DEF Trail

(* No step lets a request get ahead of its records.                        *)
LEMMA TrailStep ==
  ASSUME TypeOK, Trail, WorkerInv, [Next]_vars
  PROVE  Trail'
<1> USE PcTyped DEF TypeOK, Trail, Fresh, Started, EarlyPcs, BodyPcs, DevicePcs, Goto, Event
<1>1. ASSUME NEW r \in Req, NEW k \in Kinds, NEW check \in Refusals \cup {"ok"},
             Arrive(r, k, check)
      PROVE  Trail'
  BY <1>1 DEF All, Record, Arrive, NoteEvent, Event
<1>2. ASSUME NEW r \in Req,
             Admit(r)
      PROVE  Trail'
  BY <1>2 DEF All, Record, Admit, NoteEvent, Event
<1>3. ASSUME NEW r \in Req,
             CheckLatch(r)
      PROVE  Trail'
  <2>1. CASE audit_failed
    BY <1>3, <2>1, TrailKept DEF CheckLatch
  <2>2. CASE ~audit_failed
    BY <1>3, <2>2, GoesOnCase DEF All, CheckLatch, Others, Same, Record
  <2>q. QED  BY <2>1, <2>2
<1>4. ASSUME NEW r \in Req,
             TakeWaiter(r)
      PROVE  Trail'
  <2>1. CASE waiters > 0
    BY <1>4, <2>1, GoesOnCase DEF All, TakeWaiter, Others, Same, Record
  <2>2. CASE ~(waiters > 0)
    BY <1>4, <2>2, TrailKept DEF TakeWaiter
  <2>q. QED  BY <2>1, <2>2
<1>5. ASSUME NEW r \in Req,
             Resume(r)
      PROVE  Trail'
  <2>1. AuditReturns(r, reply[r] = "ok") /\ pc[r] = "write" /\ UNCHANGED <<Written, workers>>
    BY <1>5 DEF Resume
  <2>q. QED  BY <2>1, TrailKept
<1>6. ASSUME NEW r \in Req,
             Begin(r)
      PROVE  Trail'
  BY <1>6 DEF All, Record, Begin, NoteEvent, Event
<1>7. ASSUME NEW r \in Req,
             Close(r)
      PROVE  Trail'
  BY <1>7 DEF All, Record, Close, NoteEvent, Event, Enforce
<1>8. ASSUME NEW r \in Req, NEW res \in {"ok", "failed"},
             Project(r, res)
      PROVE  Trail'
  BY <1>8 DEF All, Record, Project, Yields, Enforce
<1>9. ASSUME NEW r \in Req,
             AcquireGate(r)
      PROVE  Trail'
  <2>1. CASE audit_failed
    BY <1>9, <2>1, TrailKept DEF AcquireGate
  <2>2. CASE ~audit_failed
    <3>a. workers' = workers \cup {Record(r)} /\ Written' = Written /\ pc[r] = "gate"
      BY <1>9, <2>2 DEF AcquireGate
    <3>b. All' = All \cup {Record(r)}
      BY <3>a DEF All
    <3>1. Others(r) /\ Same(r) /\ pc[r] = "gate" /\ pc'[r] = "write" /\ All' = All \cup {Record(r)}
      BY <1>9, <2>2, <3>a, <3>b, GoesOnCase DEF AcquireGate
    <3>2. Record(r).req = r /\ Record(r)' = Record(r) /\ Record(r).phase = event[r].phase
      BY <3>1 DEF Record, Same
    <3>3. ASSUME NEW q \in Req, NEW w \in All', w.req = q, q # r
          PROVE  /\ ~Fresh(q)'
                 /\ Started(q)' => w.phase = "start"
                 /\ pc'[q] = "write" => w = Record(q)' \/ (w.phase = "start" /\ event'[q].phase = "finish")
      <4>1. w \in All  BY <3>1, <3>2, <3>3
      <4>q. QED  BY <3>1, <3>3, <4>1 DEF Others, Trail, Fresh, Started, Record
    <3>4. ASSUME NEW w \in All', w.req = r
          PROVE  /\ ~Fresh(r)' /\ ~Started(r)'
                 /\ w = Record(r)' \/ (w.phase = "start" /\ event'[r].phase = "finish")
      <4>1. ~Fresh(r)' /\ ~Started(r)'
        BY <3>1 DEF Fresh, Started, EarlyPcs, BodyPcs, DevicePcs
      <4>2. w \in All => w.phase = "start" /\ event[r].phase = "finish"
        BY <3>1, <3>4 DEF Trail, Fresh, Started, EarlyPcs
      <4>q. QED  BY <3>1, <3>2, <4>1, <4>2 DEF Same
    <3>q. QED  BY <3>3, <3>4 DEF Trail
  <2>q. QED  BY <2>1, <2>2
<1>10. ASSUME NEW r \in Req,
             AuditTimeout(r)
      PROVE  Trail'
  BY <1>10, TrailKept DEF AuditTimeout
<1>11. ASSUME NEW r \in Req, NEW res \in {"ok", "failed"},
             ObserveReturns(r, res)
      PROVE  Trail'
  BY <1>11 DEF All, Record, ObserveReturns, Yields, Enforce
<1>12. ASSUME NEW r \in Req, NEW res \in {"ok", "failed"},
             ExecuteReturns(r, res)
      PROVE  Trail'
  BY <1>12 DEF All, Record, ExecuteReturns, Yields, Enforce
<1>13. ASSUME NEW r \in Req, NEW res \in {"ok", "failed", "invalid_cursor"},
             PageReturns(r, res)
      PROVE  Trail'
  BY <1>13 DEF All, Record, PageReturns, Yields
<1>14. ASSUME NEW r \in Req,
             Timer(r)
      PROVE  Trail'
  BY <1>14 DEF All, Record, Timer, Yields
<1>15. ASSUME NEW r \in Req,
             Expire(r)
      PROVE  Trail'
  BY <1>15 DEF All, Record, Expire
<1>16. ASSUME NEW r \in Req,
             Cancel(r)
      PROVE  Trail'
  BY <1>16, DoneCase DEF All, Cancel, Others, Record
<1>17. ASSUME NEW w \in workers, NEW how \in {"ok", "err", "landed", "lost"},
             WorkerReturns(w, how)
      PROVE  Trail'
  <2>1. All' \subseteq All /\ UNCHANGED <<pc, event>>
    <3>1. Written' \subseteq Written \cup {w}
      BY <1>17, WorkerFiles
    <3>q. QED  BY <1>17, <3>1 DEF WorkerReturns, All
  <2>q. QED  BY <2>1 DEF Record
<1>18. CASE UNCHANGED vars
  BY <1>18 DEF All, Record, vars
<1>q. QED
  BY <1>1, <1>2, <1>3, <1>4, <1>5, <1>6, <1>7, <1>8, <1>9, <1>10, <1>11, <1>12, <1>13, <1>14, <1>15, <1>16, <1>17, <1>18 DEF Next, Step, Returns

(* The end of an audit leaves its worker to itself.                        *)
LEMMA WorkerKept ==
  ASSUME TypeOK, WorkerInv, NEW r \in Req, NEW ok \in BOOLEAN, AuditReturns(r, ok),
         ok => pc[r] = "write" /\ reply[r] # "none",
         reply' = [reply EXCEPT ![r] = "none"], UNCHANGED <<Written, workers>>
  PROVE  WorkerInv'
<1>1. /\ Others(r)
      /\ pc'[r] = "done" \/ (pc'[r] = "body" /\ pc[r] = "write" /\ reply[r] # "none")
  BY ReturnsCases DEF Ends
<1>2. \A w \in workers : w \in Records /\ w.req \in Req
  BY DEF TypeOK, Records
<1>3. \A w \in workers : w.req = r => pc'[r] = "done"
  BY <1>1, <1>2 DEF WorkerInv
<1>4. \A q \in Req : q # r => /\ pc'[q] = pc[q] /\ reply'[q] = reply[q]
                              /\ Record(q)' = Record(q)
  BY <1>1 DEF Others, Record, TypeOK
<1>5. reply'[r] = "none"
  BY DEF TypeOK
<1>6. ASSUME NEW w \in workers'
      PROVE  /\ pc'[w.req] \in {"write", "done"}
             /\ pc'[w.req] = "write" => w = Record(w.req)' /\ reply'[w.req] = "none"
  <2>1. CASE w.req = r
    BY <1>3, <2>1
  <2>2. CASE w.req # r
    BY <1>2, <1>4, <2>2 DEF WorkerInv
  <2>q. QED  BY <2>1, <2>2
<1>7. ASSUME NEW q \in Req
      PROVE  /\ reply'[q] # "none" => pc'[q] = "write"
             /\ reply'[q] = "ok" => Record(q)' \in Written'
  BY <1>4, <1>5 DEF WorkerInv
<1>q. QED  BY <1>6, <1>7 DEF WorkerInv

(* A step that moves only r, which has no worker and awaits none, and      *)
(* leaves it outside the audit, keeps the workers' invariant.              *)
LEMMA WorkerFrame ==
  ASSUME TypeOK, WorkerInv, NEW r \in Req,
         pc[r] \notin {"write", "done"}, pc'[r] # "write",
         \A q \in Req : q # r => pc'[q] = pc[q] /\ event'[q] = event[q],
         UNCHANGED <<reply, Written, workers>>
  PROVE  WorkerInv'
<1>1. \A w \in workers : w.req \in Req /\ w.req # r
  BY DEF WorkerInv, TypeOK, Records
<1>2. reply[r] = "none"
  BY DEF WorkerInv, TypeOK
<1>3. \A q \in Req : q # r => Record(q)' = Record(q)
  BY DEF Record
<1>q. QED  BY <1>1, <1>2, <1>3 DEF WorkerInv

(* A worker is always its own future's, and what it replied is written.    *)
LEMMA WorkerStep ==
  ASSUME TypeOK, WorkerInv, [Next]_vars
  PROVE  WorkerInv'
<1> USE PcTyped DEF TypeOK, WorkerInv, BodyPcs, DevicePcs, Goto, Event
<1>1. ASSUME NEW r \in Req, NEW k \in Kinds, NEW check \in Refusals \cup {"ok"},
             Arrive(r, k, check)
      PROVE  WorkerInv'
  <2>1. /\ pc[r] \notin {"write", "done"} /\ pc'[r] # "write"
        /\ \A q \in Req : q # r => pc'[q] = pc[q] /\ event'[q] = event[q]
        /\ UNCHANGED <<reply, Written, workers>>
    BY <1>1 DEF Arrive, NoteEvent, Event
  <2>q. QED  BY <2>1, WorkerFrame
<1>2. ASSUME NEW r \in Req,
             Admit(r)
      PROVE  WorkerInv'
  <2>1. /\ pc[r] \notin {"write", "done"} /\ pc'[r] # "write"
        /\ \A q \in Req : q # r => pc'[q] = pc[q] /\ event'[q] = event[q]
        /\ UNCHANGED <<reply, Written, workers>>
    BY <1>2 DEF Admit, NoteEvent, Event
  <2>q. QED  BY <2>1, WorkerFrame
<1>3. ASSUME NEW r \in Req,
             CheckLatch(r)
      PROVE  WorkerInv'
  <2>1. CASE audit_failed
    <3>1. AuditReturns(r, FALSE) /\ UNCHANGED <<reply, Written, workers>> /\ reply[r] = "none"
      BY <1>3, <2>1 DEF CheckLatch
    <3>2. reply' = [reply EXCEPT ![r] = "none"]
      BY <3>1
    <3>q. QED  BY <3>1, <3>2, WorkerKept
  <2>2. CASE ~audit_failed
    BY <1>3, <2>2, GoesOnCase, WorkerFrame DEF CheckLatch, Others
  <2>q. QED  BY <2>1, <2>2
<1>4. ASSUME NEW r \in Req,
             TakeWaiter(r)
      PROVE  WorkerInv'
  <2>1. CASE ~(waiters > 0)
    <3>1. AuditReturns(r, FALSE) /\ UNCHANGED <<reply, Written, workers>> /\ reply[r] = "none"
      BY <1>4, <2>1 DEF TakeWaiter
    <3>2. reply' = [reply EXCEPT ![r] = "none"]
      BY <3>1
    <3>q. QED  BY <3>1, <3>2, WorkerKept
  <2>2. CASE waiters > 0
    BY <1>4, <2>2, GoesOnCase, WorkerFrame DEF TakeWaiter, Others
  <2>q. QED  BY <2>1, <2>2
<1>5. ASSUME NEW r \in Req,
             Resume(r)
      PROVE  WorkerInv'
  <2>1. /\ AuditReturns(r, reply[r] = "ok") /\ pc[r] = "write" /\ reply[r] # "none"
        /\ reply' = [reply EXCEPT ![r] = "none"] /\ UNCHANGED <<Written, workers>>
    BY <1>5 DEF Resume
  <2>q. QED  BY <2>1, WorkerKept
<1>6. ASSUME NEW r \in Req,
             Begin(r)
      PROVE  WorkerInv'
  <2>1. /\ pc[r] \notin {"write", "done"} /\ pc'[r] # "write"
        /\ \A q \in Req : q # r => pc'[q] = pc[q] /\ event'[q] = event[q]
        /\ UNCHANGED <<reply, Written, workers>>
    BY <1>6 DEF Begin, NoteEvent, Event
  <2>q. QED  BY <2>1, WorkerFrame
<1>7. ASSUME NEW r \in Req,
             Close(r)
      PROVE  WorkerInv'
  <2>1. /\ pc[r] \notin {"write", "done"} /\ pc'[r] # "write"
        /\ \A q \in Req : q # r => pc'[q] = pc[q] /\ event'[q] = event[q]
        /\ UNCHANGED <<reply, Written, workers>>
    BY <1>7 DEF Close, NoteEvent, Event, Enforce
  <2>q. QED  BY <2>1, WorkerFrame
<1>8. ASSUME NEW r \in Req, NEW res \in {"ok", "failed"},
             Project(r, res)
      PROVE  WorkerInv'
  <2>1. /\ pc[r] \notin {"write", "done"} /\ pc'[r] # "write"
        /\ \A q \in Req : q # r => pc'[q] = pc[q] /\ event'[q] = event[q]
        /\ UNCHANGED <<reply, Written, workers>>
    BY <1>8 DEF Project, Yields, Enforce
  <2>q. QED  BY <2>1, WorkerFrame
<1>9. ASSUME NEW r \in Req,
             AcquireGate(r)
      PROVE  WorkerInv'
  <2>1. CASE audit_failed
    <3>1. AuditReturns(r, FALSE) /\ UNCHANGED <<reply, Written, workers>> /\ reply[r] = "none"
      BY <1>9, <2>1 DEF AcquireGate
    <3>2. reply' = [reply EXCEPT ![r] = "none"]
      BY <3>1
    <3>q. QED  BY <3>1, <3>2, WorkerKept
  <2>2. CASE ~audit_failed
    <3>1. Others(r) /\ Same(r) /\ pc[r] = "gate" /\ pc'[r] = "write"
      BY <1>9, <2>2, GoesOnCase DEF AcquireGate
    <3>2. workers' = workers \cup {Record(r)} /\ UNCHANGED <<reply, Written>>
      BY <1>9, <2>2 DEF AcquireGate
    <3>3. \A w \in workers : w.req \in Req /\ w.req # r
      BY <3>1 DEF Records
    <3>4. \A q \in Req : Record(q)' = Record(q) /\ Record(q).req = q
      BY <3>1 DEF Record, Others, Same
    <3>5. reply[r] = "none"
      BY <3>1
    <3>6. \A q \in Req : q # r => pc'[q] = pc[q]
      BY <3>1 DEF Others
    <3>q. QED  BY <3>1, <3>2, <3>3, <3>4, <3>5, <3>6
  <2>q. QED  BY <2>1, <2>2
<1>10. ASSUME NEW r \in Req,
             AuditTimeout(r)
      PROVE  WorkerInv'
  <2>1. AuditReturns(r, FALSE) /\ UNCHANGED <<reply, Written, workers>> /\ reply[r] = "none"
    BY <1>10 DEF AuditTimeout
  <2>2. reply' = [reply EXCEPT ![r] = "none"]
    BY <2>1
  <2>q. QED  BY <2>1, <2>2, WorkerKept
<1>11. ASSUME NEW r \in Req, NEW res \in {"ok", "failed"},
             ObserveReturns(r, res)
      PROVE  WorkerInv'
  <2>1. /\ pc[r] \notin {"write", "done"} /\ pc'[r] # "write"
        /\ \A q \in Req : q # r => pc'[q] = pc[q] /\ event'[q] = event[q]
        /\ UNCHANGED <<reply, Written, workers>>
    BY <1>11 DEF ObserveReturns, Yields, Enforce
  <2>q. QED  BY <2>1, WorkerFrame
<1>12. ASSUME NEW r \in Req, NEW res \in {"ok", "failed"},
             ExecuteReturns(r, res)
      PROVE  WorkerInv'
  <2>1. /\ pc[r] \notin {"write", "done"} /\ pc'[r] # "write"
        /\ \A q \in Req : q # r => pc'[q] = pc[q] /\ event'[q] = event[q]
        /\ UNCHANGED <<reply, Written, workers>>
    BY <1>12 DEF ExecuteReturns, Yields, Enforce
  <2>q. QED  BY <2>1, WorkerFrame
<1>13. ASSUME NEW r \in Req, NEW res \in {"ok", "failed", "invalid_cursor"},
             PageReturns(r, res)
      PROVE  WorkerInv'
  <2>1. /\ pc[r] \notin {"write", "done"} /\ pc'[r] # "write"
        /\ \A q \in Req : q # r => pc'[q] = pc[q] /\ event'[q] = event[q]
        /\ UNCHANGED <<reply, Written, workers>>
    BY <1>13 DEF PageReturns, Yields
  <2>q. QED  BY <2>1, WorkerFrame
<1>14. ASSUME NEW r \in Req,
             Timer(r)
      PROVE  WorkerInv'
  <2>1. /\ pc[r] \notin {"write", "done"} /\ pc'[r] # "write"
        /\ \A q \in Req : q # r => pc'[q] = pc[q] /\ event'[q] = event[q]
        /\ UNCHANGED <<reply, Written, workers>>
    BY <1>14 DEF Timer, Yields
  <2>q. QED  BY <2>1, WorkerFrame
<1>15. ASSUME NEW r \in Req,
             Expire(r)
      PROVE  WorkerInv'
  BY <1>15 DEF Expire, Record
<1>16. ASSUME NEW r \in Req,
             Cancel(r)
      PROVE  WorkerInv'
  <2>1. Others(r) /\ pc'[r] = "done" /\ UNCHANGED <<Written, workers>>
    BY <1>16, DoneCase DEF Cancel
  <2>2. reply' = [reply EXCEPT ![r] = "none"]
    BY <1>16 DEF Cancel
  <2>3. \A w \in workers : w.req \in Req
    BY DEF Records
  <2>4. \A q \in Req : q # r => /\ pc'[q] = pc[q] /\ reply'[q] = reply[q]
                                /\ Record(q)' = Record(q)
    BY <2>1, <2>2 DEF Others, Record
  <2>q. QED  BY <2>1, <2>2, <2>3, <2>4
<1>17. ASSUME NEW w \in workers, NEW how \in {"ok", "err", "landed", "lost"},
             WorkerReturns(w, how)
      PROVE  WorkerInv'
  <2>1. w.req \in Req /\ \A v \in workers : v.req \in Req
    BY DEF Records
  <2>2. /\ workers' = workers \ {w} /\ UNCHANGED <<pc, event>> /\ Written \subseteq Written'
        /\ how \in {"ok", "landed"} => w \in Written'
        /\ \A q \in Req : Record(q)' = Record(q)
    BY <1>17, WorkerFiles DEF WorkerReturns, Record
  <2>3. CASE pc[w.req] = "write"
    <3>1. w = Record(w.req) /\ reply[w.req] = "none"
      BY <2>3
    <3>2. \A v \in workers' : v.req # w.req
      BY <2>1, <2>2, <2>3, <3>1
    <3>3. /\ reply'[w.req] = "ok" => w \in Written'
          /\ \A q \in Req : q # w.req => reply'[q] = reply[q]
      BY <1>17, <2>1, <2>2, <2>3 DEF WorkerReturns
    <3>q. QED  BY <2>1, <2>2, <2>3, <3>1, <3>2, <3>3
  <2>4. CASE pc[w.req] # "write"
    BY <1>17, <2>1, <2>2, <2>4 DEF WorkerReturns
  <2>q. QED  BY <2>3, <2>4
<1>18. CASE UNCHANGED vars
  BY <1>18 DEF vars, Record
<1>q. QED
  BY <1>1, <1>2, <1>3, <1>4, <1>5, <1>6, <1>7, <1>8, <1>9, <1>10, <1>11, <1>12, <1>13, <1>14, <1>15, <1>16, <1>17, <1>18 DEF Next, Step, Returns

(* The end of an audit: a request goes on only if its start is written.    *)
LEMMA AuditedKept ==
  ASSUME TypeOK, WorkerInv, Audited, NEW r \in Req, NEW ok \in BOOLEAN,
         AuditReturns(r, ok), pc[r] \in AuditPcs,
         ok => pc[r] = "write" /\ reply[r] = "ok",
         UNCHANGED <<Written, touched, expired>>
  PROVE  Audited'
<1>1. /\ Others(r)
      /\ \/ pc'[r] = "done"
         \/ pc'[r] = "body" /\ event[r].phase = "start" /\ event'[r] = event[r] /\ reply[r] = "ok"
  BY ReturnsCases DEF Ends, Same
<1>2. \A q \in Req : Wrote(q, "start")' = Wrote(q, "start")
  BY DEF Wrote
<1>3. WorkIsAudited'
  BY <1>2 DEF Audited, WorkIsAudited
<1>4. \A q \in Req : q # r => (Active(q)' => Active(q)) /\ (Unbegun(q)' => Unbegun(q))
  BY <1>1 DEF Others, Active, Unbegun
<1>5. CASE pc'[r] = "done"
  <2>1. ~Active(r)' /\ ~Unbegun(r)'
    BY <1>5, PcTyped DEF Active, Unbegun, BodyPcs, DevicePcs
  <2>q. QED  BY <1>2, <1>3, <1>4, <2>1 DEF Audited
<1>6. CASE pc'[r] # "done"
  <2>1. event[r].phase = "start" /\ reply[r] = "ok" /\ pc[r] \in AuditPcs
    BY <1>1, <1>6
  <2>2. Record(r) \in Written /\ Record(r).req = r /\ Record(r).phase = "start"
    BY <2>1 DEF WorkerInv, Record
  <2>3. Wrote(r, "start")
    BY <2>2 DEF Wrote
  <2>4. Unbegun(r)
    BY <2>1 DEF Unbegun
  <2>q. QED  BY <1>2, <1>3, <1>4, <2>3, <2>4 DEF Audited
<1>q. QED  BY <1>5, <1>6

(* A step that moves only r and keeps it active or unbegun, as it is.      *)
LEMMA AuditedFrame ==
  ASSUME TypeOK, Audited, NEW r \in Req,
         \A q \in Req : q # r => /\ pc'[q] = pc[q] /\ event'[q] = event[q]
                                 /\ touched'[q] = touched[q] /\ expired'[q] = expired[q],
         Active(r)' => Active(r),
         Unbegun(r)' => Unbegun(r) /\ touched'[r] = touched[r] /\ expired'[r] = expired[r],
         touched'[r] => touched[r] \/ Active(r),
         UNCHANGED Written
  PROVE  Audited'
<1>1. \A q \in Req : Wrote(q, "start")' = Wrote(q, "start")
  BY DEF Wrote
<1>2. \A q \in Req : q # r => (Active(q)' => Active(q)) /\ (Unbegun(q)' => Unbegun(q))
  BY DEF Active, Unbegun
<1>3. WorkIsAudited'
  BY <1>1 DEF Audited, WorkIsAudited
<1>q. QED  BY <1>1, <1>2, <1>3 DEF Audited

(* No step begins device work that has no written start record.            *)
LEMMA AuditedStep ==
  ASSUME TypeOK, WorkerInv, Audited, [Next]_vars
  PROVE  Audited'
<1> USE PcTyped DEF TypeOK, BodyPcs, DevicePcs, Goto, Event
<1>1. ASSUME NEW r \in Req, NEW k \in Kinds, NEW check \in Refusals \cup {"ok"},
             Arrive(r, k, check)
      PROVE  Audited'
  <2>1. /\ \A q \in Req : q # r => /\ pc'[q] = pc[q] /\ event'[q] = event[q]
                                 /\ touched'[q] = touched[q] /\ expired'[q] = expired[q]
        /\ UNCHANGED Written
    BY <1>1 DEF Arrive, NoteEvent, Event
  <2>2. Active(r)' => Active(r)
    BY <1>1 DEF Arrive, NoteEvent, Event, Active
  <2>3. Unbegun(r)' => Unbegun(r) /\ touched'[r] = touched[r] /\ expired'[r] = expired[r]
    BY <1>1 DEF Arrive, NoteEvent, Event, Unbegun
  <2>4. touched'[r] => touched[r] \/ Active(r)
    BY <1>1 DEF Arrive, NoteEvent, Event, Active
  <2>q. QED  BY <2>1, <2>2, <2>3, <2>4, AuditedFrame
<1>2. ASSUME NEW r \in Req,
             Admit(r)
      PROVE  Audited'
  <2>1. /\ \A q \in Req : q # r => /\ pc'[q] = pc[q] /\ event'[q] = event[q]
                                 /\ touched'[q] = touched[q] /\ expired'[q] = expired[q]
        /\ UNCHANGED Written
    BY <1>2 DEF Admit, NoteEvent, Event
  <2>2. Active(r)' => Active(r)
    BY <1>2 DEF Admit, NoteEvent, Event, Active
  <2>3. Unbegun(r)' => Unbegun(r) /\ touched'[r] = touched[r] /\ expired'[r] = expired[r]
    BY <1>2 DEF Admit, NoteEvent, Event, Unbegun
  <2>4. touched'[r] => touched[r] \/ Active(r)
    BY <1>2 DEF Admit, NoteEvent, Event, Active
  <2>q. QED  BY <2>1, <2>2, <2>3, <2>4, AuditedFrame
<1>3. ASSUME NEW r \in Req,
             CheckLatch(r)
      PROVE  Audited'
  <2>1. CASE audit_failed
    BY <1>3, <2>1, AuditedKept DEF CheckLatch
  <2>2. CASE ~audit_failed
    <3>1. Others(r) /\ Same(r) /\ UNCHANGED <<Written, touched, expired>>
          /\ pc[r] \in AuditPcs /\ pc'[r] \in AuditPcs
      BY <1>3, <2>2, GoesOnCase DEF CheckLatch
    <3>2. (Active(r)' => Active(r)) /\ (Unbegun(r)' => Unbegun(r))
      BY <3>1 DEF Active, Unbegun, Same
    <3>q. QED  BY <3>1, <3>2, AuditedFrame DEF Others
  <2>q. QED  BY <2>1, <2>2
<1>4. ASSUME NEW r \in Req,
             TakeWaiter(r)
      PROVE  Audited'
  <2>1. CASE ~(waiters > 0)
    BY <1>4, <2>1, AuditedKept DEF TakeWaiter
  <2>2. CASE waiters > 0
    <3>1. Others(r) /\ Same(r) /\ UNCHANGED <<Written, touched, expired>>
          /\ pc[r] \in AuditPcs /\ pc'[r] \in AuditPcs
      BY <1>4, <2>2, GoesOnCase DEF TakeWaiter
    <3>2. (Active(r)' => Active(r)) /\ (Unbegun(r)' => Unbegun(r))
      BY <3>1 DEF Active, Unbegun, Same
    <3>q. QED  BY <3>1, <3>2, AuditedFrame DEF Others
  <2>q. QED  BY <2>1, <2>2
<1>5. ASSUME NEW r \in Req,
             Resume(r)
      PROVE  Audited'
  <2>1. /\ AuditReturns(r, reply[r] = "ok") /\ pc[r] = "write"
        /\ UNCHANGED <<Written, touched, expired>>
    BY <1>5 DEF Resume
  <2>q. QED  BY <2>1, AuditedKept
<1>6. ASSUME NEW r \in Req,
             Begin(r)
      PROVE  Audited'
  <2>1. /\ \A q \in Req : q # r => /\ pc'[q] = pc[q] /\ event'[q] = event[q]
                                 /\ touched'[q] = touched[q] /\ expired'[q] = expired[q]
        /\ UNCHANGED Written
    BY <1>6 DEF Begin, NoteEvent, Event
  <2>2. Active(r)' => Active(r)
    BY <1>6 DEF Begin, NoteEvent, Event, Active
  <2>3. Unbegun(r)' => Unbegun(r) /\ touched'[r] = touched[r] /\ expired'[r] = expired[r]
    BY <1>6 DEF Begin, NoteEvent, Event, Unbegun
  <2>4. touched'[r] => touched[r] \/ Active(r)
    BY <1>6 DEF Begin, NoteEvent, Event, Active
  <2>q. QED  BY <2>1, <2>2, <2>3, <2>4, AuditedFrame
<1>7. ASSUME NEW r \in Req,
             Close(r)
      PROVE  Audited'
  <2>1. /\ \A q \in Req : q # r => /\ pc'[q] = pc[q] /\ event'[q] = event[q]
                                 /\ touched'[q] = touched[q] /\ expired'[q] = expired[q]
        /\ UNCHANGED Written
    BY <1>7 DEF Close, NoteEvent, Event, Enforce
  <2>2. Active(r)' => Active(r)
    BY <1>7 DEF Close, NoteEvent, Event, Enforce, Active
  <2>3. Unbegun(r)' => Unbegun(r) /\ touched'[r] = touched[r] /\ expired'[r] = expired[r]
    BY <1>7 DEF Close, NoteEvent, Event, Enforce, Unbegun
  <2>4. touched'[r] => touched[r] \/ Active(r)
    BY <1>7 DEF Close, NoteEvent, Event, Enforce, Active
  <2>q. QED  BY <2>1, <2>2, <2>3, <2>4, AuditedFrame
<1>8. ASSUME NEW r \in Req, NEW res \in {"ok", "failed"},
             Project(r, res)
      PROVE  Audited'
  <2>1. /\ \A q \in Req : q # r => /\ pc'[q] = pc[q] /\ event'[q] = event[q]
                                 /\ touched'[q] = touched[q] /\ expired'[q] = expired[q]
        /\ UNCHANGED Written
    BY <1>8 DEF Project, Yields, Enforce
  <2>2. Active(r)' => Active(r)
    BY <1>8 DEF Project, Yields, Enforce, Active
  <2>3. Unbegun(r)' => Unbegun(r) /\ touched'[r] = touched[r] /\ expired'[r] = expired[r]
    BY <1>8 DEF Project, Yields, Enforce, Unbegun
  <2>4. touched'[r] => touched[r] \/ Active(r)
    BY <1>8 DEF Project, Yields, Enforce, Active
  <2>q. QED  BY <2>1, <2>2, <2>3, <2>4, AuditedFrame
<1>9. ASSUME NEW r \in Req,
             AcquireGate(r)
      PROVE  Audited'
  <2>1. CASE audit_failed
    BY <1>9, <2>1, AuditedKept DEF AcquireGate
  <2>2. CASE ~audit_failed
    <3>1. Others(r) /\ Same(r) /\ UNCHANGED <<Written, touched, expired>>
          /\ pc[r] \in AuditPcs /\ pc'[r] \in AuditPcs
      BY <1>9, <2>2, GoesOnCase DEF AcquireGate
    <3>2. (Active(r)' => Active(r)) /\ (Unbegun(r)' => Unbegun(r))
      BY <3>1 DEF Active, Unbegun, Same
    <3>q. QED  BY <3>1, <3>2, AuditedFrame DEF Others
  <2>q. QED  BY <2>1, <2>2
<1>10. ASSUME NEW r \in Req,
             AuditTimeout(r)
      PROVE  Audited'
  BY <1>10, AuditedKept DEF AuditTimeout
<1>11. ASSUME NEW r \in Req, NEW res \in {"ok", "failed"},
             ObserveReturns(r, res)
      PROVE  Audited'
  <2>1. /\ \A q \in Req : q # r => /\ pc'[q] = pc[q] /\ event'[q] = event[q]
                                 /\ touched'[q] = touched[q] /\ expired'[q] = expired[q]
        /\ UNCHANGED Written
    BY <1>11 DEF ObserveReturns, Yields, Enforce
  <2>2. Active(r)' => Active(r)
    BY <1>11 DEF ObserveReturns, Yields, Enforce, Active
  <2>3. Unbegun(r)' => Unbegun(r) /\ touched'[r] = touched[r] /\ expired'[r] = expired[r]
    BY <1>11 DEF ObserveReturns, Yields, Enforce, Unbegun
  <2>4. touched'[r] => touched[r] \/ Active(r)
    BY <1>11 DEF ObserveReturns, Yields, Enforce, Active
  <2>q. QED  BY <2>1, <2>2, <2>3, <2>4, AuditedFrame
<1>12. ASSUME NEW r \in Req, NEW res \in {"ok", "failed"},
             ExecuteReturns(r, res)
      PROVE  Audited'
  <2>1. /\ \A q \in Req : q # r => /\ pc'[q] = pc[q] /\ event'[q] = event[q]
                                 /\ touched'[q] = touched[q] /\ expired'[q] = expired[q]
        /\ UNCHANGED Written
    BY <1>12 DEF ExecuteReturns, Yields, Enforce
  <2>2. Active(r)' => Active(r)
    BY <1>12 DEF ExecuteReturns, Yields, Enforce, Active
  <2>3. Unbegun(r)' => Unbegun(r) /\ touched'[r] = touched[r] /\ expired'[r] = expired[r]
    BY <1>12 DEF ExecuteReturns, Yields, Enforce, Unbegun
  <2>4. touched'[r] => touched[r] \/ Active(r)
    BY <1>12 DEF ExecuteReturns, Yields, Enforce, Active
  <2>q. QED  BY <2>1, <2>2, <2>3, <2>4, AuditedFrame
<1>13. ASSUME NEW r \in Req, NEW res \in {"ok", "failed", "invalid_cursor"},
             PageReturns(r, res)
      PROVE  Audited'
  <2>1. /\ \A q \in Req : q # r => /\ pc'[q] = pc[q] /\ event'[q] = event[q]
                                 /\ touched'[q] = touched[q] /\ expired'[q] = expired[q]
        /\ UNCHANGED Written
    BY <1>13 DEF PageReturns, Yields
  <2>2. Active(r)' => Active(r)
    BY <1>13 DEF PageReturns, Yields, Active
  <2>3. Unbegun(r)' => Unbegun(r) /\ touched'[r] = touched[r] /\ expired'[r] = expired[r]
    BY <1>13 DEF PageReturns, Yields, Unbegun
  <2>4. touched'[r] => touched[r] \/ Active(r)
    BY <1>13 DEF PageReturns, Yields, Active
  <2>q. QED  BY <2>1, <2>2, <2>3, <2>4, AuditedFrame
<1>14. ASSUME NEW r \in Req,
             Timer(r)
      PROVE  Audited'
  <2>1. /\ \A q \in Req : q # r => /\ pc'[q] = pc[q] /\ event'[q] = event[q]
                                 /\ touched'[q] = touched[q] /\ expired'[q] = expired[q]
        /\ UNCHANGED Written
    BY <1>14 DEF Timer, Yields
  <2>2. Active(r)' => Active(r)
    BY <1>14 DEF Timer, Yields, Active
  <2>3. Unbegun(r)' => Unbegun(r) /\ touched'[r] = touched[r] /\ expired'[r] = expired[r]
    BY <1>14 DEF Timer, Yields, Unbegun
  <2>4. touched'[r] => touched[r] \/ Active(r)
    BY <1>14 DEF Timer, Yields, Active
  <2>q. QED  BY <2>1, <2>2, <2>3, <2>4, AuditedFrame
<1>15. ASSUME NEW r \in Req,
             Expire(r)
      PROVE  Audited'
  <2>1. /\ \A q \in Req : q # r => /\ pc'[q] = pc[q] /\ event'[q] = event[q]
                                 /\ touched'[q] = touched[q] /\ expired'[q] = expired[q]
        /\ UNCHANGED Written
    BY <1>15 DEF Expire
  <2>2. Active(r)' => Active(r)
    BY <1>15 DEF Expire, Active
  <2>3. Unbegun(r)' => Unbegun(r) /\ touched'[r] = touched[r] /\ expired'[r] = expired[r]
    BY <1>15 DEF Expire, Unbegun
  <2>4. touched'[r] => touched[r] \/ Active(r)
    BY <1>15 DEF Expire, Active
  <2>q. QED  BY <2>1, <2>2, <2>3, <2>4, AuditedFrame
<1>16. ASSUME NEW r \in Req,
             Cancel(r)
      PROVE  Audited'
  <2>1. Others(r) /\ pc'[r] = "done" /\ UNCHANGED <<Written, touched, expired>>
    BY <1>16, DoneCase DEF Cancel
  <2>2. ~Active(r)' /\ ~Unbegun(r)'
    BY <2>1 DEF Active, Unbegun
  <2>q. QED  BY <2>1, <2>2, AuditedFrame DEF Others
<1>17. ASSUME NEW w \in workers, NEW how \in {"ok", "err", "landed", "lost"},
             WorkerReturns(w, how)
      PROVE  Audited'
  <2>1. Written \subseteq Written' /\ UNCHANGED <<pc, event, touched, expired>>
    BY <1>17, WorkerFiles DEF WorkerReturns
  <2>2. \A q \in Req : /\ Wrote(q, "start") => Wrote(q, "start")'
                       /\ Active(q)' = Active(q) /\ Unbegun(q)' = Unbegun(q)
    BY <2>1 DEF Wrote, Active, Unbegun
  <2>q. QED  BY <2>1, <2>2 DEF Audited, WorkIsAudited
<1>18. CASE UNCHANGED vars
  BY <1>18 DEF vars, Audited, WorkIsAudited, Wrote, Active, Unbegun
<1>q. QED
  BY <1>1, <1>2, <1>3, <1>4, <1>5, <1>6, <1>7, <1>8, <1>9, <1>10, <1>11, <1>12, <1>13, <1>14, <1>15, <1>16, <1>17, <1>18 DEF Next, Step, Returns

(* No step puts a late success, or a second verdict, on its way.           *)
LEMMA VerdictStep ==
  ASSUME TypeOK, EventInv, Trail, Verdicts, [Next]_vars
  PROVE  Verdicts'
<1>1. ASSUME NEW r \in Req, NEW k \in Kinds, NEW check \in Refusals \cup {"ok"},
             Arrive(r, k, check)
      PROVE  Verdicts'
  <2>1. UNCHANGED <<Written, workers, expired>>
    BY <1>1 DEF Arrive
  <2>q. QED  BY <2>1 DEF Verdicts, All
<1>2. ASSUME NEW r \in Req,
             Admit(r)
      PROVE  Verdicts'
  <2>1. UNCHANGED <<Written, workers, expired>>
    BY <1>2 DEF Admit
  <2>q. QED  BY <2>1 DEF Verdicts, All
<1>3. ASSUME NEW r \in Req,
             CheckLatch(r)
      PROVE  Verdicts'
  <2>1. UNCHANGED <<Written, workers, expired>>
    BY <1>3 DEF CheckLatch
  <2>q. QED  BY <2>1 DEF Verdicts, All
<1>4. ASSUME NEW r \in Req,
             TakeWaiter(r)
      PROVE  Verdicts'
  <2>1. UNCHANGED <<Written, workers, expired>>
    BY <1>4 DEF TakeWaiter
  <2>q. QED  BY <2>1 DEF Verdicts, All
<1>5. ASSUME NEW r \in Req,
             Resume(r)
      PROVE  Verdicts'
  <2>1. UNCHANGED <<Written, workers, expired>>
    BY <1>5 DEF Resume
  <2>q. QED  BY <2>1 DEF Verdicts, All
<1>6. ASSUME NEW r \in Req,
             Begin(r)
      PROVE  Verdicts'
  <2>1. UNCHANGED <<Written, workers, expired>>
    BY <1>6 DEF Begin
  <2>q. QED  BY <2>1 DEF Verdicts, All
<1>7. ASSUME NEW r \in Req,
             Close(r)
      PROVE  Verdicts'
  <2>1. UNCHANGED <<Written, workers, expired>>
    BY <1>7 DEF Close
  <2>q. QED  BY <2>1 DEF Verdicts, All
<1>8. ASSUME NEW r \in Req, NEW res \in {"ok", "failed"},
             Project(r, res)
      PROVE  Verdicts'
  <2>1. UNCHANGED <<Written, workers, expired>>
    BY <1>8 DEF Project, Yields
  <2>q. QED  BY <2>1 DEF Verdicts, All
<1>9. ASSUME NEW r \in Req,
             AcquireGate(r)
      PROVE  Verdicts'
  <2>1. CASE audit_failed
    <3>1. UNCHANGED <<Written, workers, expired>>
      BY <1>9, <2>1 DEF AcquireGate
    <3>q. QED  BY <3>1 DEF Verdicts, All
  <2>2. CASE ~audit_failed
    <3>1. workers' = workers \cup {Record(r)} /\ UNCHANGED <<Written, expired>> /\ pc[r] = "gate"
      BY <1>9, <2>2 DEF AcquireGate
    <3>2. All' = All \cup {Record(r)}
      BY <3>1 DEF All
    <3>3. Record(r).req = r /\ Record(r).phase = event[r].phase /\ Record(r).outcome = event[r].outcome
      BY DEF Record
    <3>4. Record(r).phase = "finish" /\ Record(r).outcome = "success" => ~expired[r]
      BY <3>1, <3>3, PcTyped DEF EventInv
    <3>5. \A w \in All : w.req = r => w.phase = "start" /\ Record(r).phase = "finish"
      BY <3>1, <3>3 DEF Trail, Fresh, Started, EarlyPcs
    <3>6. \A w \in All' : w.phase = "finish" /\ w.outcome = "success" => ~expired'[w.req]
      BY <3>1, <3>2, <3>3, <3>4 DEF Verdicts
    <3>7. ASSUME NEW v \in All', NEW w \in All', v.req = w.req
          PROVE  v = w \/ {v.phase, w.phase} = {"start", "finish"}
      <4>1. CASE v \in All /\ w \in All
        BY <3>7, <4>1 DEF Verdicts
      <4>2. CASE v = Record(r) /\ w \in All
        BY <3>3, <3>5, <3>7, <4>2
      <4>3. CASE v \in All /\ w = Record(r)
        BY <3>3, <3>5, <3>7, <4>3
      <4>4. CASE v = Record(r) /\ w = Record(r)
        BY <4>4
      <4>q. QED  BY <3>2, <4>1, <4>2, <4>3, <4>4
    <3>q. QED  BY <3>6, <3>7 DEF Verdicts
  <2>q. QED  BY <2>1, <2>2
<1>10. ASSUME NEW r \in Req,
             AuditTimeout(r)
      PROVE  Verdicts'
  <2>1. UNCHANGED <<Written, workers, expired>>
    BY <1>10 DEF AuditTimeout
  <2>q. QED  BY <2>1 DEF Verdicts, All
<1>11. ASSUME NEW r \in Req, NEW res \in {"ok", "failed"},
             ObserveReturns(r, res)
      PROVE  Verdicts'
  <2>1. UNCHANGED <<Written, workers, expired>>
    BY <1>11 DEF ObserveReturns, Yields
  <2>q. QED  BY <2>1 DEF Verdicts, All
<1>12. ASSUME NEW r \in Req, NEW res \in {"ok", "failed"},
             ExecuteReturns(r, res)
      PROVE  Verdicts'
  <2>1. UNCHANGED <<Written, workers, expired>>
    BY <1>12 DEF ExecuteReturns, Yields
  <2>q. QED  BY <2>1 DEF Verdicts, All
<1>13. ASSUME NEW r \in Req, NEW res \in {"ok", "failed", "invalid_cursor"},
             PageReturns(r, res)
      PROVE  Verdicts'
  <2>1. UNCHANGED <<Written, workers, expired>>
    BY <1>13 DEF PageReturns, Yields
  <2>q. QED  BY <2>1 DEF Verdicts, All
<1>14. ASSUME NEW r \in Req,
             Timer(r)
      PROVE  Verdicts'
  <2>1. UNCHANGED <<Written, workers, expired>>
    BY <1>14 DEF Timer, Yields
  <2>q. QED  BY <2>1 DEF Verdicts, All
<1>15. ASSUME NEW r \in Req,
             Expire(r)
      PROVE  Verdicts'
  <2>1. /\ expired' = [expired EXCEPT ![r] = TRUE] /\ UNCHANGED <<Written, workers>>
        /\ pc[r] \in BodyPcs
    BY <1>15 DEF Expire
  <2>2. \A w \in All : w \in Records
    BY FiledAreRecords DEF TypeOK, All
  <2>3. \A w \in All : w.req = r => w.phase = "start"
    BY <2>1 DEF Trail, Started
  <2>4. \A w \in All : w.req # r => expired'[w.req] = expired[w.req]
    BY <2>1, <2>2 DEF TypeOK, Records
  <2>q. QED  BY <2>1, <2>3, <2>4 DEF Verdicts, All
<1>16. ASSUME NEW r \in Req,
             Cancel(r)
      PROVE  Verdicts'
  <2>1. UNCHANGED <<Written, workers, expired>>
    BY <1>16 DEF Cancel
  <2>q. QED  BY <2>1 DEF Verdicts, All
<1>17. ASSUME NEW w \in workers, NEW how \in {"ok", "err", "landed", "lost"},
             WorkerReturns(w, how)
      PROVE  Verdicts'
  <2>1. All' \subseteq All /\ UNCHANGED expired
    <3>1. Written' \subseteq Written \cup {w}
      BY <1>17, WorkerFiles
    <3>q. QED  BY <1>17, <3>1 DEF WorkerReturns, All
  <2>q. QED  BY <2>1 DEF Verdicts
<1>18. CASE UNCHANGED vars
  BY <1>18 DEF vars, Verdicts, All
<1>q. QED
  BY <1>1, <1>2, <1>3, <1>4, <1>5, <1>6, <1>7, <1>8, <1>9, <1>10, <1>11, <1>12, <1>13, <1>14, <1>15, <1>16, <1>17, <1>18 DEF Next, Step, Returns

(* The end of an audit answers what the audit trail says.                  *)
LEMMA AnswerKept ==
  ASSUME TypeOK, EventInv, Trail, WorkerInv, Audited, AnswerInv,
         NEW r \in Req, NEW ok \in BOOLEAN, AuditReturns(r, ok), pc[r] \in AuditPcs,
         ok => pc[r] = "write" /\ reply[r] = "ok",
         UNCHANGED <<Written, workers, touched, expired>>
  PROVE  AnswerInv'
<1>1. /\ Others(r)
      /\ \/ ok /\ event[r].phase = "start" /\ pc'[r] = "body" /\ Same(r)
         \/ Ends(r, ok)
  BY ReturnsCases
<1>2. ASSUME NEW q \in Req, q # r
      PROVE  /\ AnswerOK(q)' /\ (answer'[q] # "none" => pc'[q] = "done")
             /\ answer'[q] = "audit_unavailable" => \A w \in All' : w.req = q => w.phase # "finish"
  BY <1>1, <1>2 DEF Others, AnswerInv, AnswerIsAudited, AnswerOK, Wrote, All
<1>3. answer[r] = "none"
  BY PcTyped DEF AnswerInv
<1>4. CASE pc'[r] # "done"
  <2>1. answer'[r] = "none"
    BY <1>1, <1>3, <1>4 DEF Ends, Same
  <2>2. AnswerOK(r)'
    BY <2>1, RefusalAssumption DEF AnswerOK
  <2>q. QED  BY <1>2, <2>1, <2>2 DEF AnswerInv, AnswerIsAudited
<1>5. CASE pc'[r] = "done"
  <2>1. Ends(r, ok)
    BY <1>1, <1>5
  <2>2. ok => [req |-> r, phase |-> event[r].phase, outcome |-> event[r].outcome] \in Written'
    BY DEF WorkerInv, Record
  <2>3. CASE ok /\ event[r].phase = "rejection"
    <3>1. answer'[r] = event[r].outcome /\ answer'[r] \in Refusals \cup {"busy"}
      BY <2>1, <2>3 DEF Ends, EventInv
    <3>2. AnswerOK(r)'
      BY <2>2, <2>3, <3>1, RefusalAssumption DEF AnswerOK
    <3>3. answer'[r] # "audit_unavailable"
      BY <3>1, RefusalAssumption
    <3>q. QED  BY <1>2, <1>5, <3>2, <3>3 DEF AnswerInv, AnswerIsAudited
  <2>4. CASE ok /\ event[r].phase = "finish"
    <3>1. event[r].outcome = (IF result[r] = "ok" THEN "success" ELSE "failed")
      BY <2>4 DEF EventInv
    <3>2. \/ answer'[r] = result[r]
          \/ answer'[r] = "invalid_cursor" /\ result[r] = "ok"
      BY <2>1, <2>4 DEF Ends
    <3>3. result[r] \in Results
      BY DEF TypeOK
    <3>4. AnswerOK(r)'
      BY <2>2, <2>4, <3>1, <3>2, <3>3, RefusalAssumption DEF AnswerOK, Results
    <3>5. answer'[r] # "audit_unavailable"
      BY <3>2, <3>3 DEF Results
    <3>q. QED  BY <1>2, <1>5, <3>4, <3>5 DEF AnswerInv, AnswerIsAudited
  <2>5. CASE ~ok /\ event[r].phase # "finish"
    <3>1. answer'[r] = "audit_unavailable"
      BY <2>1, <2>5 DEF Ends
    <3>2. ~touched[r]
      BY <2>5 DEF Audited, Unbegun
    <3>3. \A w \in All : w.req = r => w.phase # "finish"
      <4>1. CASE pc[r] = "write"
        BY <2>5, <4>1 DEF Trail, Record
      <4>2. CASE pc[r] # "write"
        BY <2>5, <4>2, PcTyped DEF Trail, Fresh, EarlyPcs
      <4>q. QED  BY <4>1, <4>2
    <3>4. AnswerOK(r)'
      BY <3>1, <3>2, <3>3, RefusalAssumption DEF AnswerOK, Wrote, All
    <3>q. QED  BY <1>2, <1>5, <3>1, <3>3, <3>4 DEF AnswerInv, AnswerIsAudited, All
  <2>6. CASE ~ok /\ event[r].phase = "finish"
    <3>1. answer'[r] = "completion_audit_failed"
      BY <2>1, <2>6 DEF Ends
    <3>2. Wrote(r, "start")'
      BY <2>6 DEF Audited, Active, Wrote
    <3>3. AnswerOK(r)'
      BY <3>1, <3>2, RefusalAssumption DEF AnswerOK
    <3>q. QED  BY <1>2, <1>5, <3>1, <3>3 DEF AnswerInv, AnswerIsAudited
  <2>q. QED  BY <2>1, <2>3, <2>4, <2>5, <2>6 DEF Ends
<1>q. QED  BY <1>4, <1>5

(* A step that answers nobody, and touches only a request that has no      *)
(* answer yet.                                                             *)
LEMMA AnswerFrame ==
  ASSUME TypeOK, AnswerInv, NEW r \in Req, pc[r] # "done", answer' = answer,
         \A q \in Req : q # r => pc'[q] = pc[q] /\ touched'[q] = touched[q],
         Written' = Written,
         \A w \in All' : w \in All \/ w.req = r
  PROVE  AnswerInv'
<1>1. answer[r] = "none"
  BY DEF AnswerInv
<1>2. AnswerOK(r)'
  BY <1>1, RefusalAssumption DEF AnswerOK
<1>3. ASSUME NEW q \in Req, q # r
      PROVE  /\ AnswerOK(q)' /\ (answer'[q] # "none" => pc'[q] = "done")
             /\ answer'[q] = "audit_unavailable" => \A w \in All' : w.req = q => w.phase # "finish"
  BY <1>3 DEF AnswerInv, AnswerIsAudited, AnswerOK, Wrote
<1>q. QED  BY <1>1, <1>2, <1>3 DEF AnswerInv, AnswerIsAudited

(* No step answers a client against the audit trail.                       *)
LEMMA AnswerStep ==
  ASSUME TypeOK, EventInv, Trail, WorkerInv, Audited, AnswerInv, [Next]_vars
  PROVE  AnswerInv'
<1> USE PcTyped DEF TypeOK, BodyPcs, DevicePcs, Goto, Event
<1>1. ASSUME NEW r \in Req, NEW k \in Kinds, NEW check \in Refusals \cup {"ok"},
             Arrive(r, k, check)
      PROVE  AnswerInv'
  <2>1. /\ pc[r] # "done" /\ UNCHANGED <<answer, Written, workers>>
        /\ \A q \in Req : q # r => pc'[q] = pc[q] /\ touched'[q] = touched[q]
    BY <1>1 DEF Arrive, NoteEvent, Event
  <2>q. QED  BY <2>1, AnswerFrame DEF All
<1>2. ASSUME NEW r \in Req,
             Admit(r)
      PROVE  AnswerInv'
  <2>1. /\ pc[r] # "done" /\ UNCHANGED <<answer, Written, workers>>
        /\ \A q \in Req : q # r => pc'[q] = pc[q] /\ touched'[q] = touched[q]
    BY <1>2 DEF Admit, NoteEvent, Event
  <2>q. QED  BY <2>1, AnswerFrame DEF All
<1>3. ASSUME NEW r \in Req,
             CheckLatch(r)
      PROVE  AnswerInv'
  <2>1. CASE audit_failed
    BY <1>3, <2>1, AnswerKept DEF CheckLatch
  <2>2. CASE ~audit_failed
    <3>1. /\ pc[r] # "done" /\ UNCHANGED <<answer, Written, workers, touched>>
          /\ Others(r)
      BY <1>3, <2>2, GoesOnCase DEF CheckLatch, GoesOn
    <3>q. QED  BY <3>1, AnswerFrame DEF All, Others
  <2>q. QED  BY <2>1, <2>2
<1>4. ASSUME NEW r \in Req,
             TakeWaiter(r)
      PROVE  AnswerInv'
  <2>1. CASE ~(waiters > 0)
    BY <1>4, <2>1, AnswerKept DEF TakeWaiter
  <2>2. CASE waiters > 0
    <3>1. /\ pc[r] # "done" /\ UNCHANGED <<answer, Written, workers, touched>>
          /\ Others(r)
      BY <1>4, <2>2, GoesOnCase DEF TakeWaiter, GoesOn
    <3>q. QED  BY <3>1, AnswerFrame DEF All, Others
  <2>q. QED  BY <2>1, <2>2
<1>5. ASSUME NEW r \in Req,
             Resume(r)
      PROVE  AnswerInv'
  <2>1. /\ AuditReturns(r, reply[r] = "ok") /\ pc[r] = "write"
        /\ UNCHANGED <<Written, workers, touched, expired>>
    BY <1>5 DEF Resume
  <2>q. QED  BY <2>1, AnswerKept
<1>6. ASSUME NEW r \in Req,
             Begin(r)
      PROVE  AnswerInv'
  <2>1. /\ pc[r] # "done" /\ UNCHANGED <<answer, Written, workers>>
        /\ \A q \in Req : q # r => pc'[q] = pc[q] /\ touched'[q] = touched[q]
    BY <1>6 DEF Begin, NoteEvent, Event
  <2>q. QED  BY <2>1, AnswerFrame DEF All
<1>7. ASSUME NEW r \in Req,
             Close(r)
      PROVE  AnswerInv'
  <2>1. /\ pc[r] # "done" /\ UNCHANGED <<answer, Written, workers>>
        /\ \A q \in Req : q # r => pc'[q] = pc[q] /\ touched'[q] = touched[q]
    BY <1>7 DEF Close, NoteEvent, Event, Enforce
  <2>q. QED  BY <2>1, AnswerFrame DEF All
<1>8. ASSUME NEW r \in Req, NEW res \in {"ok", "failed"},
             Project(r, res)
      PROVE  AnswerInv'
  <2>1. /\ pc[r] # "done" /\ UNCHANGED <<answer, Written, workers>>
        /\ \A q \in Req : q # r => pc'[q] = pc[q] /\ touched'[q] = touched[q]
    BY <1>8 DEF Project, Yields, Enforce
  <2>q. QED  BY <2>1, AnswerFrame DEF All
<1>9. ASSUME NEW r \in Req,
             AcquireGate(r)
      PROVE  AnswerInv'
  <2>1. CASE audit_failed
    BY <1>9, <2>1, AnswerKept DEF AcquireGate
  <2>2. CASE ~audit_failed
    <3>1. /\ pc[r] # "done" /\ UNCHANGED <<answer, Written, touched>>
          /\ workers' = workers \cup {Record(r)} /\ Others(r)
      BY <1>9, <2>2, GoesOnCase DEF AcquireGate, GoesOn
    <3>2. \A w \in All' : w \in All \/ w.req = r
      BY <3>1 DEF All, Record
    <3>q. QED  BY <3>1, <3>2, AnswerFrame DEF Others
  <2>q. QED  BY <2>1, <2>2
<1>10. ASSUME NEW r \in Req,
             AuditTimeout(r)
      PROVE  AnswerInv'
  BY <1>10, AnswerKept DEF AuditTimeout
<1>11. ASSUME NEW r \in Req, NEW res \in {"ok", "failed"},
             ObserveReturns(r, res)
      PROVE  AnswerInv'
  <2>1. /\ pc[r] # "done" /\ UNCHANGED <<answer, Written, workers>>
        /\ \A q \in Req : q # r => pc'[q] = pc[q] /\ touched'[q] = touched[q]
    BY <1>11 DEF ObserveReturns, Yields, Enforce
  <2>q. QED  BY <2>1, AnswerFrame DEF All
<1>12. ASSUME NEW r \in Req, NEW res \in {"ok", "failed"},
             ExecuteReturns(r, res)
      PROVE  AnswerInv'
  <2>1. /\ pc[r] # "done" /\ UNCHANGED <<answer, Written, workers>>
        /\ \A q \in Req : q # r => pc'[q] = pc[q] /\ touched'[q] = touched[q]
    BY <1>12 DEF ExecuteReturns, Yields, Enforce
  <2>q. QED  BY <2>1, AnswerFrame DEF All
<1>13. ASSUME NEW r \in Req, NEW res \in {"ok", "failed", "invalid_cursor"},
             PageReturns(r, res)
      PROVE  AnswerInv'
  <2>1. /\ pc[r] # "done" /\ UNCHANGED <<answer, Written, workers>>
        /\ \A q \in Req : q # r => pc'[q] = pc[q] /\ touched'[q] = touched[q]
    BY <1>13 DEF PageReturns, Yields
  <2>q. QED  BY <2>1, AnswerFrame DEF All
<1>14. ASSUME NEW r \in Req,
             Timer(r)
      PROVE  AnswerInv'
  <2>1. /\ pc[r] # "done" /\ UNCHANGED <<answer, Written, workers>>
        /\ \A q \in Req : q # r => pc'[q] = pc[q] /\ touched'[q] = touched[q]
    BY <1>14 DEF Timer, Yields
  <2>q. QED  BY <2>1, AnswerFrame DEF All
<1>15. ASSUME NEW r \in Req,
             Expire(r)
      PROVE  AnswerInv'
  <2>1. /\ pc[r] # "done" /\ UNCHANGED <<answer, Written, workers>>
        /\ \A q \in Req : q # r => pc'[q] = pc[q] /\ touched'[q] = touched[q]
    BY <1>15 DEF Expire
  <2>q. QED  BY <2>1, AnswerFrame DEF All
<1>16. ASSUME NEW r \in Req,
             Cancel(r)
      PROVE  AnswerInv'
  <2>1. /\ Others(r) /\ pc'[r] = "done" /\ answer'[r] = "dropped"
        /\ UNCHANGED <<Written, workers, touched>>
    BY <1>16, DoneCase DEF Cancel
  <2>2. AnswerOK(r)'
    BY <2>1, RefusalAssumption DEF AnswerOK
  <2>3. ASSUME NEW q \in Req, q # r
        PROVE  /\ AnswerOK(q)' /\ (answer'[q] # "none" => pc'[q] = "done")
               /\ answer'[q] = "audit_unavailable" => \A v \in All' : v.req = q => v.phase # "finish"
    BY <2>1, <2>3 DEF Others, AnswerInv, AnswerIsAudited, AnswerOK, Wrote, All
  <2>q. QED  BY <2>1, <2>2, <2>3 DEF AnswerInv, AnswerIsAudited
<1>17. ASSUME NEW w \in workers, NEW how \in {"ok", "err", "landed", "lost"},
             WorkerReturns(w, how)
      PROVE  AnswerInv'
  <2>1. /\ Written \subseteq Written' /\ All' \subseteq All
        /\ UNCHANGED <<pc, answer, touched>>
    <3>1. Written \subseteq Written' /\ Written' \subseteq Written \cup {w}
      BY <1>17, WorkerFiles
    <3>q. QED  BY <1>17, <3>1 DEF WorkerReturns, All
  <2>2. ASSUME NEW q \in Req
        PROVE  AnswerOK(q)'
    <3>1. AnswerOK(q)  BY DEF AnswerInv, AnswerIsAudited
    <3>2. Wrote(q, "start") => Wrote(q, "start")'
      BY <2>1 DEF Wrote
    <3>3. answer[q] = "audit_unavailable" => ~Wrote(q, "finish")'
      BY <2>1 DEF AnswerInv, Wrote, All
    <3>q. QED  BY <2>1, <3>1, <3>2, <3>3 DEF AnswerOK
  <2>q. QED  BY <2>1, <2>2 DEF AnswerInv, AnswerIsAudited
<1>18. CASE UNCHANGED vars
  BY <1>18 DEF vars, AnswerInv, AnswerIsAudited, AnswerOK, Wrote, All
<1>q. QED
  BY <1>1, <1>2, <1>3, <1>4, <1>5, <1>6, <1>7, <1>8, <1>9, <1>10, <1>11, <1>12, <1>13, <1>14, <1>15, <1>16, <1>17, <1>18 DEF Next, Step, Returns

(* A request that has no record yet, or only start records, has the log    *)
(* that the worker it spawns needs.                                        *)
LEMMA LogAtSpawn ==
  ASSUME TypeOK, LogInv, EventInv, Trail, Audited, NEW r \in Req, pc[r] = "gate"
  PROVE  Due(Record(r), audit_log[r])
<1>1. PICK s \in Seq(Events) : s = audit_log[r]
  BY DEF TypeOK, Logs
<1>2. Orderly(s) /\ Len(s) \in Nat /\ \A i \in 1 .. Len(s) : s[i] \in Events
  BY <1>1 DEF LogInv
<1>3. ASSUME NEW i \in 1 .. Len(s)
      PROVE  [req |-> r, phase |-> s[i].phase, outcome |-> s[i].outcome] \in Written
  <2>1. PICK e \in Events : e = s[i]
    BY <1>2
  <2>2. PICK v \in Records : v = [req |-> r, phase |-> e.phase, outcome |-> e.outcome]
    BY DEF Events, Records
  <2>3. Event(v.phase, v.outcome) = e /\ v.req = r
    BY <2>2 DEF Event, Events
  <2>4. i \in DOMAIN audit_log[v.req] /\ audit_log[v.req][i] = Event(v.phase, v.outcome)
    BY <1>1, <2>1, <2>3
  <2>q. QED  BY <2>1, <2>2, <2>4 DEF Filed
<1>4. Record(r).phase = event[r].phase /\ event[r].phase \in {"start", "finish", "rejection"}
  BY PcTyped DEF Record, EventInv
<1>5. CASE event[r].phase # "finish"
  <2>1. \A v \in Written : v.req # r
    BY <1>5 DEF Trail, All, Fresh, EarlyPcs
  <2>2. ~(1 \in 1 .. Len(s))
    BY <1>3, <2>1
  <2>3. Len(s) = 0
    BY <1>2, <2>2
  <2>q. QED  BY <1>1, <1>4, <1>5, <2>3 DEF Due
<1>6. CASE event[r].phase = "finish"
  <2>1. \A v \in Written : v.req = r => v.phase = "start"
    BY <1>6 DEF Trail, All, Started, EarlyPcs
  <2>2. \A i \in 1 .. Len(s) : s[i].phase = "start"
    BY <1>3, <2>1
  <2>3. Wrote(r, "start")
    BY <1>6, PcTyped DEF Audited, Active
  <2>4. PICK v \in Records : v.req = r /\ \E i \in DOMAIN s : s[i] = Event(v.phase, v.outcome)
    BY <1>1, <2>3 DEF Wrote, Filed
  <2>5. Len(s) >= 1
    BY <1>2, <2>4
  <2>6. Len(s) # 2
    BY <1>2, <2>2 DEF Orderly
  <2>7. Len(s) = 1
    BY <1>2, <2>5, <2>6 DEF Orderly
  <2>8. Opened(s)
    BY <2>2, <2>7 DEF Opened
  <2>q. QED  BY <1>1, <1>4, <1>6, <2>8 DEF Due
<1>q. QED  BY <1>5, <1>6

(* The record that is due extends a log in order.                          *)
LEMMA DueExtends ==
  ASSUME NEW s \in Seq(Events), NEW w \in Records, Orderly(s), Due(w, s)
  PROVE  Orderly(Append(s, Event(w.phase, w.outcome)))
<1>0. Event(w.phase, w.outcome) \in Events /\ Event(w.phase, w.outcome).phase = w.phase
  BY DEF Event, Events, Records
<1>1. PICK e \in Events : e = Event(w.phase, w.outcome) /\ e.phase = w.phase
  BY <1>0
<1>a. Append(s, e) \in Seq(Events)
  BY <1>1
<1>2. PICK t \in Seq(Events) : t = Append(s, e)
  BY <1>a
<1>3. /\ Len(s) \in Nat /\ Len(t) = Len(s) + 1 /\ t[Len(s) + 1] = e
      /\ \A i \in 1 .. Len(s) : t[i] = s[i]
  BY <1>2
<1>4. CASE w.phase = "finish"
  <2>1. Len(s) = 1 /\ s[1].phase = "start"
    BY <1>4 DEF Due, Opened
  <2>2. Len(t) = 2 /\ t[1] = s[1] /\ t[2] = e
    BY <1>3, <2>1
  <2>q. QED  BY <1>1, <1>2, <1>4, <2>1, <2>2 DEF Orderly
<1>5. CASE w.phase # "finish"
  <2>1. Len(s) = 0 /\ w.phase \in {"start", "rejection"}
    BY <1>5 DEF Due
  <2>2. Len(t) = 1 /\ t[1] = e
    BY <1>3, <2>1
  <2>q. QED  BY <1>1, <1>2, <2>1, <2>2 DEF Orderly
<1>q. QED  BY <1>4, <1>5

(* Every step keeps the logs in order, and the workers those that are due. *)
LEMMA LogStep ==
  ASSUME TypeOK, LogInv, EventInv, Trail, Audited, Verdicts, [Next]_vars
  PROVE  LogInv'
<1>1. ASSUME UNCHANGED <<workers, audit_log>>
      PROVE  LogInv'
  BY <1>1 DEF LogInv
<1>2. ASSUME NEW r \in Req,
             \/ \E k \in Kinds, check \in Refusals \cup {"ok"} : Arrive(r, k, check)
             \/ AuditTimeout(r) \/ Expire(r) \/ Cancel(r)
      PROVE  LogInv'
  BY <1>1, <1>2 DEF Arrive, AuditTimeout, Expire, Cancel
<1>3. ASSUME NEW r \in Req, Step(r)
      PROVE  LogInv'
  BY <1>1, <1>3 DEF Step, Admit, CheckLatch, TakeWaiter, Resume, Begin, Close, Project, Yields
<1>4. ASSUME NEW r \in Req, Returns(r) \/ Timer(r)
      PROVE  LogInv'
  BY <1>1, <1>4 DEF Returns, ObserveReturns, ExecuteReturns, PageReturns, Timer, Yields
<1>5. ASSUME NEW r \in Req, AcquireGate(r)
      PROVE  LogInv'
  <2>1. CASE audit_failed
    BY <1>1, <1>5, <2>1 DEF AcquireGate
  <2>2. CASE ~audit_failed
    <3>1. workers' = workers \cup {Record(r)} /\ audit_log' = audit_log /\ pc[r] = "gate"
      BY <1>5, <2>2 DEF AcquireGate
    <3>2. Due(Record(r), audit_log[r]) /\ Record(r).req = r
      BY <3>1, LogAtSpawn DEF Record
    <3>q. QED  BY <3>1, <3>2 DEF LogInv
  <2>q. QED  BY <2>1, <2>2
<1>6. ASSUME NEW w \in workers, NEW how \in {"ok", "err", "landed", "lost"},
             WorkerReturns(w, how)
      PROVE  LogInv'
  <2>1. w \in Records /\ w.req \in Req /\ \A v \in workers : v.req \in Req
    BY DEF TypeOK, Records
  <2>2. workers' = workers \ {w}
    BY <1>6 DEF WorkerReturns
  <2>3. CASE how \notin {"ok", "landed"}
    <3>1. audit_log' = audit_log
      BY <1>6, <2>3 DEF WorkerReturns
    <3>q. QED  BY <2>2, <3>1 DEF LogInv
  <2>4. CASE how \in {"ok", "landed"}
    <3>1. audit_log' = [audit_log EXCEPT ![w.req] = Append(@, Event(w.phase, w.outcome))]
      BY <1>6, <2>4 DEF WorkerReturns
    <3>2. /\ audit_log[w.req] \in Seq(Events) /\ Orderly(audit_log[w.req])
          /\ Due(w, audit_log[w.req])
      BY <2>1 DEF TypeOK, Logs, LogInv
    <3>3. Orderly(Append(audit_log[w.req], Event(w.phase, w.outcome)))
      BY <2>1, <3>2, DueExtends
    <3>4. /\ audit_log'[w.req] = Append(audit_log[w.req], Event(w.phase, w.outcome))
          /\ \A q \in Req : q # w.req => audit_log'[q] = audit_log[q]
      BY <2>1, <3>1 DEF TypeOK, Logs
    <3>5. \A q \in Req : Orderly(audit_log'[q])
      BY <3>3, <3>4 DEF LogInv
    <3>6. \A v \in workers : v # w => v.req # w.req
      <4> SUFFICES ASSUME NEW v \in workers, v.req = w.req PROVE v = w
        OBVIOUS
      <4>1. Due(v, audit_log[w.req])
        BY DEF LogInv
      <4>2. v = w \/ {v.phase, w.phase} = {"start", "finish"}
        BY DEF Verdicts, All
      <4>3. (v.phase = "finish") <=> (w.phase = "finish")
        BY <3>2, <4>1 DEF Due, Opened
      <4>4. {v.phase, w.phase} = {"start", "finish"}
              => v.phase # w.phase /\ (v.phase = "finish" \/ w.phase = "finish")
        OBVIOUS
      <4>q. QED  BY <4>2, <4>3, <4>4
    <3>7. \A v \in workers' : Due(v, audit_log'[v.req])
      BY <2>1, <2>2, <3>4, <3>6 DEF LogInv
    <3>q. QED  BY <3>5, <3>7 DEF LogInv
  <2>q. QED  BY <2>3, <2>4
<1>7. CASE UNCHANGED vars
  BY <1>1, <1>7 DEF vars
<1>q. QED  BY <1>2, <1>3, <1>4, <1>5, <1>6, <1>7 DEF Next

-----------------------------------------------------------------------------
(* The initial state satisfies the inductive invariant.                    *)
LEMMA InitInv == Init => IInv
<1> SUFFICES ASSUME Init PROVE IInv
  OBVIOUS
<1>1. TypeOK
  <2>1. /\ "failed" \in Results /\ "none" \in Answers /\ "invoke" \in Kinds
        /\ Event("none", "none") \in Events
    BY EventTyped DEF Results, Answers, Kinds
  <2>2. permits \in Nat /\ waiters \in Nat /\ gate \in Nat
    BY MaxAssumption DEF Init
  <2>3. pc \in [Req -> Pcs] /\ reply \in [Req -> {"none", "ok", "err"}]
    BY PcTyped DEF Init
  <2>4. audit_log \in Logs
    BY DEF Init, Logs
  <2>q. QED  BY <2>1, <2>2, <2>3, <2>4 DEF Init, TypeOK
<1>2. \A r \in Req : pc[r] = "idle" /\ reply[r] = "none" /\ answer[r] = "none"
                     /\ touched[r] = FALSE /\ expired[r] = FALSE
  BY DEF Init
<1>3. All = {} /\ workers = {}
  <2>1. \A r \in Req : DOMAIN audit_log[r] = {}
    BY DEF Init
  <2>2. Written = {}
    BY <2>1 DEF Filed, Records
  <2>q. QED  BY <2>2 DEF Init, All
<1>4. EventInv /\ Trail /\ WorkerInv
  BY <1>2, <1>3, PcTyped DEF EventInv, Trail, WorkerInv
<1>5. Audited /\ Verdicts
  BY <1>2, <1>3, PcTyped
     DEF Audited, WorkIsAudited, Active, Unbegun, Verdicts, BodyPcs, DevicePcs
<1>6. AnswerInv
  BY <1>2, RefusalAssumption DEF AnswerInv, AnswerIsAudited, AnswerOK
<1>7. LogInv
  <2>1. \A r \in Req : Len(audit_log[r]) = 0
    BY DEF Init
  <2>q. QED  BY <1>3, <2>1 DEF LogInv, Orderly
<1>q. QED  BY <1>1, <1>4, <1>5, <1>6, <1>7 DEF IInv

(* Every reachable state satisfies the inductive invariant.                *)
THEOREM InvariantHolds == Spec => []IInv
<1>1. IInv /\ [Next]_vars => IInv'
  BY TypeStep, LogStep, EventStep, TrailStep, WorkerStep, AuditedStep, VerdictStep, AnswerStep DEF IInv
<1>q. QED  BY InitInv, <1>1, PTL DEF Spec

(* The dispatcher's variables always have their types, for any number of   *)
(* requests and any max_concurrent.                                        *)
THEOREM TypeCorrect == Spec => []TypeOK
<1>1. IInv => TypeOK
  BY DEF IInv
<1>q. QED  BY InvariantHolds, <1>1, PTL

(* Start audit before device I/O: whatever the writer, timeouts, latch and *)
(* cancellations do, no request touches the device, a key or a connection  *)
(* before its start record is written (admit, record_audit).               *)
THEOREM AuditPrecedesWork == Spec => []WorkIsAudited
<1>1. IInv => WorkIsAudited
  BY DEF IInv, Audited
<1>q. QED  BY InvariantHolds, <1>1, PTL

(* What a client is told always agrees with what the audit trail holds     *)
(* (finish, reject and the callers of record_audit).                       *)
THEOREM AnswersAreAudited == Spec => []AnswerIsAudited
<1>1. IInv => AnswerIsAudited
  BY DEF IInv, AnswerInv
<1>q. QED  BY InvariantHolds, <1>1, PTL

(* The audit log holds one verdict per request: a rejection, or a start    *)
(* and then at most one finish, each once and in this order, late workers  *)
(* of timed out and dropped futures included.                              *)
THEOREM VerdictIsUnique == Spec => []OneVerdict
<1>1. IInv => OneVerdict
  <2> SUFFICES ASSUME IInv, NEW r \in Req
               PROVE  [i \in DOMAIN audit_log[r] |-> audit_log[r][i].phase]
                        \in {<<>>, <<"rejection">>, <<"start">>, <<"start", "finish">>}
    BY DEF OneVerdict
  <2>1. PICK s \in Seq(Events) : s = audit_log[r]
    BY DEF IInv, TypeOK, Logs
  <2>2. Orderly(s) /\ DOMAIN s = 1 .. Len(s)
    BY <2>1 DEF IInv, LogInv
  <2>3. CASE Len(s) = 0
    <3>1. [i \in DOMAIN s |-> s[i].phase] = <<>>
      BY <2>2, <2>3
    <3>q. QED  BY <2>1, <3>1
  <2>4. CASE Len(s) = 1
    <3>1. PICK p \in {"start", "rejection"} : p = s[1].phase
      BY <2>2, <2>4 DEF Orderly
    <3>2. [i \in DOMAIN s |-> s[i].phase] = <<p>>
      BY <2>2, <2>4, <3>1
    <3>q. QED  BY <2>1, <3>1, <3>2
  <2>5. CASE Len(s) = 2
    <3>1. [i \in DOMAIN s |-> s[i].phase] = <<"start", "finish">>
      BY <2>2, <2>5 DEF Orderly
    <3>q. QED  BY <2>1, <3>1
  <2>q. QED  BY <2>2, <2>3, <2>4, <2>5 DEF Orderly
<1>q. QED  BY InvariantHolds, <1>1, PTL

(* A result that came after its deadline is never audited as a success     *)
(* (enforce_deadline before finish).                                       *)
THEOREM NoLateSuccess == Spec => []LateIsNoSuccess
<1>1. IInv => LateIsNoSuccess
  BY DEF IInv, Verdicts, LateIsNoSuccess, All
<1>q. QED  BY InvariantHolds, <1>1, PTL


-----------------------------------------------------------------------------
(* Semaphores.                                                             *)

(* A semaphore that gives one permit to a member that joins its holders,   *)
(* and gets one back from a member that leaves them, is conserved.         *)
Settled(r, held, held2, free, free2) ==
  free2 = IF r \in held /\ r \notin held2 THEN free + 1
          ELSE IF r \notin held /\ r \in held2 THEN free - 1 ELSE free

(* One member at most changes sides, and the semaphore settles with it.    *)
LEMMA Balance ==
  ASSUME NEW S \in SUBSET Req, NEW T \in SUBSET Req, NEW r \in Req,
         \A q \in Req : q # r => (q \in S <=> q \in T),
         NEW free \in Nat, NEW free2, Settled(r, S, T, free, free2)
  PROVE  free2 + Cardinality(T) = free + Cardinality(S)
<1>1. IsFiniteSet(S) /\ Cardinality(S) \in Nat
  BY ReqAssumption, FS_Subset, FS_CardinalityType
<1>2. CASE r \in S /\ r \notin T
  <2>1. T = S \ {r}
    BY <1>2
  <2>2. Cardinality(T) = Cardinality(S) - 1 /\ free2 = free + 1
    BY <1>1, <1>2, <2>1, FS_RemoveElement DEF Settled
  <2>q. QED  BY <1>1, <2>2
<1>3. CASE r \notin S /\ r \in T
  <2>1. T = S \cup {r}
    BY <1>3
  <2>2. Cardinality(T) = Cardinality(S) + 1 /\ free2 = free - 1
    BY <1>1, <1>3, <2>1, FS_AddElement DEF Settled
  <2>q. QED  BY <1>1, <2>2
<1>4. CASE r \in S <=> r \in T
  <2>1. T = S
    BY <1>4
  <2>q. QED  BY <1>4, <2>1 DEF Settled
<1>q. QED  BY <1>2, <1>3, <1>4

(* What a step of request r does to the two counting semaphores.           *)
Settles(r) ==
  /\ \A q \in Req : q # r => pc'[q] = pc[q] /\ event'[q] = event[q]
  /\ Settled(r, Holders, Holders', permits, permits')
  /\ Settled(r, Waiting, Waiting', waiters, waiters')

(* An answered request gives its permit back, one that goes on keeps it.   *)
LEMMA ReturnsSettled ==
  ASSUME TypeOK, NEW r \in Req, NEW ok \in BOOLEAN, pc[r] \in AuditPcs, AuditReturns(r, ok)
  PROVE  /\ \A q \in Req : q # r => pc'[q] = pc[q] /\ event'[q] = event[q]
         /\ Settled(r, Holders, Holders', permits, permits')
         /\ pc'[r] \in {"body", "done"}
<1>1. ASSUME NEW a, Done(r, a) PROVE Settled(r, Holders, Holders', permits, permits')
  <2>1. r \notin Holders' /\ permits' = IF r \in Holders THEN permits + 1 ELSE permits
    BY <1>1, PcTyped, DoneCase DEF Done, Holders, BodyPcs, DevicePcs
  <2>q. QED  BY <2>1 DEF Settled
<1>2. ASSUME event[r].phase = "start", GoesOn(r, "body")
      PROVE  Settled(r, Holders, Holders', permits, permits')
  <2>1. r \in Holders /\ r \in Holders' /\ permits' = permits
    BY <1>2, GoesOnCase DEF GoesOn, Holders, BodyPcs
  <2>q. QED  BY <2>1 DEF Settled
<1>3. Others(r) /\ pc'[r] \in {"body", "done"}
  BY ReturnsCases DEF Ends
<1>q. QED  BY <1>1, <1>2, <1>3 DEF AuditReturns, Others

(* Every step of a request leaves the semaphores settled with it.          *)
LEMMA RequestSettles ==
  ASSUME TypeOK, NEW r \in Req,
         \/ \E k \in Kinds, check \in Refusals \cup {"ok"} : Arrive(r, k, check)
         \/ Step(r) \/ AcquireGate(r) \/ AuditTimeout(r)
         \/ Returns(r) \/ Timer(r) \/ Expire(r) \/ Cancel(r)
  PROVE  Settles(r)
<1> USE PcTyped
<1> DEFINE Held(p, e)  == p \in BodyPcs \/ (p \in AuditPcs /\ e.phase # "rejection")
<1>0. ASSUME \A q \in Req : q # r => pc'[q] = pc[q] /\ event'[q] = event[q],
             /\ pc[r] \in WaitPcs <=> pc'[r] \in WaitPcs
             /\ Held(pc[r], event[r]) <=> Held(pc'[r], event'[r])
             /\ permits' = permits /\ waiters' = waiters
      PROVE  Settles(r)
  BY <1>0 DEF Settles, Settled, Holders, Waiting
<1>a. ASSUME NEW ok \in BOOLEAN, pc[r] \in AuditPcs, AuditReturns(r, ok),
             waiters' = IF pc[r] \in WaitPcs THEN waiters + 1 ELSE waiters
      PROVE  Settles(r)
  <2>1. r \notin Waiting' /\ (r \in Waiting <=> pc[r] \in WaitPcs)
    BY <1>a, ReturnsSettled DEF Waiting
  <2>q. QED  BY <1>a, <2>1, ReturnsSettled DEF Settles, Settled
<1>b. ASSUME NEW p, GoesOn(r, p), pc[r] \in AuditPcs, p \in AuditPcs,
             \/ waiters' = waiters /\ (pc[r] \in WaitPcs <=> p \in WaitPcs)
             \/ waiters' = waiters - 1 /\ pc[r] \notin WaitPcs /\ p \in WaitPcs
      PROVE  Settles(r)
  <2>1. /\ \A q \in Req : q # r => pc'[q] = pc[q] /\ event'[q] = event[q]
        /\ pc'[r] = p /\ event'[r] = event[r] /\ permits' = permits
    BY <1>b, GoesOnCase DEF GoesOn, Others, Same
  <2>2. r \in Holders <=> r \in Holders'
    <3>1. p \notin BodyPcs /\ pc[r] \notin BodyPcs
      BY <1>b DEF BodyPcs, DevicePcs
    <3>q. QED  BY <1>b, <2>1, <3>1 DEF Holders
  <2>3. (r \in Waiting <=> pc[r] \in WaitPcs) /\ (r \in Waiting' <=> p \in WaitPcs)
    BY <2>1 DEF Waiting
  <2>q. QED  BY <1>b, <2>1, <2>2, <2>3 DEF Settles, Settled
<1>1. ASSUME NEW k \in Kinds, NEW check \in Refusals \cup {"ok"}, Arrive(r, k, check)
      PROVE  Settles(r)
  BY <1>0, <1>1 DEF Arrive, NoteEvent, Goto, Event, TypeOK, BodyPcs, DevicePcs
<1>2. CASE Admit(r)
  <2>1. /\ \A q \in Req : q # r => pc'[q] = pc[q] /\ event'[q] = event[q]
        /\ r \notin Holders /\ r \notin Waiting /\ r \notin Waiting' /\ waiters' = waiters
        /\ IF permits > 0 THEN r \in Holders' /\ permits' = permits - 1
                          ELSE r \notin Holders' /\ permits' = permits
    BY <1>2 DEF Admit, NoteEvent, Goto, Event, TypeOK, Holders, Waiting, BodyPcs, DevicePcs
  <2>q. QED  BY <2>1 DEF Settles, Settled
<1>3. CASE CheckLatch(r)
  BY <1>3, <1>a, <1>b DEF CheckLatch
<1>4. CASE TakeWaiter(r)
  BY <1>4, <1>a, <1>b DEF TakeWaiter
<1>5. CASE Resume(r)
  <2>1. (reply[r] = "ok") \in BOOLEAN
    OBVIOUS
  <2>q. QED  BY <1>5, <1>a, <2>1 DEF Resume
<1>6. CASE Begin(r)
  BY <1>0, <1>6 DEF Begin, NoteEvent, Goto, Event, TypeOK, BodyPcs, DevicePcs
<1>7. CASE Close(r)
  BY <1>0, <1>7 DEF Close, NoteEvent, Goto, Event, TypeOK, BodyPcs, DevicePcs
<1>8. ASSUME NEW p \in BodyPcs, NEW res, Yields(r, p, res), pc[r] \in BodyPcs
      PROVE  Settles(r)
  <2>1. p \notin AuditPcs /\ pc[r] \notin AuditPcs
    BY <1>8 DEF BodyPcs, DevicePcs
  <2>q. QED  BY <1>0, <1>8, <2>1 DEF Yields, Goto, TypeOK
<1>9. CASE Returns(r) \/ \E res \in {"ok", "failed"} : Project(r, res)
  BY <1>8, <1>9 DEF Returns, ObserveReturns, ExecuteReturns, PageReturns, Project, BodyPcs, DevicePcs
<1>10. CASE Timer(r)
  BY <1>8, <1>10 DEF Timer, BodyPcs
<1>11. CASE Expire(r)
  BY <1>0, <1>11 DEF Expire
<1>12. CASE AcquireGate(r)
  BY <1>a, <1>b, <1>12 DEF AcquireGate
<1>13. CASE AuditTimeout(r)
  BY <1>a, <1>13 DEF AuditTimeout
<1>14. CASE Cancel(r)
  <2>1. Done(r, "dropped") /\ waiters' = IF pc[r] \in WaitPcs THEN waiters + 1 ELSE waiters
    BY <1>14 DEF Cancel
  <2>2. r \notin Waiting' /\ (r \in Waiting <=> pc[r] \in WaitPcs) /\ r \notin Holders'
    BY <2>1, DoneCase DEF Waiting, Holders, BodyPcs, DevicePcs
  <2>3. permits' = IF r \in Holders THEN permits + 1 ELSE permits
    BY <2>1 DEF Done
  <2>4. \A q \in Req : q # r => pc'[q] = pc[q] /\ event'[q] = event[q]
    BY <2>1, DoneCase DEF Others
  <2>q. QED  BY <2>1, <2>2, <2>3, <2>4 DEF Settles, Settled
<1>q. QED  BY <1>1, <1>2, <1>3, <1>4, <1>5, <1>6, <1>7, <1>9, <1>10, <1>11, <1>12, <1>13, <1>14
           DEF Step

(* The accounts of Conserved, with what they rest on: the workers are      *)
(* finitely many.                                                          *)
Accounts ==
  /\ permits + Cardinality(Holders) = MaxConcurrent
  /\ waiters + Cardinality(Waiting) = MaxConcurrent + 1
  /\ gate + Cardinality(workers) = 1
  /\ IsFiniteSet(workers)

(* The counting semaphores through a step of a request.                    *)
LEMMA CountsKept ==
  ASSUME TypeOK, NEW r \in Req, Settles(r)
  PROVE  /\ permits' + Cardinality(Holders') = permits + Cardinality(Holders)
         /\ waiters' + Cardinality(Waiting') = waiters + Cardinality(Waiting)
<1>1. /\ Holders \in SUBSET Req /\ Holders' \in SUBSET Req
      /\ Waiting \in SUBSET Req /\ Waiting' \in SUBSET Req
  BY DEF Holders, Waiting
<1>2. \A q \in Req : q # r => /\ q \in Holders <=> q \in Holders'
                              /\ q \in Waiting <=> q \in Waiting'
  BY DEF Settles, Holders, Waiting
<1>3. permits \in Nat /\ waiters \in Nat
  BY DEF TypeOK
<1>4. permits' + Cardinality(Holders') = permits + Cardinality(Holders)
  BY <1>1, <1>2, <1>3, Balance DEF Settles
<1>5. waiters' + Cardinality(Waiting') = waiters + Cardinality(Waiting)
  BY <1>1, <1>2, <1>3, Balance DEF Settles
<1>q. QED  BY <1>4, <1>5

(* The gate goes to a worker that is spawned, and comes back with it.      *)
LEMMA GateKept ==
  ASSUME TypeOK, Accounts, [Next]_vars
  PROVE  gate' + Cardinality(workers') = 1 /\ IsFiniteSet(workers')
<1>0. gate + Cardinality(workers) = 1 /\ IsFiniteSet(workers) /\ gate \in Nat
      /\ Cardinality(workers) \in Nat
  BY FS_CardinalityType DEF Accounts, TypeOK
<1>1. ASSUME NEW r \in Req, AcquireGate(r), ~audit_failed
      PROVE  gate' + Cardinality(workers') = 1 /\ IsFiniteSet(workers')
  <2>1. gate > 0 /\ gate' = gate - 1 /\ workers' = workers \cup {Record(r)}
    BY <1>1 DEF AcquireGate
  <2>2. gate = 1 /\ Cardinality(workers) = 0
    BY <1>0, <2>1
  <2>3. workers = {}
    BY <1>0, <2>2, FS_EmptySet
  <2>4. workers' = {Record(r)} /\ gate' = 0
    BY <2>1, <2>2, <2>3
  <2>q. QED  BY <2>4, FS_Singleton
<1>2. ASSUME NEW w \in workers, NEW how \in {"ok", "err", "landed", "lost"}, WorkerReturns(w, how)
      PROVE  gate' + Cardinality(workers') = 1 /\ IsFiniteSet(workers')
  <2>1. gate' = gate + 1 /\ workers' = workers \ {w}
    BY <1>2 DEF WorkerReturns
  <2>2. IsFiniteSet(workers') /\ Cardinality(workers') = Cardinality(workers) - 1
    BY <1>0, <2>1, FS_RemoveElement
  <2>q. QED  BY <1>0, <2>1, <2>2
<1>3. CASE UNCHANGED <<gate, workers>>
  BY <1>0, <1>3
<1>4. ASSUME NEW r \in Req,
             \/ \E k \in Kinds, check \in Refusals \cup {"ok"} : Arrive(r, k, check)
             \/ Step(r) \/ AuditTimeout(r) \/ (AcquireGate(r) /\ audit_failed)
             \/ Returns(r) \/ Timer(r) \/ Expire(r) \/ Cancel(r)
      PROVE  UNCHANGED <<gate, workers>>
  <2>1. CASE Step(r)
    BY <2>1 DEF Step, Admit, CheckLatch, TakeWaiter, Resume, Begin, Close, Project, Yields
  <2>2. CASE Returns(r) \/ Timer(r)
    BY <2>2 DEF Returns, ObserveReturns, ExecuteReturns, PageReturns, Timer, Yields
  <2>q. QED  BY <1>4, <2>1, <2>2 DEF Arrive, AuditTimeout, AcquireGate, Expire, Cancel
<1>q. QED  BY <1>1, <1>2, <1>3, <1>4 DEF Next, vars

(* No permit, waiter slot or gate leaks or is returned twice, for any      *)
(* number of requests: every return, timeout, late worker and dropped      *)
(* future gives back what it holds, and one audit worker at most is alive  *)
(* (admit, record_audit, and the drops of their guards).                   *)
THEOREM SemaphoresBalance == Spec => []Conserved
<1>1. Init => Accounts
  <2> SUFFICES ASSUME Init PROVE Accounts
    OBVIOUS
  <2>1. Holders = {} /\ Waiting = {}
    BY PcTyped DEF Init, Holders, Waiting, BodyPcs, DevicePcs
  <2>2. permits = MaxConcurrent /\ waiters = MaxConcurrent + 1 /\ gate = 1 /\ workers = {}
    BY DEF Init
  <2>q. QED  BY <2>1, <2>2, FS_EmptySet, MaxAssumption DEF Accounts
<1>2. TypeOK /\ Accounts /\ [Next]_vars => Accounts'
  <2> SUFFICES ASSUME TypeOK, Accounts, [Next]_vars PROVE Accounts'
    OBVIOUS
  <2>1. gate' + Cardinality(workers') = 1 /\ IsFiniteSet(workers')
    BY GateKept
  <2>2. /\ permits' + Cardinality(Holders') = permits + Cardinality(Holders)
        /\ waiters' + Cardinality(Waiting') = waiters + Cardinality(Waiting)
    <3>1. CASE UNCHANGED <<pc, event, permits, waiters>>
      <4>1. Holders' = Holders /\ Waiting' = Waiting
        BY <3>1 DEF Holders, Waiting
      <4>q. QED  BY <3>1, <4>1
    <3>2. CASE \E w \in workers, how \in {"ok", "err", "landed", "lost"} : WorkerReturns(w, how)
      BY <3>1, <3>2 DEF WorkerReturns
    <3>3. CASE UNCHANGED vars
      BY <3>1, <3>3 DEF vars
    <3>4. ASSUME NEW r \in Req,
                 \/ \E k \in Kinds, check \in Refusals \cup {"ok"} : Arrive(r, k, check)
                 \/ Step(r) \/ AcquireGate(r) \/ AuditTimeout(r)
                 \/ Returns(r) \/ Timer(r) \/ Expire(r) \/ Cancel(r)
          PROVE  /\ permits' + Cardinality(Holders') = permits + Cardinality(Holders)
                 /\ waiters' + Cardinality(Waiting') = waiters + Cardinality(Waiting)
      BY <3>4, RequestSettles, CountsKept
    <3>q. QED  BY <3>2, <3>3, <3>4 DEF Next
  <2>q. QED  BY <2>1, <2>2 DEF Accounts
<1>3. TypeOK /\ Accounts => Conserved
  BY DEF Accounts, Conserved, TypeOK
<1>q. QED  BY <1>1, <1>2, <1>3, TypeCorrect, PTL DEF Spec

(* The latch is permanent: once it is set and the last worker has returned *)
(* no record is written any more, also by a future that was queued at the  *)
(* gate when it was set (record_audit's second look at the latch).         *)
THEOREM LatchStays == Spec => LatchIsFinal
<1> DEFINE Stays == audit_failed => /\ audit_failed'
                                    /\ workers = {} => workers' = {} /\ audit_log' = audit_log
<1>1. TypeOK /\ [Next]_vars => [Stays]_vars
  <2> SUFFICES ASSUME TypeOK, Next, audit_failed
               PROVE  audit_failed' /\ (workers = {} => workers' = {} /\ audit_log' = audit_log)
    BY DEF vars
  <2>1. ASSUME NEW w \in workers, NEW how \in {"ok", "err", "landed", "lost"}, WorkerReturns(w, how)
        PROVE  audit_failed' /\ workers # {}
    BY <2>1 DEF WorkerReturns
  <2>2. ASSUME NEW r \in Req,
               \/ \E k \in Kinds, check \in Refusals \cup {"ok"} : Arrive(r, k, check)
               \/ AuditTimeout(r) \/ AcquireGate(r) \/ Expire(r) \/ Cancel(r)
        PROVE  audit_failed' /\ UNCHANGED <<workers, audit_log>>
    BY <2>2 DEF Arrive, AuditTimeout, AcquireGate, Expire, Cancel
  <2>3. ASSUME NEW r \in Req, Step(r) \/ Returns(r) \/ Timer(r)
        PROVE  audit_failed' /\ UNCHANGED <<workers, audit_log>>
    <3>1. CASE Step(r)
      BY <3>1 DEF Step, Admit, CheckLatch, TakeWaiter, Resume, Begin, Close, Project, Yields
    <3>2. CASE Returns(r) \/ Timer(r)
      BY <3>2 DEF Returns, ObserveReturns, ExecuteReturns, PageReturns, Timer, Yields
    <3>q. QED  BY <2>3, <3>1, <3>2
  <2>q. QED  BY <2>1, <2>2, <2>3 DEF Next, vars
<1>2. LatchIsFinal <=> [][Stays]_vars
  BY DEF LatchIsFinal
<1>q. QED  BY <1>1, <1>2, TypeCorrect, PTL DEF Spec
=============================================================================
