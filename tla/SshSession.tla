----------------------------- MODULE SshSession -----------------------------
(***************************************************************************)
(* The SSH backend's one session (crates/backend-ssh/src/session.rs,       *)
(* lib.rs run, transactions capture_archive): requests that overlap, time  *)
(* out or are dropped at an await, a driver task that may stop at any      *)
(* time, and a peer that sends any sequence of channel messages.           *)
(*                                                                         *)
(* Output is counted, not kept.  The driver stops in two steps, the        *)
(* handler's drop (which revokes the epoch) and the closing of the handle, *)
(* as it does for a reader on another thread.                              *)
(***************************************************************************)
EXTENDS Naturals

CONSTANTS Task,
          Maximum,    \* the output limit of a request, or a capture's length
          None

ASSUME SshSessionAssumption == Maximum \in Nat /\ None \notin Task

VARIABLES failed, auth,    \* Control: failed, authenticated
          socket,          \* Control.socket: none, open or shut
          identity,        \* State.identity is still there
          handle,          \* State.handle is Some
          driver,          \* none, running, dropped or closed
          lock,            \* holder of the state mutex
          pc, kind, late,  \* of each request
          chan,            \* what execute knows of its channel
          open,            \* history: a channel the peer may still be working on
          reads, dials,    \* history: key reads and connections
          result           \* history: how each request's last call ended

vars == <<failed, auth, socket, identity, handle, driver, lock, pc, kind, late, chan,
          open, reads, dials, result>>
control == <<failed, auth, socket>>
session == <<identity, handle, driver, reads, dials>>

Await == {"key", "tcp", "handshake", "auth", "open", "send", "wait", "closing"}
NewChannel == [accepted |-> FALSE, eof |-> FALSE, exit |-> "none", out |-> 0, err |-> 0]

Init ==
  /\ failed = FALSE /\ auth = FALSE /\ socket = "none"
  /\ identity = TRUE /\ handle = FALSE /\ driver = "none"
  /\ lock = None
  /\ pc = [p \in Task |-> "idle"] /\ kind = [p \in Task |-> "exec"]
  /\ late = [p \in Task |-> FALSE]
  /\ chan = NewChannel /\ open = FALSE
  /\ reads = 0 /\ dials = 0
  /\ result = [p \in Task |-> "none"]

Goto(p, l) == pc' = [pc EXCEPT ![p] = l]

(* Control::epoch is Some(1).                                              *)
Epoch == ~failed /\ auth

(* The request is over; its lock, if it has one, is free.                  *)
Leave(p, r) ==
  /\ Goto(p, "idle")
  /\ late' = [late EXCEPT ![p] = FALSE]
  /\ result' = [result EXCEPT ![p] = r]
  /\ lock' = IF lock = p THEN None ELSE lock

InvalidateLazily ==
  /\ failed' = TRUE /\ auth' = FALSE
  /\ UNCHANGED socket

(* Control::invalidate.                                                    *)
Invalidate ==
  /\ failed' = TRUE /\ auth' = FALSE
  /\ socket' = IF socket = "open" THEN "shut" ELSE socket

(* An error of connect or execute, a timeout, or the request's future      *)
(* dropped: the armed FailureGuard goes before the lock.                   *)
Fail(p) == Invalidate /\ Leave(p, "err")

-----------------------------------------------------------------------------
(* run and capture_archive.                                                *)

(* The check before the lock; a capture wants an authenticated session.    *)
Call(p, k) ==
  /\ pc[p] = "idle" /\ ~failed
  /\ k = "capture" => Epoch
  /\ Goto(p, "lock")
  /\ kind' = [kind EXCEPT ![p] = k]
  /\ result' = [result EXCEPT ![p] = "none"]
  /\ UNCHANGED <<control, session, lock, late, chan, open>>

EnterUnchecked(p) ==
  /\ pc[p] = "lock" /\ lock = None
  /\ lock' = p
  /\ IF handle \/ kind[p] = "capture"
       THEN Goto(p, "open") /\ UNCHANGED <<identity, reads>>
       ELSE identity' = FALSE /\ reads' = reads + 1 /\ Goto(p, "key")
  /\ UNCHANGED <<control, handle, driver, dials, kind, late, chan, open, result>>

(* try_lock, the check again, and connect up to its first await: an open   *)
(* handle is used, the identity can be taken once.                         *)
Enter(p) ==
  /\ pc[p] = "lock"
  /\ IF lock # None \/ failed
       THEN Leave(p, "err") /\ UNCHANGED <<control, identity, reads>>
       ELSE IF kind[p] = "exec" /\ (IF handle THEN driver = "closed" ELSE ~identity)
       THEN Fail(p) /\ UNCHANGED <<identity, reads>>
       ELSE /\ lock' = p
            /\ IF handle \/ kind[p] = "capture"
                 THEN Goto(p, "open") /\ UNCHANGED <<identity, reads>>
                 ELSE identity' = FALSE /\ reads' = reads + 1 /\ Goto(p, "key")
            /\ UNCHANGED <<control, late, result>>
  /\ UNCHANGED <<handle, driver, dials, kind, chan, open>>

(* The key is read and is an unencrypted Ed25519 key.                      *)
KeyReturns(p, ok) ==
  /\ pc[p] = "key"
  /\ IF ok THEN Goto(p, "tcp") /\ UNCHANGED <<control, lock, late, result>> ELSE Fail(p)
  /\ UNCHANGED <<session, kind, chan, open>>

(* TcpStream::connect, and the socket's clone is installed.                *)
Dialled(p, ok) ==
  /\ pc[p] = "tcp"
  /\ IF ok
       THEN /\ socket' = "open" /\ dials' = dials + 1
            /\ Goto(p, "handshake")
            /\ UNCHANGED <<failed, auth, lock, late, result>>
       ELSE Fail(p) /\ UNCHANGED dials
  /\ UNCHANGED <<identity, handle, driver, reads, kind, chan, open>>

(* connect_stream: the host key is the pinned one.                         *)
HandshakeReturns(p, ok) ==
  /\ pc[p] = "handshake"
  /\ IF ok
       THEN driver' = "running" /\ Goto(p, "auth") /\ UNCHANGED <<control, lock, late, result>>
       ELSE Fail(p) /\ UNCHANGED driver
  /\ UNCHANGED <<identity, handle, reads, dials, kind, chan, open>>

(* authenticate_publickey; the driver may have stopped meanwhile.          *)
AuthReturns(p, ok) ==
  /\ pc[p] = "auth"
  /\ IF ok
       THEN auth' = TRUE /\ Goto(p, "adopt") /\ UNCHANGED <<failed, socket, lock, late, result>>
       ELSE Fail(p)
  /\ UNCHANGED <<session, kind, chan, open>>

(* handle.is_closed, after the epoch is up.                                *)
Adopt(p) ==
  /\ pc[p] = "adopt"
  /\ IF driver = "closed"
       THEN Fail(p) /\ UNCHANGED handle
       ELSE handle' = TRUE /\ Goto(p, "open") /\ UNCHANGED <<control, lock, late, result>>
  /\ UNCHANGED <<identity, driver, reads, dials, kind, chan, open>>

(* channel_open_session, then exec (or the subsystem) and eof.             *)
ChannelOpens(p, ok) ==
  /\ pc[p] = "open"
  /\ IF ok /\ handle /\ driver = "running"
       THEN /\ chan' = NewChannel /\ open' = TRUE
            /\ Goto(p, "send")
            /\ UNCHANGED <<control, lock, late, result>>
       ELSE Fail(p) /\ UNCHANGED <<chan, open>>
  /\ UNCHANGED <<session, kind>>

RequestSent(p, ok) ==
  /\ pc[p] = "send"
  /\ IF ok THEN Goto(p, "wait") /\ UNCHANGED <<control, lock, late, result>> ELSE Fail(p)
  /\ UNCHANGED <<session, kind, chan, open>>

Messages == {"Success", "Data", "Stderr", "Exit0", "Exit1", "Eof"}

(* What execute (or the capture) makes of a message, if it accepts it.     *)
Accepts(k, m) ==
  LET started == k = "exec" \/ chan.accepted
  IN  CASE m = "Success" -> ~chan.accepted
        [] m = "Data"    -> started /\ ~chan.eof /\ chan.out < Maximum
        [] m = "Stderr"  -> started /\ ~chan.eof /\ chan.err < Maximum
        [] m \in {"Exit0", "Exit1"} -> chan.exit = "none"
        [] m = "Eof"     -> started /\ ~chan.eof
Heard(m) ==
  [accepted |-> chan.accepted \/ m = "Success",
   eof      |-> chan.eof \/ m = "Eof",
   exit     |-> IF m \in {"Exit0", "Exit1"} THEN m ELSE chan.exit,
   out      |-> chan.out + (IF m = "Data" THEN 1 ELSE 0),
   err      |-> chan.err + (IF m = "Stderr" THEN 1 ELSE 0)]

(* channel.wait gives a message other than Close; window updates change    *)
(* nothing.                                                                *)
Message(p, m) ==
  /\ pc[p] = "wait" /\ driver = "running"
  /\ IF Accepts(kind[p], m)
       THEN chan' = Heard(m) /\ UNCHANGED <<control, lock, pc, late, result>>
       ELSE Fail(p) /\ UNCHANGED chan
  /\ UNCHANGED <<session, kind, open>>

ClosesAnyhow(k) == chan.exit # "none"

(* Close ends a channel the peer has answered on and given a status for;   *)
(* a capture's must have ended well, with exactly the bytes it announced.  *)
Closes(k) ==
  /\ chan.accepted /\ chan.exit # "none"
  /\ k = "capture" => chan.eof /\ chan.exit = "Exit0" /\ chan.out = Maximum

CloseArrives(p) ==
  /\ pc[p] = "wait" /\ driver = "running"
  /\ IF Closes(kind[p]) THEN Goto(p, "closing") /\ UNCHANGED <<control, lock, late, result>>
                        ELSE Fail(p)
  /\ UNCHANGED <<session, kind, chan, open>>

(* The channel is closed from this side too: the guard is disarmed, and a  *)
(* nonzero status is the command's own error.                              *)
CloseReturns(p, ok) ==
  /\ pc[p] = "closing"
  /\ IF ok THEN /\ Leave(p, IF chan.exit = "Exit0" THEN "ok" ELSE "exit")
                /\ open' = FALSE
                /\ UNCHANGED control
           ELSE Fail(p) /\ UNCHANGED open
  /\ UNCHANGED <<session, kind, chan>>

(* channel.wait gives None: the driver is gone.                            *)
StreamEnds(p) ==
  /\ pc[p] = "wait" /\ driver # "running"
  /\ Fail(p)
  /\ UNCHANGED <<session, kind, chan, open>>

TimerOverConnect(p) ==
  /\ pc[p] \in {"key", "tcp", "handshake", "auth"} /\ late[p]
  /\ Fail(p)
  /\ UNCHANGED <<session, kind, chan, open>>

(* The deadline's timer, and a request dropped by its caller.              *)
Timer(p) ==
  /\ pc[p] \in Await /\ late[p]
  /\ Fail(p)
  /\ UNCHANGED <<session, kind, chan, open>>
Cancel(p) ==
  /\ pc[p] \in Await
  /\ Fail(p)
  /\ UNCHANGED <<session, kind, chan, open>>

Expire(p) ==
  /\ pc[p] \in Await /\ ~late[p]
  /\ late' = [late EXCEPT ![p] = TRUE]
  /\ UNCHANGED <<control, session, lock, pc, kind, chan, open, result>>

-----------------------------------------------------------------------------
(* The driver task stops (the peer disconnects, the socket is shut): the   *)
(* PinnedHost is dropped, then the handle's channel closes.                *)
DriverDrops ==
  /\ driver = "running" /\ driver' = "dropped"
  /\ auth' = FALSE
  /\ UNCHANGED <<failed, socket, identity, handle, reads, dials, lock, pc, kind, late, chan,
                 open, result>>
DriverCloses ==
  /\ driver = "dropped" /\ driver' = "closed"
  /\ UNCHANGED <<control, identity, handle, reads, dials, lock, pc, kind, late, chan, open,
                 result>>

(* SshBackend::drop, when no request borrows it.                           *)
Shutdown ==
  /\ \A p \in Task : pc[p] = "idle"
  /\ Invalidate
  /\ UNCHANGED <<session, lock, pc, kind, late, chan, open, result>>

Next ==
  \/ \E p \in Task :
       \/ \E k \in {"exec", "capture"} : Call(p, k)
       \/ Enter(p) \/ Adopt(p) \/ CloseArrives(p) \/ StreamEnds(p)
       \/ \E ok \in BOOLEAN :
            \/ KeyReturns(p, ok) \/ Dialled(p, ok) \/ HandshakeReturns(p, ok)
            \/ AuthReturns(p, ok) \/ ChannelOpens(p, ok) \/ RequestSent(p, ok)
            \/ CloseReturns(p, ok)
       \/ \E m \in Messages : Message(p, m)
       \/ Timer(p) \/ Cancel(p) \/ Expire(p)
  \/ DriverDrops \/ DriverCloses \/ Shutdown

Spec == Init /\ [][Next]_vars

(* Tasks are polled and timers fire; nothing is assumed of the key source, *)
(* the network, the peer or the driver.                                    *)
Fairness == \A p \in Task : /\ WF_vars(Enter(p)) /\ WF_vars(Adopt(p))
                            /\ WF_vars(Expire(p)) /\ WF_vars(Timer(p))
FairSpec == Spec /\ Fairness

-----------------------------------------------------------------------------
(* The values the variables take.  The key is read and the device dialled  *)
(* at most once in the backend's life.                                     *)
TypeOK ==
  /\ failed \in BOOLEAN /\ auth \in BOOLEAN /\ socket \in {"none", "open", "shut"}
  /\ identity \in BOOLEAN /\ handle \in BOOLEAN
  /\ driver \in {"none", "running", "dropped", "closed"}
  /\ lock \in Task \cup {None}
  /\ pc \in [Task -> {"idle", "lock", "adopt"} \cup Await]
  /\ kind \in [Task -> {"exec", "capture"}] /\ late \in [Task -> BOOLEAN]
  /\ chan \in [accepted : BOOLEAN, eof : BOOLEAN, exit : {"none", "Exit0", "Exit1"},
               out : 0 .. Maximum, err : 0 .. Maximum]
  /\ open \in BOOLEAN
  /\ reads \in 0 .. 1 /\ dials \in 0 .. 1
  /\ result \in [Task -> {"none", "ok", "exit", "err"}]

(* Between requests, a session whose epoch is up is one that works: its    *)
(* handle is kept, its driver runs, its socket is open, and no channel was *)
(* left for the peer to go on with; and one that failed holds no           *)
(* connection (Control::epoch, FailureGuard, PinnedHost's drop).           *)
IdleEpochIsLive ==
  lock = None => /\ Epoch => handle /\ driver = "running" /\ socket = "open" /\ ~open
                 /\ failed => socket # "open"

(* Once a session has failed it stays so: no channel is opened, no epoch   *)
(* comes back and nothing is dialled again.                                *)
FailureIsFinal ==
  [][failed => /\ failed' /\ ~Epoch'
               /\ dials' = dials /\ reads' = reads
               /\ open' => open]_vars

(* A request that succeeded was accepted by the peer, got status zero, and *)
(* stayed within its limit; a capture got everything and the end of file.  *)
SuccessIsComplete ==
  [][\A p \in Task : result[p] = "none" /\ result'[p] = "ok" =>
       /\ chan.accepted /\ chan.exit = "Exit0" /\ ~open'
       /\ kind[p] = "capture" => chan.eof /\ chan.out = Maximum]_vars

(* Whoever has the session gives it back, whatever hangs.                  *)
Released == \A p \in Task : lock = p ~> lock # p
=============================================================================
