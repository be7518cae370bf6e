-------------------------- MODULE SshSessionProofs --------------------------
(***************************************************************************)
(* Safety of the SSH session for any number of requests and any output     *)
(* limit.  The inductive invariant says what the session looks like at     *)
(* each await of the one request that can be inside it.                    *)
(***************************************************************************)
EXTENDS SshSession, TLAPS

Dialling   == {"key", "tcp", "handshake", "auth", "adopt"}
Exchanging == {"send", "wait", "closing"}
Inside     == Dialling \cup {"open"} \cup Exchanging

(* Whoever is past try_lock has the lock, and a session that failed has    *)
(* nobody inside: the guard of the one who failed went before its lock.    *)
LockInv ==
  /\ \A p \in Task : pc[p] \in Inside <=> lock = p
  /\ lock # None => ~failed

(* The identity is spent by the first connection; from its dialling on     *)
(* there is a socket, shut when the session fails.                         *)
SocketInv ==
  /\ failed => socket # "open" /\ ~auth
  /\ reads = IF identity THEN 0 ELSE 1
  /\ identity => socket = "none" /\ dials = 0 /\ ~handle /\ ~auth /\ driver = "none"
  /\ handle => failed \/ socket = "open"
  /\ auth => socket = "open"

(* What each await of a request says about the connection it makes or      *)
(* uses.  A driver that stops revokes the epoch, so a channel that was     *)
(* opened while the epoch is up has its driver.                            *)
AwaitInv(p) ==
  /\ pc[p] \in Dialling => ~identity /\ ~handle /\ ~open
  /\ pc[p] \in {"key", "tcp"} => socket = "none" /\ dials = 0
  /\ pc[p] \in {"handshake", "auth", "adopt"} => socket = "open"
  /\ pc[p] = "open" => ~open /\ (auth => handle)
  /\ pc[p] \in Exchanging => handle /\ (auth => driver = "running")
  /\ pc[p] = "closing" => Closes(kind[p])

IInv == TypeOK /\ LockInv /\ SocketInv /\ IdleEpochIsLive
        /\ (lock = None /\ ~failed => ~open)
        /\ \A p \in Task : AwaitInv(p)

-----------------------------------------------------------------------------
(* The parts of the invariant, and the program points, for the provers.    *)
LEMMA Points ==
  /\ Await = {"key", "tcp", "handshake", "auth", "open", "send", "wait", "closing"}
  /\ Inside = {"key", "tcp", "handshake", "auth", "adopt", "open", "send", "wait", "closing"}
BY DEF Await, Inside, Dialling, Exchanging

(* An error, a timeout or a dropped future: whoever fails leaves a session *)
(* that has failed, with its socket shut and nobody inside.                *)
LEMMA FailStep ==
  ASSUME IInv, NEW p \in Task, lock = p \/ (lock = None /\ pc[p] = "lock" /\ ~failed), Fail(p),
         UNCHANGED <<session, kind, chan, open>>
  PROVE  IInv'
<1> USE SshSessionAssumption
<1>1. TypeOK'
  BY DEF IInv, TypeOK, Fail, Invalidate, Leave, Goto, session
<1>2. /\ failed' /\ ~auth' /\ socket' # "open" /\ lock' = None
      /\ \A q \in Task : pc'[q] \notin Inside
  BY Points DEF IInv, TypeOK, LockInv, Fail, Invalidate, Leave, Goto
<1>3. LockInv' /\ IdleEpochIsLive' /\ \A q \in Task : AwaitInv(q)'
  BY <1>2 DEF LockInv, IdleEpochIsLive, Epoch, AwaitInv, Inside, Dialling, Exchanging
<1>4. SocketInv'
  BY <1>2 DEF IInv, SocketInv, Fail, Invalidate, session
<1>q. QED  BY <1>1, <1>2, <1>3, <1>4 DEF IInv

(* A request moves from one await to the next, or stays, with the lock.    *)
LEMMA Others ==
  ASSUME IInv, NEW p \in Task, lock = p, NEW q \in Task, q # p
  PROVE  pc[q] \notin Inside
BY DEF IInv, LockInv

(* One request inside makes progress: the others see nothing of it but     *)
(* what LockInv says, so the step is about its own await.                  *)
LEMMA Progress ==
  ASSUME IInv, NEW p \in Task, lock = p, lock' = p, TypeOK', SocketInv', AwaitInv(p)',
         pc'[p] \in Inside, \A q \in Task : q # p => pc'[q] = pc[q], ~failed'
  PROVE  IInv'
<1> USE SshSessionAssumption
<1>1. \A q \in Task : q # p => pc'[q] \notin Inside
  BY Others
<1>2. LockInv' /\ IdleEpochIsLive'
  BY <1>1 DEF LockInv, IdleEpochIsLive
<1>3. \A q \in Task : AwaitInv(q)'
  BY <1>1 DEF AwaitInv, Inside, Dialling, Exchanging
<1>q. QED  BY <1>2, <1>3 DEF IInv

(* Every step of the session keeps the invariant.                          *)
LEMMA Step == IInv /\ [Next]_vars => IInv'
<1> SUFFICES ASSUME IInv, [Next]_vars PROVE IInv'
  OBVIOUS
<1> USE SshSessionAssumption DEF IInv
<1>1. ASSUME NEW p \in Task, NEW k \in {"exec", "capture"}, Call(p, k)
      PROVE  IInv'
  <2>1. /\ pc[p] = "idle" /\ pc' = [pc EXCEPT ![p] = "lock"] /\ kind' = [kind EXCEPT ![p] = k]
        /\ UNCHANGED <<failed, auth, socket, identity, handle, driver, reads, dials, lock, late, chan, open>>
    BY <1>1 DEF Call, Goto, control, session
  <2>2. TypeOK'
    BY <1>1, <2>1 DEF TypeOK, Call
  <2>3. \A q \in Task : pc'[q] \in Inside <=> pc[q] \in Inside
    BY <2>1, Points DEF TypeOK
  <2>4. LockInv' /\ SocketInv' /\ IdleEpochIsLive'
    BY <2>1, <2>3 DEF LockInv, SocketInv, IdleEpochIsLive, Epoch
  <2>5. \A q \in Task : AwaitInv(q)'
    BY <2>1 DEF AwaitInv, TypeOK, Dialling, Exchanging, Closes
  <2>q. QED  BY <2>1, <2>2, <2>4, <2>5
<1>2. ASSUME NEW p \in Task, Enter(p)
      PROVE  IInv'
  <2>1. CASE lock # None \/ failed
    <3>1. /\ pc' = [pc EXCEPT ![p] = "idle"] /\ pc[p] = "lock" /\ lock' = lock
          /\ UNCHANGED <<failed, auth, socket, identity, handle, driver, reads, dials, kind, chan, open>>
      BY <1>2, <2>1, Points DEF Enter, Leave, Goto, control, LockInv, TypeOK
    <3>2. TypeOK'
      BY <1>2, <2>1, <3>1 DEF Enter, TypeOK, Leave
    <3>3. \A q \in Task : pc'[q] \in Inside <=> pc[q] \in Inside
      BY <3>1, Points DEF TypeOK
    <3>4. LockInv' /\ SocketInv' /\ IdleEpochIsLive'
      BY <3>1, <3>3 DEF LockInv, SocketInv, IdleEpochIsLive, Epoch
    <3>5. \A q \in Task : AwaitInv(q)'
      BY <3>1 DEF AwaitInv, TypeOK, Dialling, Exchanging, Closes
    <3>q. QED  BY <3>1, <3>2, <3>4, <3>5
  <2>2. CASE ~(lock # None \/ failed) /\ Fail(p)
    BY <1>2, <2>2, FailStep DEF Enter, session, Fail, Leave, Goto
  <2>3. CASE ~(lock # None \/ failed) /\ lock' = p /\ ~Fail(p)
    <3>1. /\ lock = None /\ ~failed /\ pc[p] = "lock" /\ ~open
          /\ UNCHANGED <<failed, auth, socket, handle, driver, dials, kind, late, chan, open, result>>
      BY <1>2, <2>3 DEF Enter, control
    <3>2. \/ /\ pc' = [pc EXCEPT ![p] = "open"] /\ UNCHANGED <<identity, reads>>
             /\ handle \/ kind[p] = "capture"
          \/ /\ pc' = [pc EXCEPT ![p] = "key"] /\ identity' = FALSE /\ reads' = reads + 1
             /\ identity /\ ~handle
      BY <1>2, <2>3 DEF Enter, Goto, TypeOK
    <3>3. TypeOK'
      <4>1. identity' \in BOOLEAN
        BY <3>2 DEF TypeOK
      <4>3. reads' \in 0 .. 1
        <5>1. identity => reads = 0
          BY DEF SocketInv
        <5>q. QED  BY <3>2, <5>1 DEF TypeOK
      <4>2. pc' \in [Task -> {"idle", "lock", "adopt"} \cup Await] /\ lock' \in Task \cup {None}
        BY <2>3, <3>2, Points DEF TypeOK
      <4>q. QED  BY <3>1, <4>1, <4>2, <4>3 DEF TypeOK
    <3>4. SocketInv'
      BY <3>1, <3>2 DEF SocketInv
    <3>5. \A q \in Task : q # p => pc'[q] = pc[q] /\ pc[q] \notin Inside
      BY <3>1, <3>2 DEF TypeOK, LockInv
    <3>6. LockInv' /\ IdleEpochIsLive'
      BY <3>1, <3>2, <3>5, <2>3, Points DEF LockInv, IdleEpochIsLive, TypeOK
    <3>7. AwaitInv(p)'
      BY <3>1, <3>2 DEF AwaitInv, TypeOK, Dialling, Exchanging, SocketInv, IdleEpochIsLive, Epoch
    <3>8. \A q \in Task : AwaitInv(q)'
      BY <3>5, <3>7 DEF AwaitInv, Inside, Dialling, Exchanging
    <3>q. QED  BY <3>3, <3>4, <3>6, <3>8, <2>3
  <2>q. QED  BY <1>2, <2>1, <2>2, <2>3 DEF Enter
<1>3. ASSUME NEW p \in Task, NEW ok \in BOOLEAN, KeyReturns(p, ok)
      PROVE  IInv'
  <2>1. lock = p /\ ~failed
    BY <1>3, Points DEF KeyReturns, LockInv
  <2>2. CASE Fail(p)
    BY <1>3, <2>1, <2>2, FailStep DEF KeyReturns, session, Fail, Invalidate, Leave, Goto
  <2>3. CASE ~Fail(p)
    <3>1. /\ pc' = [pc EXCEPT ![p] = "tcp"]
          /\ UNCHANGED <<failed, auth, socket, identity, handle, driver, reads, dials,
                         lock, kind, late, chan, open, result>>
      BY <1>3, <2>3 DEF KeyReturns, Goto, control, session, TypeOK
    <3>2. lock' = p /\ ~failed' /\ pc'[p] \in Inside /\ \A q \in Task : q # p => pc'[q] = pc[q]
      BY <2>1, <3>1, Points DEF TypeOK
    <3>3. TypeOK'
      BY <3>1 DEF TypeOK, Await
    <3>4. SocketInv' /\ AwaitInv(p)'
      BY <1>3, <2>1, <3>1 DEF KeyReturns, TypeOK, SocketInv, AwaitInv, Dialling, Exchanging, Closes
    <3>q. QED  BY <2>1, <3>2, <3>3, <3>4, Progress
  <2>q. QED  BY <2>2, <2>3
<1>4. ASSUME NEW p \in Task, NEW ok \in BOOLEAN, Dialled(p, ok)
      PROVE  IInv'
  <2>1. lock = p /\ ~failed
    BY <1>4, Points DEF Dialled, LockInv
  <2>2. CASE Fail(p)
    BY <1>4, <2>1, <2>2, FailStep DEF Dialled, session, Fail, Invalidate, Leave, Goto
  <2>3. CASE ~Fail(p)
    <3>1. /\ pc' = [pc EXCEPT ![p] = "handshake"] /\ socket' = "open" /\ dials' = dials + 1
          /\ UNCHANGED <<failed, auth, identity, handle, driver, reads, lock, kind, late, chan, open, result>>
          /\ dials = 0 /\ ~identity
      BY <1>4, <2>3 DEF Dialled, Goto, TypeOK, AwaitInv, Dialling
    <3>2. lock' = p /\ ~failed' /\ pc'[p] \in Inside /\ \A q \in Task : q # p => pc'[q] = pc[q]
      BY <2>1, <3>1, Points DEF TypeOK
    <3>3. TypeOK'
      BY <3>1 DEF TypeOK, Await
    <3>4. SocketInv' /\ AwaitInv(p)'
      BY <1>4, <2>1, <3>1 DEF Dialled, TypeOK, SocketInv, AwaitInv, Dialling, Exchanging, Closes
    <3>q. QED  BY <2>1, <3>2, <3>3, <3>4, Progress
  <2>q. QED  BY <2>2, <2>3
<1>5. ASSUME NEW p \in Task, NEW ok \in BOOLEAN, HandshakeReturns(p, ok)
      PROVE  IInv'
  <2>1. lock = p /\ ~failed
    BY <1>5, Points DEF HandshakeReturns, LockInv
  <2>2. CASE Fail(p)
    BY <1>5, <2>1, <2>2, FailStep DEF HandshakeReturns, session, Fail, Invalidate, Leave, Goto
  <2>3. CASE ~Fail(p)
    <3>1. /\ pc' = [pc EXCEPT ![p] = "auth"] /\ driver' = "running"
          /\ UNCHANGED <<failed, auth, socket, identity, handle, reads, dials,
                         lock, kind, late, chan, open, result>>
      BY <1>5, <2>3 DEF HandshakeReturns, Goto, control, session, TypeOK
    <3>2. lock' = p /\ ~failed' /\ pc'[p] \in Inside /\ \A q \in Task : q # p => pc'[q] = pc[q]
      BY <2>1, <3>1, Points DEF TypeOK
    <3>3. TypeOK'
      BY <3>1 DEF TypeOK, Await
    <3>4. SocketInv' /\ AwaitInv(p)'
      BY <1>5, <2>1, <3>1 DEF HandshakeReturns, TypeOK, SocketInv, AwaitInv, Dialling, Exchanging, Closes
    <3>q. QED  BY <2>1, <3>2, <3>3, <3>4, Progress
  <2>q. QED  BY <2>2, <2>3
<1>6. ASSUME NEW p \in Task, NEW ok \in BOOLEAN, AuthReturns(p, ok)
      PROVE  IInv'
  <2>1. lock = p /\ ~failed
    BY <1>6, Points DEF AuthReturns, LockInv
  <2>2. CASE Fail(p)
    BY <1>6, <2>1, <2>2, FailStep DEF AuthReturns, session, Fail, Invalidate, Leave, Goto
  <2>3. CASE ~Fail(p)
    <3>1. /\ pc' = [pc EXCEPT ![p] = "adopt"] /\ auth' = TRUE
          /\ UNCHANGED <<failed, socket, identity, handle, driver, reads, dials,
                         lock, kind, late, chan, open, result>>
      BY <1>6, <2>3 DEF AuthReturns, Goto, control, session, TypeOK
    <3>2. lock' = p /\ ~failed' /\ pc'[p] \in Inside /\ \A q \in Task : q # p => pc'[q] = pc[q]
      BY <2>1, <3>1, Points DEF TypeOK
    <3>3. TypeOK'
      BY <3>1 DEF TypeOK, Await
    <3>4. SocketInv' /\ AwaitInv(p)'
      BY <1>6, <2>1, <3>1 DEF AuthReturns, TypeOK, SocketInv, AwaitInv, Dialling, Exchanging, Closes
    <3>q. QED  BY <2>1, <3>2, <3>3, <3>4, Progress
  <2>q. QED  BY <2>2, <2>3
<1>7. ASSUME NEW p \in Task, Adopt(p)
      PROVE  IInv'
  <2>1. lock = p /\ ~failed
    BY <1>7, Points DEF Adopt, LockInv
  <2>2. CASE Fail(p)
    BY <1>7, <2>1, <2>2, FailStep DEF Adopt, session, Fail, Invalidate, Leave, Goto
  <2>3. CASE ~Fail(p)
    <3>1. /\ pc' = [pc EXCEPT ![p] = "open"] /\ handle' = TRUE
          /\ UNCHANGED <<failed, auth, socket, identity, driver, reads, dials,
                         lock, kind, late, chan, open, result>>
      BY <1>7, <2>3 DEF Adopt, Goto, control, session, TypeOK
    <3>2. lock' = p /\ ~failed' /\ pc'[p] \in Inside /\ \A q \in Task : q # p => pc'[q] = pc[q]
      BY <2>1, <3>1, Points DEF TypeOK
    <3>3. TypeOK'
      BY <3>1 DEF TypeOK, Await
    <3>4. SocketInv' /\ AwaitInv(p)'
      BY <1>7, <2>1, <3>1 DEF Adopt, TypeOK, SocketInv, AwaitInv, Dialling, Exchanging, Closes
    <3>q. QED  BY <2>1, <3>2, <3>3, <3>4, Progress
  <2>q. QED  BY <2>2, <2>3
<1>8. ASSUME NEW p \in Task, NEW ok \in BOOLEAN, ChannelOpens(p, ok)
      PROVE  IInv'
  <2>1. lock = p /\ ~failed
    BY <1>8, Points DEF ChannelOpens, LockInv
  <2>2. CASE Fail(p)
    BY <1>8, <2>1, <2>2, FailStep DEF ChannelOpens, session, Fail, Invalidate, Leave, Goto
  <2>3. CASE ~Fail(p)
    <3>1. /\ pc' = [pc EXCEPT ![p] = "send"] /\ chan' = NewChannel /\ open' = TRUE
          /\ handle /\ driver = "running"
          /\ UNCHANGED <<failed, auth, socket, identity, handle, driver, reads, dials,
                         lock, kind, late, result>>
      BY <1>8, <2>3 DEF ChannelOpens, Goto, control, session, TypeOK
    <3>2. lock' = p /\ ~failed' /\ pc'[p] \in Inside /\ \A q \in Task : q # p => pc'[q] = pc[q]
      BY <2>1, <3>1, Points DEF TypeOK
    <3>3. TypeOK'
      BY <3>1 DEF TypeOK, Await, NewChannel
    <3>4. SocketInv' /\ AwaitInv(p)'
      BY <1>8, <2>1, <3>1 DEF ChannelOpens, TypeOK, SocketInv, AwaitInv, Dialling, Exchanging, Closes
    <3>q. QED  BY <2>1, <3>2, <3>3, <3>4, Progress
  <2>q. QED  BY <2>2, <2>3
<1>9. ASSUME NEW p \in Task, NEW ok \in BOOLEAN, RequestSent(p, ok)
      PROVE  IInv'
  <2>1. lock = p /\ ~failed
    BY <1>9, Points DEF RequestSent, LockInv
  <2>2. CASE Fail(p)
    BY <1>9, <2>1, <2>2, FailStep DEF RequestSent, session, Fail, Invalidate, Leave, Goto
  <2>3. CASE ~Fail(p)
    <3>1. /\ pc' = [pc EXCEPT ![p] = "wait"]
          /\ UNCHANGED <<failed, auth, socket, identity, handle, driver, reads, dials,
                         lock, kind, late, chan, open, result>>
      BY <1>9, <2>3 DEF RequestSent, Goto, control, session, TypeOK
    <3>2. lock' = p /\ ~failed' /\ pc'[p] \in Inside /\ \A q \in Task : q # p => pc'[q] = pc[q]
      BY <2>1, <3>1, Points DEF TypeOK
    <3>3. TypeOK'
      BY <3>1 DEF TypeOK, Await
    <3>4. SocketInv' /\ AwaitInv(p)'
      BY <1>9, <2>1, <3>1 DEF RequestSent, TypeOK, SocketInv, AwaitInv, Dialling, Exchanging, Closes
    <3>q. QED  BY <2>1, <3>2, <3>3, <3>4, Progress
  <2>q. QED  BY <2>2, <2>3
<1>10. ASSUME NEW p \in Task, NEW m \in Messages, Message(p, m)
      PROVE  IInv'
  <2>1. lock = p /\ ~failed
    BY <1>10, Points DEF Message, LockInv
  <2>2. CASE Fail(p)
    BY <1>10, <2>1, <2>2, FailStep DEF Message, session, Fail, Invalidate, Leave, Goto
  <2>3. CASE ~Fail(p)
    <3>1. /\ pc' = pc /\ pc[p] = "wait" /\ chan' = Heard(m) /\ Accepts(kind[p], m)
          /\ UNCHANGED <<failed, auth, socket, identity, handle, driver, reads, dials,
                         lock, kind, late, open, result>>
      BY <1>10, <2>3 DEF Message, Goto, control, session, TypeOK
    <3>2. lock' = p /\ ~failed' /\ pc'[p] \in Inside /\ \A q \in Task : q # p => pc'[q] = pc[q]
      BY <2>1, <3>1, Points DEF TypeOK
    <3>3. TypeOK'
      <4>1. Heard(m) \in [accepted : BOOLEAN, eof : BOOLEAN, exit : {"none", "Exit0", "Exit1"},
                          out : 0 .. Maximum, err : 0 .. Maximum]
        <5>1. /\ chan.out + (IF m = "Data" THEN 1 ELSE 0) \in 0 .. Maximum
              /\ chan.err + (IF m = "Stderr" THEN 1 ELSE 0) \in 0 .. Maximum
          <6>1. (m = "Data" => chan.out < Maximum) /\ (m = "Stderr" => chan.err < Maximum)
            BY <3>1 DEF Accepts
          <6>q. QED  BY <6>1 DEF TypeOK
        <5>2. (IF m \in {"Exit0", "Exit1"} THEN m ELSE chan.exit) \in {"none", "Exit0", "Exit1"}
          BY DEF TypeOK
        <5>q. QED  BY <5>1, <5>2 DEF Heard, TypeOK
      <4>q. QED  BY <3>1, <4>1 DEF TypeOK
    <3>4. SocketInv' /\ AwaitInv(p)'
      BY <1>10, <2>1, <3>1 DEF Message, TypeOK, SocketInv, AwaitInv, Dialling, Exchanging, Closes
    <3>q. QED  BY <2>1, <3>2, <3>3, <3>4, Progress
  <2>q. QED  BY <2>2, <2>3
<1>11. ASSUME NEW p \in Task, CloseArrives(p)
      PROVE  IInv'
  <2>1. lock = p /\ ~failed
    BY <1>11, Points DEF CloseArrives, LockInv
  <2>2. CASE Fail(p)
    BY <1>11, <2>1, <2>2, FailStep DEF CloseArrives, session, Fail, Invalidate, Leave, Goto
  <2>3. CASE ~Fail(p)
    <3>1. /\ pc' = [pc EXCEPT ![p] = "closing"] /\ Closes(kind[p]) /\ pc[p] = "wait"
          /\ UNCHANGED <<failed, auth, socket, identity, handle, driver, reads, dials,
                         lock, kind, late, chan, open, result>>
      BY <1>11, <2>3 DEF CloseArrives, Goto, control, session, TypeOK
    <3>2. lock' = p /\ ~failed' /\ pc'[p] \in Inside /\ \A q \in Task : q # p => pc'[q] = pc[q]
      BY <2>1, <3>1, Points DEF TypeOK
    <3>3. TypeOK'
      BY <3>1 DEF TypeOK, Await
    <3>4. SocketInv' /\ AwaitInv(p)'
      BY <1>11, <2>1, <3>1 DEF CloseArrives, TypeOK, SocketInv, AwaitInv, Dialling, Exchanging, Closes
    <3>q. QED  BY <2>1, <3>2, <3>3, <3>4, Progress
  <2>q. QED  BY <2>2, <2>3
<1>12. ASSUME NEW p \in Task, NEW ok \in BOOLEAN, CloseReturns(p, ok)
      PROVE  IInv'
  <2>1. lock = p /\ ~failed
    BY <1>12, Points DEF CloseReturns, LockInv
  <2>2. CASE Fail(p)
    BY <1>12, <2>1, <2>2, FailStep DEF CloseReturns, session, control, Fail, Invalidate
  <2>3. CASE ~Fail(p)
    <3>1. /\ pc' = [pc EXCEPT ![p] = "idle"] /\ lock' = None /\ open' = FALSE /\ pc[p] = "closing"
          /\ late' = [late EXCEPT ![p] = FALSE]
          /\ result' = [result EXCEPT ![p] = IF chan.exit = "Exit0" THEN "ok" ELSE "exit"]
          /\ UNCHANGED <<failed, auth, socket, identity, handle, driver, reads, dials, kind, chan>>
      BY <1>12, <2>1, <2>3 DEF CloseReturns, Leave, Goto, control, session
    <3>2. TypeOK'
      BY <3>1 DEF TypeOK
    <3>3. \A q \in Task : pc'[q] \notin Inside
      BY <2>1, <3>1, Others, Points DEF TypeOK
    <3>4. LockInv' /\ SocketInv' /\ \A q \in Task : AwaitInv(q)'
      BY <2>1, <3>1, <3>3 DEF LockInv, SocketInv, AwaitInv, Inside, Dialling, Exchanging
    <3>5. IdleEpochIsLive'
      BY <2>1, <3>1 DEF IdleEpochIsLive, Epoch, AwaitInv, Exchanging, SocketInv
    <3>q. QED  BY <3>1, <3>2, <3>4, <3>5
  <2>q. QED  BY <2>2, <2>3
<1>13. ASSUME NEW p \in Task, StreamEnds(p)
      PROVE  IInv'
  <2>1. lock = p
    BY <1>13, Points DEF StreamEnds, LockInv
  <2>q. QED  BY <1>13, <2>1, FailStep DEF StreamEnds
<1>14. ASSUME NEW p \in Task, Timer(p)
      PROVE  IInv'
  <2>1. lock = p
    BY <1>14, Points DEF Timer, LockInv
  <2>q. QED  BY <1>14, <2>1, FailStep DEF Timer
<1>15. ASSUME NEW p \in Task, Cancel(p)
      PROVE  IInv'
  <2>1. lock = p
    BY <1>15, Points DEF Cancel, LockInv
  <2>q. QED  BY <1>15, <2>1, FailStep DEF Cancel
<1>16. ASSUME NEW p \in Task, Expire(p)
      PROVE  IInv'
  <2>1. /\ late' = [late EXCEPT ![p] = TRUE]
        /\ UNCHANGED <<failed, auth, socket, identity, handle, driver, reads, dials, lock, pc, kind, chan,
                      open, result>>
    BY <1>16 DEF Expire, control, session
  <2>2. TypeOK'
    BY <2>1 DEF TypeOK
  <2>q. QED
    BY <2>1, <2>2 DEF LockInv, SocketInv, IdleEpochIsLive, Epoch, AwaitInv, Closes
<1>17. CASE DriverDrops
  <2>1. TypeOK'
    BY <1>17 DEF DriverDrops, TypeOK
  <2>2. LockInv' /\ SocketInv' /\ IdleEpochIsLive'
    BY <1>17 DEF DriverDrops, LockInv, SocketInv, IdleEpochIsLive, Epoch
  <2>3. \A q \in Task : AwaitInv(q)'
    BY <1>17 DEF DriverDrops, AwaitInv, Closes
  <2>q. QED  BY <1>17, <2>1, <2>2, <2>3 DEF DriverDrops
<1>18. CASE DriverCloses
  <2>1. TypeOK'
    BY <1>18 DEF DriverCloses, TypeOK, control
  <2>2. LockInv' /\ SocketInv' /\ IdleEpochIsLive'
    BY <1>18 DEF DriverCloses, LockInv, SocketInv, IdleEpochIsLive, Epoch, control
  <2>3. \A q \in Task : AwaitInv(q)'
    BY <1>18 DEF DriverCloses, AwaitInv, Closes, control
  <2>q. QED  BY <1>18, <2>1, <2>2, <2>3 DEF DriverCloses, control
<1>19. CASE Shutdown
  <2>1. TypeOK' /\ failed' /\ ~auth' /\ socket' # "open"
    BY <1>19 DEF Shutdown, Invalidate, TypeOK, session
  <2>2. lock = None /\ \A q \in Task : pc'[q] \notin Inside
    BY <1>19, Points DEF Shutdown, LockInv, TypeOK
  <2>3. LockInv' /\ SocketInv' /\ IdleEpochIsLive'
    BY <1>19, <2>1, <2>2
       DEF Shutdown, Invalidate, LockInv, SocketInv, IdleEpochIsLive, Epoch, session
  <2>4. \A q \in Task : AwaitInv(q)'
    BY <2>2 DEF AwaitInv, Inside, Dialling, Exchanging
  <2>q. QED  BY <2>1, <2>3, <2>4
<1>20. CASE UNCHANGED vars
  BY <1>20 DEF vars, TypeOK, LockInv, SocketInv, IdleEpochIsLive, Epoch, AwaitInv, Closes
<1>q. QED
  BY <1>1, <1>2, <1>3, <1>4, <1>5, <1>6, <1>7, <1>8, <1>9, <1>10,
     <1>11, <1>12, <1>13, <1>14, <1>15, <1>16, <1>17, <1>18, <1>19, <1>20 DEF Next

(* Every reachable state of the session satisfies the invariant.           *)
THEOREM InvariantHolds == Spec => []IInv
<1>1. Init => IInv
  <2> SUFFICES ASSUME Init PROVE IInv
    OBVIOUS
  <2>1. TypeOK
    <3>1. NewChannel \in [accepted : BOOLEAN, eof : BOOLEAN, exit : {"none", "Exit0", "Exit1"},
                          out : 0 .. Maximum, err : 0 .. Maximum]
      BY SshSessionAssumption DEF NewChannel
    <3>2. reads \in 0 .. 1 /\ dials \in 0 .. 1
      BY DEF Init
    <3>3. pc \in [Task -> {"idle", "lock", "adopt"} \cup Await]
      BY DEF Init
    <3>q. QED  BY <3>1, <3>2, <3>3 DEF Init, TypeOK
  <2>2. \A p \in Task : pc[p] \notin Inside /\ lock # p
    BY SshSessionAssumption, Points DEF Init
  <2>3. LockInv /\ SocketInv /\ IdleEpochIsLive
    BY <2>2 DEF Init, LockInv, SocketInv, IdleEpochIsLive, Epoch
  <2>4. \A p \in Task : AwaitInv(p)
    BY <2>2 DEF AwaitInv, Inside, Dialling, Exchanging
  <2>q. QED  BY <2>1, <2>3, <2>4 DEF IInv, Init
<1>q. QED  BY <1>1, Step, PTL DEF Spec

(* Between requests an epoch that is up stands for a working connection,   *)
(* and a session that failed holds none, for any number of requests that   *)
(* overlap, time out or are dropped (Control::epoch, FailureGuard).        *)
THEOREM EpochIsLive == Spec => []IdleEpochIsLive
<1>1. IInv => IdleEpochIsLive
  BY DEF IInv
<1>q. QED  BY InvariantHolds, <1>1, PTL

(* A session that failed stays so: no epoch, no channel and no connection  *)
(* comes after (Control::invalidate, the checks of run and connect).       *)
THEOREM FailureStays == Spec => FailureIsFinal
<1> DEFINE Final == failed => /\ failed' /\ ~Epoch'
                              /\ dials' = dials /\ reads' = reads
                              /\ open' => open
<1>1. IInv /\ [Next]_vars => [Final]_vars
  <2> SUFFICES ASSUME IInv, Next, failed PROVE Final
    BY DEF IInv
  <2>1. \A p \in Task : pc[p] \notin Inside
    BY SshSessionAssumption DEF IInv, LockInv, TypeOK
  <2>2. ASSUME NEW p \in Task, NEW k \in {"exec", "capture"}, Call(p, k) PROVE Final
    BY <2>2 DEF Call
  <2>3. ASSUME NEW p \in Task, Enter(p) PROVE Final
    BY <2>3 DEF Enter, control, Epoch
  <2>4. ASSUME NEW p \in Task, Expire(p) PROVE Final
    BY <2>1, <2>4, Points DEF Expire
  <2>5. CASE DriverDrops \/ DriverCloses \/ Shutdown
    BY <2>5 DEF DriverDrops, DriverCloses, Shutdown, Invalidate, control, session, Epoch
  <2>6. ASSUME NEW p \in Task, pc[p] \in Await \cup {"adopt"} PROVE FALSE
    BY <2>1, <2>6, Points
  <2>q. QED
    BY <2>2, <2>3, <2>4, <2>5, <2>6
       DEF Next, Adopt, CloseArrives, StreamEnds, KeyReturns, Dialled, HandshakeReturns, AuthReturns,
           ChannelOpens, RequestSent, CloseReturns, Message, Timer, Cancel, Await
<1>2. FailureIsFinal <=> [][Final]_vars
  BY DEF FailureIsFinal
<1>q. QED  BY InvariantHolds, <1>1, <1>2, PTL DEF Spec

(* A request that succeeds has seen its channel accepted, ended with       *)
(* status zero and, for a capture, delivered in full to its end of file    *)
(* (execute, capture_archive).                                             *)
THEOREM SuccessIsSeen == Spec => SuccessIsComplete
<1> DEFINE Complete == \A p \in Task : result[p] = "none" /\ result'[p] = "ok" =>
                         /\ chan.accepted /\ chan.exit = "Exit0" /\ ~open'
                         /\ kind[p] = "capture" => chan.eof /\ chan.out = Maximum
<1>1. IInv /\ [Next]_vars => [Complete]_vars
  <2> SUFFICES ASSUME IInv, Next PROVE Complete
    BY DEF IInv
  <2>1. ASSUME NEW p \in Task, NEW ok \in BOOLEAN, CloseReturns(p, ok) PROVE Complete
    <3>1. Closes(kind[p]) /\ \A q \in Task : q # p => result'[q] = result[q]
      BY <2>1 DEF CloseReturns, Fail, Leave, IInv, AwaitInv, TypeOK
    <3>2. result'[p] = "ok" => chan.exit = "Exit0" /\ ~open'
      BY <2>1 DEF CloseReturns, Fail, Leave, IInv, TypeOK
    <3>q. QED  BY <3>1, <3>2 DEF Closes
  <2>2. \/ \E p \in Task, ok \in BOOLEAN : CloseReturns(p, ok)
        \/ result' = result
        \/ \E p \in Task : \E r \in {"none", "err"} : result' = [result EXCEPT ![p] = r]
    BY DEF Next, Call, Enter, Adopt, CloseArrives, StreamEnds, KeyReturns, Dialled, HandshakeReturns,
           AuthReturns, ChannelOpens, RequestSent, Message, Timer, Cancel, Expire, Fail, Leave,
           DriverDrops, DriverCloses, Shutdown
  <2>q. QED  BY <2>1, <2>2 DEF IInv, TypeOK
<1>2. SuccessIsComplete <=> [][Complete]_vars
  BY DEF SuccessIsComplete
<1>q. QED  BY InvariantHolds, <1>1, <1>2, PTL DEF Spec
=============================================================================
