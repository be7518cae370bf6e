---------------------------- MODULE SealingProofs ----------------------------
(***************************************************************************)
(* Safety of ArchiveSealer::seal for archives and limits of any size.  The *)
(* inductive invariant accounts for every byte while no error has occurred *)
(* and ties the guard's flags to what happened to producer and stage.      *)
(***************************************************************************)
EXTENDS Sealing, TLAPS

Running == {"caps", "cipher", "finish", "complete", "flush", "publish"}
Ended   == {"cleanup", "drop", "done"}

(* Bytes: what the checker accepted was read, what the cipher got was      *)
(* accepted; as long as no error occurred nothing was lost on the way.     *)
StreamInv ==
  /\ fed + left <= total /\ passed <= fed
  /\ error = "none" => /\ fed = count /\ passed = count /\ left + count = total
                       /\ staged = out
  /\ eof => left = 0

(* Past the cipher the archive was read to its end, without an error.      *)
PhaseInv ==
  /\ pc \in Running <=> result = "none"
  /\ pc \in {"finish", "complete", "flush", "publish"} => error = "none" /\ eof /\ count > 0 /\ out > 0
  /\ pc \in Running => (guard.complete <=> pc \in {"flush", "publish"})
  /\ pc = "cleanup" => result = "err"

(* The guard knows what became of producer and stage; only a publication   *)
(* whose answer never came is in doubt.                                    *)
GuardInv ==
  /\ producer = (IF guard.complete THEN "exited" ELSE IF guard.cancelled THEN "cancelled" ELSE "running")
  /\ ~(guard.complete /\ guard.cancelled)
  /\ guard.aborted <=> stage = "aborted"
  /\ guard.aborted => MayAbort(guard.publication)
  /\ guard.publication = "Published" => stage = "published"
  /\ stage = "published" => guard.publication \in {"Published", "Unknown"}
  /\ calls.cancel = (IF guard.cancelled THEN 1 ELSE 0)
  /\ calls.abort = (IF guard.aborted THEN 1 ELSE 0)
  /\ pc \in Running => /\ ~guard.cancelled /\ stage = "private"
                       /\ guard.publication = (IF pc = "publish" THEN "Unknown" ELSE "NotAttempted")
  /\ pc = "done" => /\ guard.complete \/ guard.cancelled
                    /\ MayAbort(guard.publication) => guard.aborted

IInv == TypeOK /\ StreamInv /\ PhaseInv /\ GuardInv /\ SuccessIsComplete

Errors == {"none", "Stream", "Deadline", "Cipher", "Check", "SourceCompletion", "StageFlush"}

-----------------------------------------------------------------------------
(* Budget.after: the first error stays, and no error means in time.        *)
LEMMA AfterKeeps ==
  ASSUME TypeOK, NEW ok \in BOOLEAN, NEW slow \in BOOLEAN, NEW e,
         e \in Errors \ {"none"} \/ (ok /\ e = "-"), After(ok, slow, e)
  PROVE  /\ late' \in BOOLEAN /\ error' \in Errors
         /\ error # "none" => error' = error
         /\ error' = "none" => error = "none" /\ ok /\ ~late /\ ~late'
BY DEF TypeOK, After, First, Errors

(* Streams and guard untouched, a run that goes on or ends without success *)
(* keeps the invariant.                                                    *)
LEMMA RunStep ==
  ASSUME IInv, UNCHANGED <<total, stream, sink>>, late' \in BOOLEAN, error' \in Errors,
         error # "none" => error' = error,
         GuardInv', PhaseInv', result' # "ok",
         guard' \in [complete : BOOLEAN, cancelled : BOOLEAN, aborted : BOOLEAN,
                     publication : {"NotAttempted", "NotPublished", "Published", "Unknown"}],
         producer' \in {"running", "exited", "cancelled"},
         stage' \in {"private", "published", "aborted"}, UNCHANGED calls,
         pc' \in Running \cup Ended, result' \in {"none", "err", "panic"}
  PROVE  IInv'
<1>1. TypeOK'
  BY DEF IInv, TypeOK, stream, sink, Errors, Running, Ended
<1>2. StreamInv'
  BY DEF IInv, StreamInv, stream, sink
<1>q. QED  BY <1>1, <1>2 DEF IInv, SuccessIsComplete

(* Each call of the cipher's reader accounts for its bytes.                *)
LEMMA ReadStep ==
  ASSUME IInv, NEW size \in 0 .. Chunk + 1, NEW k \in 0 .. Chunk + 1,
         NEW ok \in BOOLEAN, NEW good \in BOOLEAN, NEW slow \in BOOLEAN,
         Read(size, k, ok, good, slow)
  PROVE  IInv'
<1> USE SealingAssumption
<1>1. /\ pc = "cipher" /\ result = "none"
      /\ UNCHANGED <<pc, total, out, staged, guard, producer, stage, calls, result>>
  BY DEF Read, sink, world, IInv, PhaseInv, Running
<1>2. /\ late' \in BOOLEAN /\ error' \in Errors
      /\ eof' \in BOOLEAN /\ left' \in 0 .. total /\ count' \in 0 .. SourceLimit
      /\ fed' \in 0 .. total /\ passed' \in 0 .. total
      /\ StreamInv'
  <2>1. CASE Refuses \/ size = 0 \/ eof
    <3>1. UNCHANGED <<left, count, eof, fed, passed, late>>
      BY <2>1 DEF Read, stream
    <3>2. error' \in Errors /\ (error' = "none" => error = "none")
      BY <2>1 DEF Read, Refuse, Refuses, First, Errors, IInv, TypeOK
    <3>q. QED  BY <1>1, <3>1, <3>2 DEF IInv, TypeOK, StreamInv
  <2>2. CASE ~(Refuses \/ size = 0 \/ eof) /\ count = SourceLimit
    <3>1. /\ k <= Smaller(1, left) /\ (k = 0 <=> left = 0)
          /\ left' = IF ok THEN left - k ELSE left
          /\ After(ok /\ k = 0, slow, "Stream")
          /\ eof' = (error' = "none")
          /\ UNCHANGED <<count, fed, passed>>
      BY <2>2 DEF Read
    <3>2. /\ late' \in BOOLEAN /\ error' \in Errors
          /\ error' = "none" => error = "none" /\ ok /\ k = 0
      BY <3>1, AfterKeeps DEF IInv, Errors
    <3>3. left' \in 0 .. total /\ left' <= left /\ (error' = "none" => left' = left /\ left = 0)
      BY <3>1, <3>2 DEF IInv, TypeOK, Smaller
    <3>4. StreamInv'
      BY <1>1, <3>1, <3>2, <3>3 DEF IInv, TypeOK, StreamInv
    <3>q. QED  BY <1>1, <3>1, <3>2, <3>3, <3>4 DEF IInv, TypeOK
  <2>3. CASE ~(Refuses \/ size = 0 \/ eof) /\ count # SourceLimit
    <3> DEFINE room == Smaller(Smaller(size, Chunk), SourceLimit - count)
    <3>1. /\ k <= Smaller(room, left) /\ (k = 0 <=> left = 0)
          /\ left' = IF ok THEN left - k ELSE left
          /\ After(ok /\ (good \/ k = 0), slow, "Stream")
          /\ fed' = IF ok /\ good THEN fed + k ELSE fed
          /\ eof' = (k = 0 /\ error' = "none")
          /\ count' = IF error' = "none" THEN count + k ELSE count
          /\ passed' = IF error' = "none" THEN passed + k ELSE passed
      BY <2>3 DEF Read
    <3>2. /\ late' \in BOOLEAN /\ error' \in Errors
          /\ error' = "none" => error = "none" /\ ok /\ (good \/ k = 0)
      BY <3>1, AfterKeeps DEF IInv, Errors
    <3>3. k \in Nat /\ k <= left /\ k <= SourceLimit - count
      BY <3>1 DEF IInv, TypeOK, Smaller
    <3> HIDE DEF room
    <3>4. left' \in 0 .. total /\ fed' \in 0 .. total /\ fed' + left' <= total /\ fed <= fed' /\ left' <= left
      BY <3>1, <3>3 DEF IInv, TypeOK, StreamInv
    <3>5. CASE error' = "none"
      <4>1. left' = left - k /\ fed' = fed + k /\ count' = count + k /\ passed' = passed + k /\ error = "none"
        BY <3>1, <3>2, <3>5 DEF IInv, TypeOK
      <4>2. StreamInv'
        BY <1>1, <3>1, <3>3, <3>4, <4>1 DEF IInv, TypeOK, StreamInv
      <4>q. QED  BY <1>1, <3>1, <3>2, <3>3, <3>4, <4>1, <4>2 DEF IInv, TypeOK, StreamInv
    <3>6. CASE error' # "none"
      <4>1. count' = count /\ passed' = passed /\ eof' = FALSE
        BY <3>1, <3>6
      <4>2. passed' <= fed'
        BY <3>4, <4>1 DEF IInv, TypeOK, StreamInv
      <4>3. StreamInv'
        BY <1>1, <3>4, <3>6, <4>1, <4>2 DEF StreamInv
      <4>q. QED  BY <1>1, <3>2, <3>4, <4>1, <4>3 DEF IInv, TypeOK
    <3>q. QED  BY <3>5, <3>6
  <2>q. QED  BY <2>1, <2>2, <2>3
<1>3. TypeOK'
  BY <1>1, <1>2 DEF IInv, TypeOK, Errors
<1>4. PhaseInv' /\ GuardInv' /\ SuccessIsComplete'
  BY <1>1 DEF IInv, PhaseInv, GuardInv, SuccessIsComplete
<1>q. QED  BY <1>2, <1>3, <1>4 DEF IInv

(* Each call of the cipher's writer counts what the stage took.            *)
LEMMA WriteStep ==
  ASSUME IInv, NEW size \in 0 .. Chunk + 1, NEW k \in 0 .. Chunk + 1,
         NEW ok \in BOOLEAN, NEW slow \in BOOLEAN, Write(size, k, ok, slow)
  PROVE  IInv'
<1> USE SealingAssumption
<1>1. /\ pc = "cipher" /\ result = "none"
      /\ UNCHANGED <<pc, total, left, count, eof, fed, passed, guard, producer, stage, calls, result>>
  BY DEF Write, stream, world, IInv, PhaseInv, Running
<1>2. /\ late' \in BOOLEAN /\ error' \in Errors /\ (error' = "none" => error = "none")
      /\ out' \in 0 .. CipherLimit /\ staged' \in 0 .. CipherLimit
      /\ error' = "none" => staged' = out'
  <2>1. CASE Refuses \/ size = 0 \/ out = CipherLimit
    <3>1. UNCHANGED <<out, staged, late>>
      BY <2>1 DEF Write, sink
    <3>2. error' \in Errors /\ (error' = "none" => error = "none")
      BY <2>1 DEF Write, Refuse, Refuses, First, Errors, IInv, TypeOK
    <3>q. QED  BY <3>1, <3>2 DEF IInv, TypeOK, StreamInv
  <2>2. CASE ~(Refuses \/ size = 0 \/ out = CipherLimit)
    <3>1. /\ k <= Smaller(Smaller(size, Chunk), CipherLimit - out)
          /\ After(ok /\ k > 0, slow, "Stream")
          /\ staged' = IF ok THEN staged + k ELSE staged
          /\ out' = IF error' = "none" THEN out + k ELSE out
          /\ error = "none"
      BY <2>2 DEF Write, Refuses
    <3>2. /\ late' \in BOOLEAN /\ error' \in Errors /\ (error' = "none" => ok)
      BY <3>1, AfterKeeps DEF IInv, Errors
    <3>3. k \in Nat /\ k <= CipherLimit - out /\ staged = out
      BY <3>1 DEF IInv, TypeOK, Smaller, StreamInv
    <3>q. QED  BY <3>1, <3>2, <3>3 DEF IInv, TypeOK
  <2>q. QED  BY <2>1, <2>2
<1>3. TypeOK' /\ StreamInv'
  BY <1>1, <1>2 DEF IInv, TypeOK, Errors, StreamInv
<1>4. PhaseInv' /\ GuardInv' /\ SuccessIsComplete'
  <2>1. GuardInv' /\ SuccessIsComplete'
    BY <1>1 DEF IInv, GuardInv, SuccessIsComplete
  <2>2. PhaseInv'
    BY <1>1 DEF IInv, PhaseInv
  <2>q. QED  BY <2>1, <2>2
<1>q. QED  BY <1>3, <1>4 DEF IInv

(* Guard::cleanup, on the error path or in Drop: what it cancels and       *)
(* aborts, and how often.                                                  *)
LEMMA CleanupStep ==
  ASSUME IInv, pc \in {"cleanup", "drop"}, Cleanup, pc' \in {"drop", "done"},
         UNCHANGED <<total, stream, sink, late, error, result>>
  PROVE  IInv'
<1> DEFINE cancel == ~guard.complete /\ ~guard.cancelled
           abort  == ~guard.aborted /\ MayAbort(guard.publication)
<1>1. /\ guard' = [guard EXCEPT !.cancelled = @ \/ cancel, !.aborted = @ \/ abort]
      /\ calls' = [cancel |-> calls.cancel + (IF cancel THEN 1 ELSE 0),
                   abort  |-> calls.abort + (IF abort THEN 1 ELSE 0)]
      /\ producer' = IF cancel THEN "cancelled" ELSE producer
      /\ stage' = IF abort THEN "aborted" ELSE stage
  BY DEF Cleanup
<1>2. /\ guard' \in [complete : BOOLEAN, cancelled : BOOLEAN, aborted : BOOLEAN,
                     publication : {"NotAttempted", "NotPublished", "Published", "Unknown"}]
      /\ guard'.complete = guard.complete /\ guard'.publication = guard.publication
      /\ guard'.cancelled = (guard.cancelled \/ cancel)
      /\ guard'.aborted = (guard.aborted \/ abort)
  BY <1>1 DEF IInv, TypeOK
<1>3. calls' = [cancel |-> IF guard'.cancelled THEN 1 ELSE 0, abort |-> IF guard'.aborted THEN 1 ELSE 0]
  <2>1. calls.cancel + (IF cancel THEN 1 ELSE 0) = IF guard'.cancelled THEN 1 ELSE 0
    BY <1>2 DEF IInv, GuardInv
  <2>2. calls.abort + (IF abort THEN 1 ELSE 0) = IF guard'.aborted THEN 1 ELSE 0
    BY <1>2 DEF IInv, GuardInv
  <2>q. QED  BY <1>1, <2>1, <2>2
<1>4. TypeOK'
  BY <1>1, <1>2, <1>3 DEF IInv, TypeOK, stream, sink
<1>5. GuardInv'
  BY <1>1, <1>2, <1>3 DEF IInv, TypeOK, GuardInv, MayAbort, Running
<1>6. StreamInv' /\ PhaseInv'
  BY DEF IInv, TypeOK, StreamInv, PhaseInv, stream, sink, Running
<1>7. SuccessIsComplete'
  <2> SUFFICES ASSUME result = "ok" PROVE SuccessIsComplete'
    BY DEF SuccessIsComplete
  <2>1. producer = "exited" /\ guard.publication = "Published" /\ guard.complete
    BY DEF IInv, SuccessIsComplete, GuardInv
  <2>2. producer' = producer /\ stage' = stage /\ guard'.publication = guard.publication
    BY <1>1, <1>2, <2>1 DEF MayAbort
  <2>q. QED  BY <2>2 DEF IInv, SuccessIsComplete, stream, sink
<1>q. QED  BY <1>4, <1>5, <1>6, <1>7 DEF IInv

(* Every step of an attempt keeps the invariant.                           *)
LEMMA Step == IInv /\ [Next]_vars => IInv'
<1> SUFFICES ASSUME IInv, [Next]_vars PROVE IInv'
  OBVIOUS
<1> USE DEF Running, Ended
<1>1. ASSUME NEW size \in 0 .. Chunk + 1, NEW k \in 0 .. Chunk + 1,
             NEW ok \in BOOLEAN, NEW good \in BOOLEAN, NEW slow \in BOOLEAN,
             Read(size, k, ok, good, slow) \/ Write(size, k, ok, slow)
      PROVE  IInv'
  BY <1>1, ReadStep, WriteStep
<1>2. ASSUME NEW able \in BOOLEAN, Capabilities(able)
      PROVE  IInv'
  <2>1. /\ pc = "caps" /\ UNCHANGED <<total, stream, sink, late, guard, producer, stage, calls>>
        /\ \/ pc' = "cipher" /\ result' = result
           \/ pc' = "cleanup" /\ result' = "err"
    BY <1>2 DEF Capabilities, Fail, world
  <2>2. error' \in Errors /\ (error # "none" => error' = error)
    BY <1>2 DEF Capabilities, First, Errors, IInv, TypeOK
  <2>3. PhaseInv' /\ GuardInv'
    BY <2>1 DEF IInv, PhaseInv, GuardInv
  <2>q. QED  BY <2>1, <2>2, <2>3, RunStep DEF IInv, TypeOK, PhaseInv
<1>3. ASSUME NEW ok \in BOOLEAN, NEW right \in BOOLEAN, NEW slow \in BOOLEAN, CipherReturns(ok, right, slow)
      PROVE  IInv'
  <2>1. /\ pc = "cipher" /\ UNCHANGED <<total, stream, sink, guard, producer, stage, calls>>
        /\ \/ pc' = "finish" /\ result' = result /\ error' = "none" /\ eof /\ count > 0 /\ out > 0
           \/ pc' = "cleanup" /\ result' = "err"
    BY <1>3 DEF CipherReturns, Go, Fail, world
  <2>2. late' \in BOOLEAN /\ error' \in Errors /\ (error # "none" => error' = error)
    BY <1>3, AfterKeeps DEF CipherReturns, Errors, IInv
  <2>3. PhaseInv' /\ GuardInv'
    BY <2>1 DEF IInv, PhaseInv, GuardInv, stream, sink
  <2>q. QED  BY <2>1, <2>2, <2>3, RunStep DEF IInv, TypeOK, PhaseInv
<1>4. ASSUME NEW ok \in BOOLEAN, NEW right \in BOOLEAN, NEW slow \in BOOLEAN, CheckerFinishes(ok, right, slow)
      PROVE  IInv'
  <2>1. /\ pc = "finish" /\ UNCHANGED <<total, stream, sink, guard, producer, stage, calls>>
        /\ \/ pc' = "complete" /\ result' = result /\ error' = "none"
           \/ pc' = "cleanup" /\ result' = "err"
    BY <1>4 DEF CheckerFinishes, Go, Fail, world
  <2>2. late' \in BOOLEAN /\ error' \in Errors /\ (error # "none" => error' = error)
    BY <1>4, AfterKeeps DEF CheckerFinishes, Errors, IInv
  <2>3. PhaseInv' /\ GuardInv'
    BY <2>1 DEF IInv, PhaseInv, GuardInv, stream, sink
  <2>q. QED  BY <2>1, <2>2, <2>3, RunStep DEF IInv, TypeOK, PhaseInv
<1>5. ASSUME NEW ok \in BOOLEAN, NEW right \in BOOLEAN, NEW slow \in BOOLEAN, Complete(ok, right, slow)
      PROVE  IInv'
  <2>1. /\ pc = "complete" /\ UNCHANGED <<total, stream, sink, stage, calls>>
        /\ guard' = [guard EXCEPT !.complete = ok]
        /\ producer' = IF ok THEN "exited" ELSE producer
        /\ \/ pc' = "flush" /\ result' = result /\ error' = "none"
           \/ pc' = "cleanup" /\ result' = "err"
    BY <1>5 DEF Complete, Go, Fail
  <2>2. /\ late' \in BOOLEAN /\ error' \in Errors
        /\ error # "none" => error' = error
        /\ error' = "none" => ok
    BY <1>5, AfterKeeps DEF Complete, Errors, IInv
  <2>3. /\ guard' \in [complete : BOOLEAN, cancelled : BOOLEAN, aborted : BOOLEAN,
                       publication : {"NotAttempted", "NotPublished", "Published", "Unknown"}]
        /\ guard'.complete = ok /\ guard'.cancelled = guard.cancelled
        /\ guard'.aborted = guard.aborted /\ guard'.publication = guard.publication
    BY <2>1 DEF IInv, TypeOK
  <2>4. /\ ~guard.cancelled /\ stage = "private" /\ guard.publication = "NotAttempted"
        /\ ~guard.complete
    BY <2>1 DEF IInv, GuardInv, PhaseInv
  <2>5. GuardInv'
    BY <2>1, <2>3, <2>4 DEF IInv, GuardInv
  <2>6. PhaseInv'
    BY <2>1, <2>2, <2>3 DEF IInv, PhaseInv, stream, sink
  <2>q. QED  BY <2>1, <2>2, <2>3, <2>5, <2>6, RunStep DEF IInv, TypeOK, PhaseInv
<1>6. ASSUME NEW ok \in BOOLEAN, NEW slow \in BOOLEAN, Flush(ok, slow)
      PROVE  IInv'
  <2>1. /\ pc = "flush" /\ UNCHANGED <<total, stream, sink, producer, stage, calls>>
        /\ \/ /\ pc' = "publish" /\ result' = result /\ error' = "none"
              /\ guard' = [guard EXCEPT !.publication = "Unknown"]
           \/ pc' = "cleanup" /\ result' = "err" /\ guard' = guard
    BY <1>6 DEF Flush, Go, Fail
  <2>2. late' \in BOOLEAN /\ error' \in Errors /\ (error # "none" => error' = error)
    BY <1>6, AfterKeeps DEF Flush, Errors, IInv
  <2>3. /\ guard' \in [complete : BOOLEAN, cancelled : BOOLEAN, aborted : BOOLEAN,
                       publication : {"NotAttempted", "NotPublished", "Published", "Unknown"}]
        /\ guard'.complete = guard.complete /\ guard'.cancelled = guard.cancelled
        /\ guard'.aborted = guard.aborted
        /\ guard'.publication = IF pc' = "publish" THEN "Unknown" ELSE guard.publication
    BY <2>1 DEF IInv, TypeOK
  <2>4. /\ ~guard.cancelled /\ stage = "private" /\ guard.publication = "NotAttempted"
        /\ ~guard.aborted
    BY <2>1 DEF IInv, GuardInv
  <2>5. GuardInv'
    BY <2>1, <2>3, <2>4 DEF IInv, GuardInv
  <2>6. PhaseInv'
    BY <2>1, <2>3 DEF IInv, PhaseInv, stream, sink
  <2>q. QED  BY <2>1, <2>2, <2>3, <2>5, <2>6, RunStep DEF IInv, TypeOK, PhaseInv
<1>7. ASSUME NEW o \in {"Published", "NotPublished", "Unknown"}, NEW slow \in BOOLEAN,
             PublishReturns(o, slow)
      PROVE  IInv'
  <2>1. /\ pc = "publish" /\ UNCHANGED <<total, stream, sink, producer, calls>>
        /\ guard' = [guard EXCEPT !.publication = o]
        /\ After(TRUE, slow, "-")
        /\ \/ pc' = "drop" /\ result' = "ok" /\ error' = "none" /\ o = "Published"
           \/ pc' = "cleanup" /\ result' = "err"
    BY <1>7 DEF PublishReturns, Fail
  <2>2. /\ stage' \in {"private", "published"}
        /\ (o = "Published" => stage' = "published") /\ (o = "NotPublished" => stage' = "private")
    BY <1>7, Zenon DEF PublishReturns
  <2>3. /\ late' \in BOOLEAN /\ error' \in Errors
        /\ error # "none" => error' = error
        /\ error' = "none" => ~late'
    BY <2>1, AfterKeeps DEF Errors, IInv
  <2>4. /\ guard' \in [complete : BOOLEAN, cancelled : BOOLEAN, aborted : BOOLEAN,
                       publication : {"NotAttempted", "NotPublished", "Published", "Unknown"}]
        /\ guard'.complete = guard.complete /\ guard'.cancelled = guard.cancelled
        /\ guard'.aborted = guard.aborted /\ guard'.publication = o
    BY <2>1 DEF IInv, TypeOK
  <2>5. /\ ~guard.cancelled /\ stage = "private" /\ ~guard.aborted /\ guard.complete
        /\ error = "none" /\ eof /\ count > 0 /\ out > 0
    BY <2>1 DEF IInv, GuardInv, PhaseInv
  <2>6. GuardInv'
    BY <2>1, <2>2, <2>4, <2>5 DEF IInv, GuardInv
  <2>7. PhaseInv'
    BY <2>1, <2>4 DEF IInv, PhaseInv, stream, sink
  <2>8. CASE result' = "err"
    BY <2>1, <2>2, <2>3, <2>4, <2>6, <2>7, <2>8, RunStep DEF IInv, TypeOK, PhaseInv
  <2>9. CASE result' = "ok"
    <3>1. /\ total \in 1 .. SourceLimit /\ left = 0 /\ fed = total /\ passed = total /\ count = total
          /\ out \in 1 .. CipherLimit /\ staged = out
      BY <2>5 DEF IInv, TypeOK, StreamInv
    <3>2. producer = "exited"
      BY <2>5 DEF IInv, GuardInv
    <3>3. stage' = "published" /\ guard'.publication = "Published" /\ error' = "none" /\ ~late'
      BY <2>1, <2>2, <2>3, <2>4, <2>9
    <3>4. SuccessIsComplete'
      BY <2>1, <3>1, <3>2, <3>3 DEF SuccessIsComplete, stream, sink
    <3>5. TypeOK'
      BY <2>1, <2>2, <2>3, <2>4, <2>9 DEF IInv, TypeOK, stream, sink, Errors
    <3>6. StreamInv'
      BY <2>1, <2>5 DEF IInv, StreamInv, stream, sink
    <3>q. QED  BY <2>6, <2>7, <3>4, <3>5, <3>6 DEF IInv
  <2>q. QED  BY <2>1, <2>8, <2>9
<1>8. CASE Panic
  <2>1. /\ pc \in Running /\ pc' = "drop" /\ result' = "panic"
        /\ stage' \in IF pc = "publish" THEN {"private", "published"} ELSE {stage}
        /\ UNCHANGED <<total, stream, sink, late, error, guard, producer, calls>>
    BY <1>8 DEF Panic, Fail
  <2>2. /\ stage = "private" /\ ~guard.cancelled /\ ~guard.aborted
        /\ guard.publication = (IF pc = "publish" THEN "Unknown" ELSE "NotAttempted")
    BY <2>1 DEF IInv, GuardInv
  <2>3. GuardInv'
    BY <2>1, <2>2 DEF IInv, GuardInv
  <2>4. PhaseInv'
    BY <2>1 DEF IInv, PhaseInv, stream, sink
  <2>q. QED  BY <2>1, <2>2, <2>3, <2>4, RunStep DEF IInv, TypeOK, Errors
<1>9. CASE CleanupOnError \/ DropGuard
  BY <1>9, CleanupStep DEF CleanupOnError, DropGuard
<1>10. CASE Tick
  <2>1. /\ pc \in Running /\ late' = TRUE
        /\ UNCHANGED <<pc, total, stream, sink, error, guard, producer, stage, calls, result>>
    BY <1>10 DEF Tick, world, IInv, TypeOK
  <2>2. PhaseInv' /\ GuardInv'
    BY <2>1 DEF IInv, PhaseInv, GuardInv, stream, sink
  <2>q. QED  BY <2>1, <2>2, RunStep DEF IInv, TypeOK, PhaseInv, Errors
<1>11. CASE Done \/ UNCHANGED vars
  BY <1>11 DEF Done, vars, IInv, TypeOK, StreamInv, PhaseInv, GuardInv, SuccessIsComplete
<1>q. QED
  BY <1>1, <1>2, <1>3, <1>4, <1>5, <1>6, <1>7, <1>8, <1>9, <1>10, <1>11 DEF Next

(* Every reachable state of an attempt satisfies the invariant.            *)
THEOREM InvariantHolds == Spec => []IInv
<1>1. Init => IInv
  <2> SUFFICES ASSUME Init PROVE IInv
    OBVIOUS
  <2>1. TypeOK
    <3>1. /\ total \in 0 .. MaxSource /\ left \in 0 .. total /\ count \in 0 .. SourceLimit
          /\ fed \in 0 .. total /\ passed \in 0 .. total
          /\ out \in 0 .. CipherLimit /\ staged \in 0 .. CipherLimit
      BY SealingAssumption DEF Init
    <3>2. calls \in [cancel : 0 .. 1, abort : 0 .. 1]
      BY DEF Init
    <3>q. QED  BY <3>1, <3>2 DEF Init, TypeOK
  <2>2. StreamInv /\ PhaseInv /\ SuccessIsComplete
    BY SealingAssumption DEF Init, StreamInv, PhaseInv, SuccessIsComplete, Running
  <2>3. GuardInv
    BY DEF Init, GuardInv, Running
  <2>q. QED  BY <2>1, <2>2, <2>3 DEF IInv
<1>q. QED  BY <1>1, Step, PTL DEF Spec

(* A seal that reports success read the whole archive, validated and       *)
(* encrypted every byte of it, and published it in time, for archives and  *)
(* limits of any size and ports that lie, fail or panic (run, Guard).      *)
THEOREM SuccessHolds == Spec => []SuccessIsComplete
<1>1. IInv => SuccessIsComplete
  BY DEF IInv
<1>q. QED  BY InvariantHolds, <1>1, PTL

(* The cipher never gets a byte the checker has not accepted (CheckedRead).*)
THEOREM ValidationIsFirst == Spec => []ValidatedFirst
<1>1. IInv => ValidatedFirst
  BY DEF IInv, StreamInv, ValidatedFirst
<1>q. QED  BY InvariantHolds, <1>1, PTL

(* However an attempt ends, neither producer nor useless stage is left,    *)
(* and the report about the publication is true (Guard::cleanup, Drop).    *)
THEOREM CleanupIsComplete == Spec => []NothingLeftBehind
<1>1. IInv => NothingLeftBehind
  BY DEF IInv, TypeOK, GuardInv, NothingLeftBehind, MayAbort
<1>q. QED  BY InvariantHolds, <1>1, PTL

(* What was or may have been published is never aborted, and a producer    *)
(* that exited is never cancelled (Guard::cleanup).                        *)
THEOREM CleanupSafety == Spec => CleanupIsSafe
<1> DEFINE Safe == /\ stage = "published" => stage' = "published"
                   /\ pc = "publish" /\ stage' # stage => stage' = "published"
                   /\ guard.publication = "Unknown" /\ pc \in {"cleanup", "drop"} => UNCHANGED stage
                   /\ producer = "exited" => producer' = "exited"
<1>1. IInv /\ [Next]_vars => [Safe]_vars
  <2> SUFFICES ASSUME IInv, Next PROVE Safe
    BY DEF IInv
  <2>1. CASE CleanupOnError \/ DropGuard
    BY <2>1 DEF CleanupOnError, DropGuard, Cleanup, MayAbort, IInv, GuardInv
  <2>2. ASSUME NEW o \in {"Published", "NotPublished", "Unknown"}, NEW slow \in BOOLEAN,
               PublishReturns(o, slow)
        PROVE  Safe
    <3>1. pc = "publish" /\ producer' = producer /\ stage' \in {"private", "published"}
      BY <2>2, Zenon DEF PublishReturns
    <3>2. stage = "private"
      BY <3>1 DEF IInv, GuardInv, Running
    <3>q. QED  BY <3>1, <3>2
  <2>3. CASE Panic
    <3>1. /\ pc \in Running /\ producer' = producer
          /\ stage' \in IF pc = "publish" THEN {"private", "published"} ELSE {stage}
      BY <2>3 DEF Panic, Running
    <3>2. stage = "private"
      BY <3>1 DEF IInv, GuardInv
    <3>q. QED  BY <3>1, <3>2 DEF Running
  <2>4. ASSUME NEW ok \in BOOLEAN, NEW right \in BOOLEAN, NEW slow \in BOOLEAN, Complete(ok, right, slow)
        PROVE  Safe
    BY <2>4 DEF Complete
  <2>5. CASE UNCHANGED <<stage, producer>>
    BY <2>5
  <2>q. QED
    BY <2>1, <2>2, <2>3, <2>4, <2>5
       DEF Next, Read, Write, Capabilities, CipherReturns, CheckerFinishes, Flush, Tick, Done, world, vars
<1>2. CleanupIsSafe <=> [][Safe]_vars
  BY DEF CleanupIsSafe
<1>q. QED  BY InvariantHolds, <1>1, <1>2, PTL DEF Spec

(* After the first error nothing more is read, staged or published, and    *)
(* the error stays, whatever the cipher makes of it (Budget).              *)
THEOREM ErrorIsFinal == Spec => FirstErrorIsFinal
<1> DEFINE Final == error # "none" => /\ error' = error /\ UNCHANGED <<left, passed, staged>>
                                      /\ stage # "published" => stage' # "published"
<1>1. IInv /\ [Next]_vars => [Final]_vars
  <2> SUFFICES ASSUME IInv, Next, error # "none" PROVE Final
    BY DEF IInv
  <2>1. pc \notin {"finish", "complete", "flush", "publish"}
    BY DEF IInv, PhaseInv
  <2>2. CASE CleanupOnError \/ DropGuard
    BY <2>2 DEF CleanupOnError, DropGuard, Cleanup, stream, sink
  <2>3. ASSUME NEW size, NEW k, NEW ok, NEW good, NEW slow, Read(size, k, ok, good, slow)
        PROVE  Final
    BY <2>3 DEF Read, Refuses, Refuse, First, stream, sink, world
  <2>4. ASSUME NEW size, NEW k, NEW ok, NEW slow, Write(size, k, ok, slow)
        PROVE  Final
    BY <2>4 DEF Write, Refuses, Refuse, First, stream, sink, world
  <2>5. ASSUME NEW ok, NEW right, NEW slow, CipherReturns(ok, right, slow)
        PROVE  Final
    BY <2>5 DEF CipherReturns, After, First, stream, sink, world
  <2>6. ASSUME NEW able, Capabilities(able)
        PROVE  Final
    BY <2>6 DEF Capabilities, First, stream, sink, world
  <2>7. CASE Panic \/ Tick \/ Done
    BY <2>1, <2>7 DEF Panic, Tick, Done, stream, sink, world, vars
  <2>q. QED
    BY <2>1, <2>2, <2>3, <2>4, <2>5, <2>6, <2>7
       DEF Next, CheckerFinishes, Complete, Flush, PublishReturns
<1>2. FirstErrorIsFinal <=> [][Final]_vars
  BY DEF FirstErrorIsFinal
<1>q. QED  BY InvariantHolds, <1>1, <1>2, PTL DEF Spec
==============================================================================
