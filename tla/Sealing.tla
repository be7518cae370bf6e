------------------------------- MODULE Sealing -------------------------------
(***************************************************************************)
(* ArchiveSealer::seal (crates/runtime/src/sealing): one attempt to read a *)
(* producer's archive, validate it, encrypt it into a private stage and    *)
(* publish it, through four injected ports that may fail, answer late,     *)
(* return wrong counts or panic.  The cipher calls the read and write      *)
(* wrappers as it likes, may ignore their errors and return early.         *)
(*                                                                         *)
(* Streams are counted in bytes of a small unit.  Causes of failure are    *)
(* one value each for the stream, the deadline and the rest.               *)
(***************************************************************************)
EXTENDS Naturals

CONSTANTS MaxSource,       \* bytes a producer may send
          SourceLimit,     \* SealLimits::source_bytes
          CipherLimit,     \* SealLimits::ciphertext_bytes
          Chunk            \* CHUNK

ASSUME SealingAssumption ==
  /\ MaxSource \in Nat /\ SourceLimit \in Nat \ {0}
  /\ CipherLimit \in Nat \ {0} /\ Chunk \in Nat \ {0}

VARIABLES pc,
          total, left,      \* the producer's bytes: all, and still unread
          count, eof,       \* CheckedRead
          fed, passed,      \* history: bytes the checker accepted, the cipher got
          out,              \* CountedWrite.count
          staged,           \* history: bytes in the stage
          late,             \* the clock is past the timeout, or went back
          error,            \* Budget.error
          guard,            \* Guard: its flags and the publication
          producer,         \* running, exited or cancelled
          stage,            \* what became of the stage: private, published, aborted
          calls,            \* history: calls of cancel and abort
          result            \* none, ok, err or panic

vars == <<pc, total, left, count, eof, fed, passed, out, staged, late, error, guard,
          producer, stage, calls, result>>
stream == <<left, count, eof, fed, passed>>
sink   == <<out, staged>>
world  == <<guard, producer, stage, calls>>

Init ==
  /\ pc = "caps"
  /\ total \in 0 .. MaxSource /\ left = total
  /\ count = 0 /\ eof = FALSE /\ fed = 0 /\ passed = 0
  /\ out = 0 /\ staged = 0
  /\ late = FALSE /\ error = "none"
  /\ guard = [complete |-> FALSE, cancelled |-> FALSE, aborted |-> FALSE,
              publication |-> "NotAttempted"]
  /\ producer = "running" /\ stage = "private"
  /\ calls = [cancel |-> 0, abort |-> 0]
  /\ result = "none"

Smaller(a, b) == IF a < b THEN a ELSE b

-----------------------------------------------------------------------------
(* Budget: the first error stays.                                          *)

RefusesWhenLate == late

Refuses == error # "none" \/ late
First(e) == IF error # "none" THEN error ELSE e
Refuse == error' = First("Deadline")

(* budget.after: a call that failed with e, or came back late.             *)
After(ok, slow, e) ==
  /\ late' = (late \/ slow)
  /\ error' = IF ~ok THEN First(e) ELSE IF late' THEN First("Deadline") ELSE error

(* run returns an error, or is unwound.                                    *)
Fail(r) == pc' = (IF r = "panic" THEN "drop" ELSE "cleanup") /\ result' = r

-----------------------------------------------------------------------------
(* The cipher's calls.                                                     *)

ReadUnchecked(size, k, ok, good, slow) ==
  /\ pc = "cipher"
  /\ IF Refuses THEN Refuse /\ UNCHANGED <<stream, late>>
     ELSE IF size = 0 \/ eof THEN UNCHANGED <<stream, late, error>>
     ELSE IF count = SourceLimit
     THEN /\ k <= Smaller(1, left) /\ (k = 0 <=> left = 0)
          /\ left' = IF ok THEN left - k ELSE left
          /\ After(ok /\ k = 0, slow, "Stream")
          /\ eof' = (error' = "none")
          /\ UNCHANGED <<count, fed, passed>>
     ELSE LET room == Smaller(Smaller(size, Chunk), SourceLimit - count)
          IN  /\ k <= Smaller(room, left) /\ (k = 0 <=> left = 0)
              /\ left' = IF ok THEN left - k ELSE left
              /\ After(ok, slow, "Stream")
              /\ fed' = IF ok /\ good THEN fed + k ELSE fed
              /\ eof' = (k = 0 /\ error' = "none")
              /\ LET kept == error' = "none"
                 IN  /\ count' = IF kept THEN count + k ELSE count
                     /\ passed' = IF kept THEN passed + k ELSE passed
  /\ UNCHANGED <<pc, total, sink, world, result>>

(* CheckedRead::read into size bytes: the source gives k of them or fails, *)
(* the checker finds them good or not.  At the limit one probe byte tells  *)
(* the end from an excess.  A source that claims more bytes than it was    *)
(* asked for counts as failed (ok is FALSE).                               *)
Read(size, k, ok, good, slow) ==
  /\ pc = "cipher"
  /\ IF Refuses THEN Refuse /\ UNCHANGED <<stream, late>>
     ELSE IF size = 0 \/ eof THEN UNCHANGED <<stream, late, error>>
     ELSE IF count = SourceLimit
     THEN /\ k <= Smaller(1, left) /\ (k = 0 <=> left = 0)
          /\ left' = IF ok THEN left - k ELSE left
          /\ After(ok /\ k = 0, slow, "Stream")
          /\ eof' = (error' = "none")
          /\ UNCHANGED <<count, fed, passed>>
     ELSE LET room == Smaller(Smaller(size, Chunk), SourceLimit - count)
          IN  /\ k <= Smaller(room, left) /\ (k = 0 <=> left = 0)
              /\ left' = IF ok THEN left - k ELSE left
              /\ After(ok /\ (good \/ k = 0), slow, "Stream")
              /\ fed' = IF ok /\ good THEN fed + k ELSE fed
              /\ eof' = (k = 0 /\ error' = "none")
              /\ LET kept == error' = "none"
                 IN  /\ count' = IF kept THEN count + k ELSE count
                     /\ passed' = IF kept THEN passed + k ELSE passed
  /\ UNCHANGED <<pc, total, sink, world, result>>

(* CountedWrite::write of size bytes: the stage takes k of them.  Taking   *)
(* none, or claiming more than offered, is a failure.                      *)
Write(size, k, ok, slow) ==
  /\ pc = "cipher"
  /\ IF Refuses THEN Refuse /\ UNCHANGED <<sink, late>>
     ELSE IF size = 0 THEN UNCHANGED <<sink, late, error>>
     ELSE IF out = CipherLimit
     THEN error' = First("Stream") /\ UNCHANGED <<sink, late>>
     ELSE /\ k <= Smaller(Smaller(size, Chunk), CipherLimit - out)
          /\ After(ok /\ k > 0, slow, "Stream")
          /\ staged' = IF ok THEN staged + k ELSE staged
          /\ out' = IF error' = "none" THEN out + k ELSE out
  /\ UNCHANGED <<pc, total, stream, world, result>>

-----------------------------------------------------------------------------
(* run, between the calls of its ports.                                    *)

(* The stage must declare privacy, atomic publication and durability.      *)
Capabilities(able) ==
  /\ pc = "caps"
  /\ IF ~able \/ late THEN Fail("err") ELSE pc' = "cipher" /\ UNCHANGED result
  /\ error' = IF late THEN First("Deadline") ELSE error
  /\ UNCHANGED <<total, stream, sink, late, world>>

Go(ok, next) == IF ok THEN pc' = next /\ UNCHANGED result ELSE Fail("err")

CipherReturnsEarly(ok, true, slow) ==
  /\ pc = "cipher"
  /\ After(ok, slow, "Cipher")
  /\ Go(error' = "none" /\ count > 0 /\ out > 0 /\ true, "finish")
  /\ UNCHANGED <<total, stream, sink, world>>

(* encrypt returns, having called read and write as it liked; true says    *)
(* whether the counts it reports are those of the wrappers.                *)
CipherReturns(ok, true, slow) ==
  /\ pc = "cipher"
  /\ After(ok, slow, "Cipher")
  /\ Go(error' = "none" /\ eof /\ count > 0 /\ out > 0 /\ true, "finish")
  /\ UNCHANGED <<total, stream, sink, world>>

(* checker.finish, and the counts of its summary.                          *)
CheckerFinishes(ok, valid, slow) ==
  /\ pc = "finish"
  /\ After(ok, slow, "Check")
  /\ Go(error' = "none" /\ valid, "complete")
  /\ UNCHANGED <<total, stream, sink, world>>

(* source.complete: a confirmed exit counts even if its count is wrong or  *)
(* it came late.                                                           *)
Complete(ok, same, slow) ==
  /\ pc = "complete"
  /\ After(ok, slow, "SourceCompletion")
  /\ guard' = [guard EXCEPT !.complete = ok]
  /\ producer' = IF ok THEN "exited" ELSE producer
  /\ Go(error' = "none" /\ same, "flush")
  /\ UNCHANGED <<total, stream, sink, stage, calls>>

FlushThenPublish(ok, slow) ==
  /\ pc = "flush"
  /\ After(ok, slow, "StageFlush")
  /\ Go(error' = "none", "publish")
  /\ UNCHANGED <<total, stream, sink, world>>

(* stage.flush; the publication is in doubt before publish is called.      *)
Flush(ok, slow) ==
  /\ pc = "flush"
  /\ After(ok, slow, "StageFlush")
  /\ Go(error' = "none", "publish")
  /\ guard' = IF error' = "none" THEN [guard EXCEPT !.publication = "Unknown"] ELSE guard
  /\ UNCHANGED <<total, stream, sink, producer, stage, calls>>

(* stage.publish answers; one that may have published says Unknown.        *)
PublishReturns(outcome, slow) ==
  /\ pc = "publish"
  /\ stage' \in CASE outcome = "Published"    -> {"published"}
                  [] outcome = "NotPublished" -> {"private"}
                  [] outcome = "Unknown"      -> {"private", "published"}
  /\ guard' = [guard EXCEPT !.publication = outcome]
  /\ After(TRUE, slow, "-")
  /\ IF error' = "none" /\ outcome = "Published"
       THEN pc' = "drop" /\ result' = "ok"
       ELSE Fail("err")
  /\ UNCHANGED <<total, stream, sink, producer, calls>>

(* A port panics; in publish it may have published before.                 *)
Panic ==
  /\ pc \in {"caps", "cipher", "finish", "complete", "flush", "publish"}
  /\ stage' \in IF pc = "publish" THEN {"private", "published"} ELSE {stage}
  /\ Fail("panic")
  /\ UNCHANGED <<total, stream, sink, late, error, guard, producer, calls>>

MayAbortUnattempted(publication) == publication = "NotAttempted"

MayAbort(publication) == publication \in {"NotAttempted", "NotPublished"}

(* Guard::cleanup: an unfinished source is cancelled, a stage that is      *)
(* definitely unpublished aborted, each once.                              *)
Cleanup ==
  LET cancel == ~guard.complete /\ ~guard.cancelled
      abort  == ~guard.aborted /\ MayAbort(guard.publication)
  IN  /\ guard' = [guard EXCEPT !.cancelled = @ \/ cancel, !.aborted = @ \/ abort]
      /\ calls' = [cancel |-> calls.cancel + (IF cancel THEN 1 ELSE 0),
                   abort  |-> calls.abort + (IF abort THEN 1 ELSE 0)]
      /\ producer' = IF cancel THEN "cancelled" ELSE producer
      /\ stage' = IF abort THEN "aborted" ELSE stage

(* The error path cleans up before it reports; the guard's Drop does on    *)
(* every way out, unwinding included.                                      *)
CleanupOnError == pc = "cleanup" /\ Cleanup /\ pc' = "drop"
                  /\ UNCHANGED <<total, stream, sink, late, error, result>>
DropGuard == pc = "drop" /\ Cleanup /\ pc' = "done"
             /\ UNCHANGED <<total, stream, sink, late, error, result>>

Tick == ~late /\ pc \notin {"cleanup", "drop", "done"} /\ late' = TRUE
        /\ UNCHANGED <<pc, total, stream, sink, error, world, result>>

Done == pc = "done" /\ UNCHANGED vars

Next ==
  \/ \E size, k \in 0 .. Chunk + 1, ok, good, slow \in BOOLEAN :
       Read(size, k, ok, good, slow) \/ Write(size, k, ok, slow)
  \/ \E able \in BOOLEAN : Capabilities(able)
  \/ \E ok, right, slow \in BOOLEAN :
       \/ CipherReturns(ok, right, slow) \/ CheckerFinishes(ok, right, slow)
       \/ Complete(ok, right, slow) \/ Flush(ok, slow)
  \/ \E o \in {"Published", "NotPublished", "Unknown"}, slow \in BOOLEAN : PublishReturns(o, slow)
  \/ Panic \/ CleanupOnError \/ DropGuard \/ Tick \/ Done

Spec == Init /\ [][Next]_vars

-----------------------------------------------------------------------------
(* The values the variables take; cleanup calls each port at most once.    *)
TypeOK ==
  /\ pc \in {"caps", "cipher", "finish", "complete", "flush", "publish", "cleanup", "drop", "done"}
  /\ total \in 0 .. MaxSource /\ left \in 0 .. total
  /\ count \in 0 .. SourceLimit /\ fed \in 0 .. total /\ passed \in 0 .. total
  /\ out \in 0 .. CipherLimit /\ staged \in 0 .. CipherLimit
  /\ eof \in BOOLEAN /\ late \in BOOLEAN
  /\ error \in {"none", "Stream", "Deadline", "Cipher", "Check", "SourceCompletion", "StageFlush"}
  /\ guard \in [complete : BOOLEAN, cancelled : BOOLEAN, aborted : BOOLEAN,
                publication : {"NotAttempted", "NotPublished", "Published", "Unknown"}]
  /\ producer \in {"running", "exited", "cancelled"}
  /\ stage \in {"private", "published", "aborted"}
  /\ calls \in [cancel : 0 .. 1, abort : 0 .. 1]
  /\ result \in {"none", "ok", "err", "panic"}

(* A successful seal is of the whole archive: read to its end within the   *)
(* limit, every byte validated and encrypted, every ciphertext byte that   *)
(* was counted in the stage, the producer known to have exited, the        *)
(* artifact published, in time.                                            *)
SuccessIsComplete ==
  result = "ok" =>
    /\ total \in 1 .. SourceLimit /\ left = 0
    /\ fed = total /\ passed = total /\ count = total
    /\ out \in 1 .. CipherLimit /\ staged = out
    /\ producer = "exited" /\ stage = "published" /\ guard.publication = "Published"
    /\ error = "none" /\ ~late

(* No plaintext byte reaches the cipher that the checker has not accepted. *)
ValidatedFirst == passed <= fed

(* An artifact that was, or may have been, published is never aborted, and *)
(* a producer known to have exited is never cancelled.                     *)
CleanupIsSafe ==
  [][/\ stage = "published" => stage' = "published"
     /\ pc = "publish" /\ stage' # stage => stage' = "published"
     /\ guard.publication = "Unknown" /\ pc \in {"cleanup", "drop"} => UNCHANGED stage
     /\ producer = "exited" => producer' = "exited"]_vars

(* However an attempt fails, nothing is left that is known to be useless:  *)
(* no running producer, no stage known to be unpublished; and what the     *)
(* report says of the publication is true.  Neither port is told twice.    *)
NothingLeftBehind ==
  pc = "done" =>
    /\ producer # "running"
    /\ calls.cancel <= 1 /\ calls.abort <= 1
    /\ stage = "private" => guard.publication = "Unknown"
    /\ guard.publication = "Published" => stage = "published"
    /\ guard.publication \in {"NotAttempted", "NotPublished"} => stage = "aborted"

(* After the first stream error no more plaintext is read and nothing is   *)
(* staged or published, though the cipher ignores errors; and it is the    *)
(* error that stays.                                                       *)
FirstErrorIsFinal ==
  [][error # "none" => /\ error' = error /\ UNCHANGED <<left, passed, staged>>
                       /\ stage # "published" => stage' # "published"]_vars
==============================================================================
