-------------------------------- MODULE Backup --------------------------------
(***************************************************************************)
(* The backup workflow (crates/adapters/src/backups: worker, archive,      *)
(* workflow) with the age cipher (crates/crypto-age): owners take the      *)
(* process-wide slot of the backup worker, a thread seals a capture and    *)
(* inspects the record again, or inspects one an earlier process left, and *)
(* the slot is free again when the thread was joined.                      *)
(*                                                                         *)
(* The workflow of the sealer and the steps of the record store have       *)
(* modules of their own (Sealing, RecordStore); here the sealer drives the *)
(* age cipher and the real validators, in chunks the cipher chooses, and   *)
(* the store keeps at most the record of the one capture, or a torn one    *)
(* after which it cannot be opened.                                        *)
(***************************************************************************)
EXTENDS Archive

CONSTANTS
    Torn,              \* part of a record at the end of the store
    Owners,            \* callers of BackupWorker::spawn
    Captures,          \* archives as a router sent them: a sequence of
                       \* [format, size, plain, z, bytes]
    SystemPath,        \* etc/config/system
    SealChunk,         \* bytes of one read of the cipher
    CopyBytes,         \* the buffer of the cipher's copy loop
    CipherOverhead,    \* bytes the ciphertext is longer
    InputLimit,        \* CryptoLimits::max_input_bytes
    OutputLimit        \* CryptoLimits::max_output_bytes

ASSUME BackupAssumption ==
    /\ CopyBytes \in Nat \ {0}
    /\ SealChunk \in 1..MaxChunkBytes
    /\ {CipherOverhead, InputLimit, OutputLimit} \subseteq Nat
    /\ \A i \in DOMAIN Captures :
         LET c == Captures[i]
         IN  /\ c.bytes \in Seq(Range(c.bytes))
             /\ c.size \in Nat
             /\ c.format = "Tar" => c.plain = c.bytes
    /\ None \notin {"ok", "NotPublished", "Durable", "Unknown"}
    /\ {None, Torn} \cap [length : Int, sound : BOOLEAN] = {} /\ None # Torn
    /\ None \notin [source : Nat, expanded : Nat, payload : Nat, files : Nat]

VARIABLES
    active,            \* ACTIVE
    own,               \* what an owner does with its BackupWorker
    budget,            \* its WorkBudget: ok, late or cancelled
    thread,            \* its thread
    capture,           \* the capture this behaviour is about
    record             \* its record in the store: None, Torn or [length, sound]

vars == <<active, own, budget, thread, capture, record>>

(* The capture, and what its binding says.                                 *)
Captured == Captures[capture]
source_bytes == Len(Captured.bytes)
Manifest == <<[path |-> SystemPath, size |-> Captured.size]>>

(* The plaintext of a record: the capture's, or one of another length.     *)
Plaintext(r) == SubSeq(Append(Captured.bytes, ZeroByte), 1, r.length)
Whole == [length |-> source_bytes, sound |-> TRUE]

NoThread == [pc |-> "none", plan |-> <<>>, check |-> None, fed |-> 0, staging |-> 0, counts |-> None,
             publication |-> None, fault |-> FALSE, before |-> None, after |-> None, result |-> None]

(* A record, or part of one, may be there from an earlier process.  Its    *)
(* MAC says nothing of its plaintext, or of the age stream around it.      *)
Init ==
    /\ active = FALSE
    /\ own = [o \in Owners |-> "idle"]
    /\ budget = [o \in Owners |-> "ok"]
    /\ thread = [o \in Owners |-> NoThread]
    /\ capture \in DOMAIN Captures
    /\ record \in {None, Torn, Whole, [Whole EXCEPT !.sound = FALSE]} \cup
         {[Whole EXCEPT !.length = n] : n \in {source_bytes - 1, source_bytes + 1}}

(***************************************************************************)
(* WorkBudget.  Both flags only ever rise, so two checks with no call      *)
(* between them are one.                                                   *)
(***************************************************************************)
Spent(o) == budget[o] # "ok"
Cause(o) == IF budget[o] = "cancelled" THEN "Cancelled" ELSE "Deadline"

Expire(o) ==
    /\ budget[o] = "ok" /\ own[o] \notin {"idle", "done"}
    /\ budget' = [budget EXCEPT ![o] = "late"]
    /\ UNCHANGED <<active, own, thread, capture, record>>

cancel(o) == budget' = [budget EXCEPT ![o] = "cancelled"]

(***************************************************************************)
(* BackupWorker.                                                           *)
(***************************************************************************)

(* spawn up to the slot, which compare_exchange takes.  A caller that is   *)
(* refused, Busy or for a budget already spent, may come back.             *)
Claim(o, spent) ==
    /\ own[o] = "idle"
    /\ IF spent \/ active THEN UNCHANGED <<own, active>>
       ELSE own' = [own EXCEPT ![o] = "claimed"] /\ active' = TRUE
    /\ UNCHANGED <<budget, thread, capture, record>>

(* What the closures given to spawn have the thread do, once they opened   *)
(* the store.                                                              *)
Plans == {<<"seal", "inspect">>, <<"inspect">>}

Started(o, plan) ==
    /\ own' = [own EXCEPT ![o] = "holds"]
    /\ thread' = [thread EXCEPT ![o] = [NoThread EXCEPT !.pc = "start", !.plan = plan, !.before = record]]
    /\ UNCHANGED active

(* The mutant keeps the slot of a thread that was never created.           *)
StartOrLeak(o) ==
    /\ own[o] = "claimed"
    /\ \/ \E plan \in Plans : Started(o, plan)
       \/ own' = [own EXCEPT ![o] = "done"] /\ UNCHANGED <<active, thread>>
    /\ UNCHANGED <<budget, capture, record>>
(* The rest of spawn: the thread is created, or the slot given back.       *)
Start(o) ==
    /\ own[o] = "claimed"
    /\ \/ \E plan \in Plans : Started(o, plan)
       \/ /\ own' = [own EXCEPT ![o] = "done"]
          /\ active' = FALSE
          /\ UNCHANGED thread
    /\ UNCHANGED <<budget, capture, record>>

Cancel(o) ==
    /\ own[o] = "holds"
    /\ budget[o] # "cancelled"
    /\ cancel(o)
    /\ UNCHANGED <<active, own, thread, capture, record>>

Join(o) ==
    /\ own[o] = "holds"
    /\ own' = [own EXCEPT ![o] = "joining"]
    /\ UNCHANGED <<active, budget, thread, capture, record>>

(* The mutant drops the handle, which detaches the thread.                 *)
DropDetached(o) ==
    /\ own[o] = "holds"
    /\ cancel(o)
    /\ own' = [own EXCEPT ![o] = "joined"]
    /\ UNCHANGED <<active, thread, capture, record>>
Drop(o) ==
    /\ own[o] = "holds"
    /\ cancel(o)
    /\ own' = [own EXCEPT ![o] = "joining"]
    /\ UNCHANGED <<active, thread, capture, record>>

(* join_inner: handle.join() returns when the thread has ended or          *)
(* panicked, and then the slot is free and the result the caller's.        *)
Joined(o) ==
    /\ own[o] = "joining"
    /\ thread[o].pc = "exited"
    /\ own' = [own EXCEPT ![o] = "joined"]
    /\ UNCHANGED <<active, budget, thread, capture, record>>
Free(o) ==
    /\ own[o] = "joined"
    /\ active' = FALSE
    /\ own' = [own EXCEPT ![o] = "done"]
    /\ budget' = [budget EXCEPT ![o] = "ok"]
    /\ thread' = [thread EXCEPT ![o] = IF @.pc = "exited" THEN NoThread ELSE @]
    /\ UNCHANGED <<capture, record>>

(***************************************************************************)
(* The thread.  Continue moves it on, Refuse ends its work with an error,  *)
(* Fault does so because a call outside this program failed.               *)
(***************************************************************************)
Continue(o, t) == thread' = [thread EXCEPT ![o] = t] /\ UNCHANGED record
Refuse(o, err) == Continue(o, [thread[o] EXCEPT !.pc = "end", !.result = err])
Fault(o, err) == Continue(o, [thread[o] EXCEPT !.pc = "end", !.result = err, !.fault = TRUE])

(* A BackupFailure of seal_capture, which the caller answers as Unknown.   *)
SealFails(o, publication, fault) ==
    Continue(o, [thread[o] EXCEPT !.pc = "end", !.result = "Unknown", !.publication = publication,
                                  !.fault = @ \/ fault])

At(o, pc) == thread[o].pc = pc /\ UNCHANGED <<active, own, budget, capture>>

Exit(o, result) ==
    thread' = [thread EXCEPT ![o].pc = "exited", ![o].result = result, ![o].after = record]

Begin(o) ==
    /\ At(o, "start")
    /\ UNCHANGED record
    /\ IF Spent(o) THEN Exit(o, Cause(o))
       ELSE thread' = [thread EXCEPT ![o].pc = "open"]

(* RecordStore::open: the whole store is scanned, and one with a torn      *)
(* record is refused.                                                      *)
OpenStore(o) ==
    /\ At(o, "open")
    /\ \/ Fault(o, "Integrity")
       \/ IF Spent(o) THEN Refuse(o, Cause(o))
          ELSE IF record = Torn THEN Refuse(o, "Integrity")
          ELSE Continue(o, [thread[o] EXCEPT !.pc = Head(thread[o].plan)])

(* The check after the work: a spent budget replaces the result.           *)
End(o) ==
    /\ At(o, "end")
    /\ UNCHANGED record
    /\ Exit(o, IF Spent(o) THEN Cause(o) ELSE thread[o].result)

(* A panic anywhere in the work; join answers Unavailable.                 *)
Panic(o) ==
    /\ thread[o].pc \notin {"none", "start", "end", "exited"}
    /\ thread' = [thread EXCEPT ![o].pc = "exited", ![o].result = "Unavailable", ![o].fault = TRUE,
                                ![o].after = record]
    /\ UNCHANGED <<active, own, budget, capture, record>>

(***************************************************************************)
(* Check: the validator of the format, for the one file of the binding.    *)
(***************************************************************************)
ManifestFits == ExpectedFile(Manifest[1]) = "ok" /\ ExpectedArchive(Manifest) = "ok"
NewCheck == IF Captured.format = "Tar" THEN NewArchive(Manifest) ELSE NewGzip(Manifest)
FeedCheck(v, input) == IF Captured.format = "Tar" THEN FeedArchive(v, input) ELSE FeedGzip(v, input)
FinishCheck(v) ==
    LET s == IF Captured.format = "Tar" THEN FinishArchive(v) ELSE FinishGzip(v)
    IN  IF s.err # "ok" THEN None
        ELSE [source |-> IF Captured.format = "Tar" THEN s.archive ELSE s.source,
              expanded |-> s.archive, payload |-> s.payload, files |-> s.files]

(* The mutant refuses the write that just reaches the limit.               *)
OutputFitsStrictly(n) == n < OutputLimit

(* The streams of the cipher: BoundedRead lets exactly so many bytes       *)
(* through and then probes for one more, BoundedWrite refuses a write that *)
(* would pass its limit.                                                   *)
InputFits(n) == n <= InputLimit
OutputFits(n) == n <= OutputLimit

(***************************************************************************)
(* seal_capture.                                                           *)
(***************************************************************************)
SealBegins(o) ==
    /\ At(o, "seal")
    /\ IF Spent(o) \/ ~ManifestFits THEN SealFails(o, "NotPublished", FALSE)
       ELSE Continue(o, [thread[o] EXCEPT !.pc = "read", !.check = NewCheck])

(* The cipher reads the source through the sealer, which feeds what it     *)
(* read to the validator first.  At its limit it probes for one byte more. *)
SealReads(o) ==
    LET t == thread[o]
        left == source_bytes - t.fed
    IN  /\ At(o, "read")
        /\ \/ SealFails(o, "NotPublished", TRUE)
           \/ /\ Spent(o) \/ (left > 0 /\ ~InputFits(t.fed + 1))
              /\ SealFails(o, "NotPublished", FALSE)
           \/ /\ ~Spent(o) /\ left > 0
              /\ \E k \in 1..Lesser(Lesser(SealChunk, left), InputLimit - t.fed) :
                   LET v == FeedCheck(t.check, SubSeq(Captured.bytes, t.fed + 1, t.fed + k))
                   IN  IF v.err # "ok" THEN SealFails(o, "NotPublished", FALSE)
                       ELSE Continue(o, [t EXCEPT !.check = v, !.fed = @ + k])
           \/ /\ ~Spent(o) /\ left = 0
              /\ IF ~OutputFits(source_bytes + CipherOverhead)
                 THEN SealFails(o, "NotPublished", FALSE)
                 ELSE Continue(o, [t EXCEPT !.pc = "finish"])

(* finish of the validator, the counts the sealer asks for, complete of    *)
(* the source and flush of the stage.                                      *)
CountsAreValid(c, source) ==
    /\ c.source = source
    /\ c.files \in 1..MaxFiles
    /\ c.expanded \in 1..MaxArchiveBytes
    /\ c.payload <= MaxPayloadBytes /\ c.payload <= c.expanded
SealFinishes(o) ==
    LET t == thread[o]
        c == FinishCheck(t.check)
    IN  /\ At(o, "finish")
        /\ IF Spent(o) \/ c = None THEN SealFails(o, "NotPublished", FALSE)
           ELSE IF ~CountsAreValid(c, t.fed) THEN SealFails(o, "NotPublished", FALSE)
           ELSE Continue(o, [t EXCEPT !.pc = "publish", !.counts = c, !.check = None])

(* Stage::publish and the scan of the store; a scan that fails, for the    *)
(* budget or for the disk, leaves the publication in doubt.                *)
SealPublishes(o) ==
    LET c == thread[o].counts
    IN  /\ At(o, "publish")
        /\ \/ SealFails(o, "Unknown", TRUE)
           \/ IF c.source # source_bytes \/ c.payload # Captured.size \/ c.files # 1
              THEN SealFails(o, "NotPublished", FALSE)
              ELSE IF Spent(o) THEN SealFails(o, "Unknown", FALSE)
              ELSE IF record # None THEN SealFails(o, "NotPublished", FALSE)
              ELSE Continue(o, [thread[o] EXCEPT !.pc = "append"])

(* An append or a sync that failed.                                        *)
InDoubt(o) ==
    thread' = [thread EXCEPT ![o] =
      [thread[o] EXCEPT !.pc = "end", !.result = "Unknown", !.publication = "Unknown", !.fault = TRUE]]

(* The mutant takes a first append that failed for one that wrote nothing. *)
SealAppendsOrNothing(o) ==
    LET failed == [thread[o] EXCEPT !.pc = "end", !.result = "Unknown", !.publication = "NotPublished",
                                    !.fault = TRUE]
    IN  /\ At(o, "append")
        /\ ~Spent(o)
        /\ \/ thread' = [thread EXCEPT ![o] = failed] /\ record' \in {None, Torn}
           \/ thread' = [thread EXCEPT ![o].pc = "writing"] /\ record' = Torn

(* The rest of publish up to the first append: no tag, no time, an append  *)
(* that fails, with nothing or some of its bytes in the file, or not.      *)
SealAppends(o) ==
    /\ At(o, "append")
    /\ \/ SealFails(o, "NotPublished", TRUE)
       \/ Spent(o) /\ SealFails(o, "NotPublished", FALSE)
       \/ /\ ~Spent(o)
          /\ \/ InDoubt(o) /\ record' \in {None, Torn}
             \/ thread' = [thread EXCEPT ![o].pc = "writing"] /\ record' = Torn

(* The other appends, with a check of the budget before and after each,    *)
(* and the sync.  Until the last the record is torn.                       *)
SealWrites(o) ==
    /\ At(o, "writing")
    /\ \/ InDoubt(o) /\ record' \in {Torn, Whole}
       \/ Spent(o) /\ SealFails(o, "Unknown", FALSE)
       \/ ~Spent(o) /\ thread' = [thread EXCEPT ![o].pc = "synced"] /\ record' = Whole

(* The last check of publish; after it only the sealer's clock can object, *)
(* to a publication that stands.                                           *)
SealReturns(o) ==
    /\ At(o, "synced")
    /\ \/ SealFails(o, "Durable", TRUE)
       \/ IF Spent(o) THEN SealFails(o, "Unknown", FALSE)
          ELSE Continue(o, [thread[o] EXCEPT !.pc = "inspect", !.publication = "Durable"])

(***************************************************************************)
(* restore_inspect.                                                        *)
(***************************************************************************)

(* authenticated_bytes: the whole store is scanned.                        *)
InspectBegins(o) ==
    /\ At(o, "inspect")
    /\ \/ Fault(o, "Integrity")
       \/ IF Spent(o) THEN Refuse(o, Cause(o))
          ELSE IF record = None THEN Refuse(o, "Unknown")
          ELSE Continue(o, [thread[o] EXCEPT !.pc = "decrypt", !.staging = 0])

(* decrypt_to_staging, one turn of the copy loop: a portion that is        *)
(* authentic goes to the staging memory, which has room for what the       *)
(* binding says.  Only its end tells that the stream was whole.            *)
Decrypts(o) ==
    LET n == record.length
        t == thread[o]
        k == Lesser(CopyBytes, n - t.staging)
    IN  /\ At(o, "decrypt")
        /\ \/ Fault(o, "Integrity")
           \/ IF Spent(o) \/ ~InputFits(n + CipherOverhead) THEN Refuse(o, "Integrity")
              ELSE IF k = 0
              THEN IF record.sound THEN Continue(o, [t EXCEPT !.pc = "compare"]) ELSE Refuse(o, "Integrity")
              ELSE IF ~OutputFits(t.staging + k) \/ t.staging + k > source_bytes
              THEN Refuse(o, "Integrity")
              ELSE Continue(o, [t EXCEPT !.staging = @ + k])

(* Only a whole decryption is parsed, and only of the bound length.        *)
Compares(o) ==
    /\ At(o, "compare")
    /\ IF Spent(o) THEN Refuse(o, Cause(o))
       ELSE IF thread[o].staging # source_bytes THEN Refuse(o, "Integrity")
       ELSE IF ~ManifestFits THEN Refuse(o, "Invalid")
       ELSE Continue(o, [thread[o] EXCEPT !.pc = "feed", !.check = NewCheck, !.fed = 0])

(* One chunk, the largest the validator takes, or finish after the last.   *)
InspectFeeds(o) ==
    LET t == thread[o]
        k == Lesser(MaxChunkBytes, t.staging - t.fed)
        v == FeedCheck(t.check, SubSeq(Plaintext(record), t.fed + 1, t.fed + k))
        c == FinishCheck(t.check)
    IN  /\ At(o, "feed")
        /\ IF Spent(o) THEN Refuse(o, "Integrity")
           ELSE IF k > 0
           THEN IF v.err # "ok" THEN Refuse(o, "Integrity")
                ELSE Continue(o, [t EXCEPT !.check = v, !.fed = @ + k])
           ELSE IF c = None THEN Refuse(o, "Integrity")
           ELSE Continue(o, [t EXCEPT !.pc = "end", !.counts = c, !.result = "ok"])

Work(o) ==
    \/ Begin(o) \/ OpenStore(o) \/ End(o) \/ Panic(o)
    \/ SealBegins(o) \/ SealReads(o) \/ SealFinishes(o)
    \/ SealPublishes(o) \/ SealAppends(o) \/ SealWrites(o) \/ SealReturns(o)
    \/ InspectBegins(o) \/ Decrypts(o) \/ Compares(o) \/ InspectFeeds(o)

Finished == (\A o \in Owners : own[o] = "done") /\ UNCHANGED vars

Next ==
    \/ \E o \in Owners :
         \/ (\E spent \in BOOLEAN : Claim(o, spent)) \/ Start(o) \/ Cancel(o) \/ Join(o) \/ Drop(o) \/ Joined(o) \/ Free(o)
         \/ Expire(o) \/ Work(o)
    \/ Finished

(* Every step of spawn and of a thread is taken: its calls return.  A      *)
(* BackupWorker is joined or dropped in the end, as Rust drops every value *)
(* that leaves its scope.                                                  *)
Fairness ==
    \A o \in Owners :
      /\ WF_vars(Start(o)) /\ WF_vars(Work(o))
      /\ WF_vars(Join(o) \/ Drop(o)) /\ WF_vars(Joined(o)) /\ WF_vars(Free(o))

Spec == Init /\ [][Next]_vars /\ Fairness

-------------------------------------------------------------------------------
WellFormed(c) ==
    /\ c.bytes = IF c.format = "Tar" THEN c.plain ELSE GzipBytes(c.z, c.plain)
    /\ WellFormedTar(c.plain, <<[path |-> SystemPath, size |-> c.size]>>)
    /\ c.format = "Gzip" => WellFormedGzip(c.z, c.plain)

(* What an inspection of a record can succeed on: the exact bytes, whole,  *)
(* well formed, within the limits of the cipher.                           *)
Inspectable(r) ==
    /\ r = Whole
    /\ WellFormed(Captured)
    /\ source_bytes + CipherOverhead <= InputLimit /\ source_bytes <= OutputLimit
Sealable == WellFormed(Captured) /\ source_bytes <= InputLimit /\ source_bytes + CipherOverhead <= OutputLimit

(* The verdict of a thread that ended (restore_inspect, seal_capture and   *)
(* the two validators, fed in different chunks).  Success means a whole,   *)
(* well-formed record with the counts of the capture.  Without a fault     *)
(* outside and with time left, a store that can be read and has no record  *)
(* of the capture gets one exactly if the capture can be sealed, however   *)
(* it was cut into chunks; and the answer is a success exactly if the      *)
(* record, the one that was there or the one the capture makes, can be     *)
(* inspected.                                                              *)
VerdictIsExact ==
    \A o \in Owners : LET t == thread[o] IN t.pc = "exited" =>
      /\ t.result = "ok" =>
           /\ Inspectable(t.after)
           /\ t.counts.source = source_bytes /\ t.counts.payload = Captured.size /\ t.counts.files = 1
           /\ t.counts.expanded = Len(Captured.plain)
      /\ (~t.fault /\ t.result \notin {"Cancelled", "Deadline"}) =>
           IF t.plan = <<"inspect">> THEN t.result = "ok" <=> Inspectable(t.before)
           ELSE /\ t.publication = "Durable" <=> Sealable /\ t.before = None
                /\ t.result = "ok" <=> Sealable /\ t.before = None /\ Inspectable(Whole)
      /\ t.publication = "Durable" => Sealable

(* What a thread that ended says of the store (publish, seal_capture and   *)
(* restore_inspect, over every fault, panic, cancellation and expiry): a   *)
(* publication reported as made left the whole record, one reported as not *)
(* made left the store as it was, and an inspection succeeds on the whole  *)
(* record alone, for a capture just sealed on one that is durable.         *)
ReportIsTrue ==
    \A o \in Owners : LET t == thread[o] IN t.pc = "exited" =>
      /\ t.publication = "NotPublished" => t.after = t.before
      /\ t.publication = "Durable" => t.after = Whole
      /\ t.result = "ok" => t.after = Whole /\ (t.plan = <<"inspect">> \/ t.publication = "Durable")

(* ACTIVE (worker.rs) is up exactly while some owner's spawn or            *)
(* BackupWorker stands for it, and no thread works outside of it: at most  *)
(* one is alive, also after a drop, a panic or a failed start.             *)
Alive(o) == thread[o].pc \notin {"none", "exited"}
SlotIsHeld ==
    /\ active <=> \E o \in Owners : own[o] \in {"claimed", "holds", "joining", "joined"}
    /\ \A o, p \in Owners : Alive(o) /\ Alive(p) => o = p
    /\ \A o \in Owners : Alive(o) => own[o] \in {"holds", "joining"}

(* The slot is never lost: whoever took ACTIVE gives it back, whatever     *)
(* became of the thread.                                                   *)
SlotReturns == active ~> ~active
===============================================================================
