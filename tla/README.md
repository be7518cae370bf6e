# A TLA+ model of openwrt-mcp

openwrt-mcp is a server that lets a client of the Model Context Protocol read the
state of an OpenWrt router, locally or over SSH, under a fixed policy and with an
audit trail, and that has the foundations of an encrypted backup store. This
directory specifies the parts of it in which order, failure and time matter, checks
them with TLC on small instances, and proves their safety with TLAPS for every
instance. Beside them it specifies what one call computes, from
the definition of an operation to the bytes of the answer, where the same condition is
checked in several crates that must agree.

`PROJECT.json` lists the components, the runs, the source lines each definition
models, the hazards, the mutants that show each property can fail, and the theorems.

## Inventory

| Component | State it keeps | Operations | Interacts with | What is hard | What makes it correct |
|---|---|---|---|---|---|
| dispatcher (`runtime/dispatcher.rs`) | permits, audit waiters, the audit gate, the failure latch | `invoke`, `capability_status`, and inside them `authorize`, `admit`, `finish`, `reject`, `record_audit` | backend, audit sink, cache, snapshot | concurrent futures, dropped futures, a blocking worker that outlives its future, deadlines that only cooperate | start record before work; the answer agrees with the trail; nothing leaks; the latch is final; everyone is answered |
| capability cache (`runtime/capability.rs`) | one map of observations behind an async mutex; a shared validity flag in every clone | `observe`, `fresh`, `revoke`, `verdict` | backend probe and epoch, dispatcher | lock held over an await, clones used after the entry is replaced | a command is submitted only on evidence that is valid, unexpired and of this connection |
| package paging (`runtime/packages.rs`, `core/packages.rs`) | one snapshot slot behind a `try_lock` lease | `lease`, `page`, `preserve`, drop | backend capture and epoch, entropy, dispatcher | the lease spans two awaits and the finish record | a page comes from the live snapshot its cursor names; the pages cover it |
| record store (`adapters/backups/store.rs`, `host-platform/ciphertext`) | a file, a handle's `uncertain` and `failed` flags | `open`, `publish`, `reconcile`, `authenticated_bytes` | file lock, append, sync | crash and power failure between the parts of a record | Durable is durable; nothing is written behind damage; NotPublished is true |
| archive sealing (`runtime/sealing`) | counters, first error, guard | `seal`, and the streams it hands to the cipher | source, checker, cipher, stage | ports that fail, lie, panic or are late | success is complete; nothing unvalidated is encrypted; cleanup never removes what was published |
| SSH session (`backend-ssh`) | failure latch, authenticated flag, socket, handle | `run`, `capture_archive`, `epoch`, drop | key source, russh driver, peer | timeouts and drops with a command in flight, driver that stops at any moment | one failure is final and closes the socket; the epoch is of a live connection |
| backup workflow and worker (`adapters/backups`) | a process-wide slot | `spawn`, `cancel`, `join`, drop | sealing, store | cancellation, drop and panic at any point; a record of an earlier process | the slot is held while a thread runs and always comes back; the verdict is exact |
| audit log (`host-platform/linux.rs`, `adapters/audit.rs`) | the open log, its size | `record`, rotation | dispatcher | a failure or a crash between renames | records are kept in order, at most the oldest are lost |
| local backend (`adapters/backend.rs`) | a child process and two pipes | `execute`, `probe`, captures | dispatcher | full pipes, descendants, timeout | bounded output, child reaped |
| MCP transport (`mcp`) | session phase, frame buffer | read a frame, dispatch, answer | dispatcher | cancellation, oversize frames | no call before initialisation; one answer per request |
| archive validator (`device-codec/archive`, `device-codec/gzip`) | tar and gzip stream states | `feed`, `finish` | sealing, backup workflow | chunk boundaries, limits, what may follow the end | the verdict depends on the bytes only, and is that of the format |
| key protection (`runtime/protection`, `key-sources`, `crypto-age`) | the counters of the two bounded streams | encrypt, decrypt to staging | backup workflow, SSH | limits, a stream whose end is bad | limits are never exceeded; nothing is parsed before the stream has ended well |
| policy and operations (`core/operation`, `catalog`, `policy`, `capability`, `uci`) | the catalog | install, authorize, prepare, schema, evaluate | dispatcher, MCP, codecs | the same condition is checked in several places | what one stage admits the next carries out; nothing runs that was not granted |
| projection (`core/projection`) | a budget | validate, project, select | dispatcher | nested records, costs charged before copying | the cost is the size of the result; a selected row is a view of the whole |
| device codecs (`device-codec/command`, `describe`, `response`) | none | compile, encode for the remote shell, parse | local backend, SSH | quoting, limits | the remote shell sees the same words |
| feature catalog (`features`) | none | 9 categories of definitions | catalog, probe list, projection | three crates must agree about each definition | every operation can be called, and can succeed |
| management effects (`core`) | none | a pure analysis | nobody yet | | |
| audit writer, platform files, server, xtask | configuration | | | | |

The server runs one current-thread tokio runtime; concurrency is the interleaving of
futures at their awaits, plus blocking workers and the SSH driver task. The models let
any two futures interleave at every await, and nowhere else.

## Modules

Each component is one module; its `MC` module extends it with the symmetry sets or the
inputs the configuration uses, and its `.cfg` gives the constants. `TypeOK`, where a
module has it, says what its variables hold.

### Dispatcher

A request is a control point `pc[r]` that walks through `invoke` or
`capability_status`: arrival and its checks, `admit`, the audit of the start record,
the work, `enforce_deadline`, the audit of the finish record. `record_audit` is one
sub-machine shared by the three phases (`CheckLatch`, `TakeWaiter`, `AcquireGate`,
`WorkerReturns`, `Resume`, `AuditTimeout`). A worker is an element of `workers` that
owns the gate and lives on when its future is dropped; `audit_log` is the sequence of
records of each request that reached the sink, so that a record written twice shows. `Cancel` is a future dropped by its client at any await. The policy and argument
checks are one nondeterministic verdict (`Refusals`); the backend returns any result,
or none.

### CapabilityCache

Observations have identities, so that the clones a request holds and the map's copy
share one `valid` flag as the `Arc<AtomicBool>` does. `Observe` takes the lock, drops
and revokes what is stale, and either serves a clone or removes the entry and starts a
probe with the lock held. `Tick` ages observations, `EpochChange` replaces or loses the
connection. Ages stop at the time-to-live, which is the only value they are compared
with.

### Packages

The slot, the lease (`lock`) and a request's progress through `page`. Snapshots are
numbered by the nonce, cursors are any pair of nonce and offset, issued or not.
`PageAt` and `Parses` are the two pure functions of the core crate; `Chain` is the
least set of offsets that holds the first and, with each, the one its page leads to.

### RecordStore and RecordLog

The file is a sequence of cells, `Parts` to a record (header, ciphertext, tag), and
`synced` the prefix a power failure leaves. `Open` takes the lock and scans;
`Publish` is the part of the function up to the first append, `AppendPart`,
`AppendEnds`, `Finalize` the rest; `Reconcile` scans and synchronises. `Gone` is a
handle dropped or its process killed at any point, `PowerFailure` loses any part of
the unsynchronised suffix. `RecordLog` is what the store promises: a log of records in which one record
is begun and committed at a time, a damaged tail is never extended, and what was
acknowledged stays. `Promise` states that RecordStore implements it under the mapping
given there.

### PrivateLog

The generations of the audit log as a directory of files, each a sequence of whole and
torn records, and the steps of `write` and `rotate` between which the process can end.
`begun` and `acked` count rotations and remember how many had begun when a record was
acknowledged, so that `Retention` can say how long it must stay. The properties speak
of the generations one by one (`Recs`, `Keeps`), never of one long log.

### Sealing

A run of `seal`: the cipher is a process that may call `Read` and `Write` in any order
and with any sizes and then return; each port call returns any result its trait
permits, panics, or is late (`slow`). The guard's flags are the code's. Lateness is
one flag (`late`): a clock that runs backwards fails through the same path.

### SshSession

The control block, the state behind the `try_lock`, and a call's steps through
`connect` and `execute` or `capture_archive`. The peer's messages are arbitrary. The
driver's end is two steps (the handler is dropped, the handle closes), more
interleavings than one runtime thread allows.

### Projection, Operations, DeviceCodec and ReadPath

Three modules of operators and one of actions that follow a call through them. The
code is pure but repeats itself: an argument is checked by the schema a client is
shown, by `prepare`, by the requirement of the operation, by the command compiler and
by the remote encoder. `ReadPath` takes one call through `Load` of a configuration,
listing, `call_tool`, authorisation, preparation, probe, verdict, command, answer and
projection, with the first failure of each, so that the stages can be compared.

Data are abstracted to what the code asks about them. A text is
`<<tag, id, bytes, escapes>>`: the tag is the outcome of the byte tests (a NUL, a
canonical decimal, a parameter reference, a cursor, else), followed by an identity, a
length and what JSON escaping adds. JSON values are tagged tuples, objects sequences
of pairs in key order, pointers sequences of segments. Only `DeviceCodec` spells texts
out, since its quoting is about one character. The predicates on characters
(`identifier`, `ubus_identifier`, `response_identifier`, a clean program path,
`sensitive_key`) are constants: the sets of texts they refuse or recognise.

The evaluator of a projection threads a budget through every call. In `Projection` it
yields the sequence of its charges and failures in the order of the code, together
with the value it would build, and `Run` spends them up to the first that fails. The
size of the encoding is defined separately, so that `BudgetIsExact` compares the two.
Unfiltered results go through `Redacted`, which measures a key before it asks whether
the key is sensitive, as `redact` does; that is the one exception `BudgetIsExact` has.

### Features

The operations of the nine categories as data: action, requirement, parameters,
projection. `Sample` and `Description` build, from a definition alone, an answer and a
description of a device that behaves as declared; `ReadPath` then runs the call at the
limits of the code. Integer ranges that TLC cannot count (`i32`, `u32`, the safe
integers) are scaled down, in the same order. Every shipped definition has a
description and serialises within its limit, so those two fields are constants here;
`MCReadPath` has definitions where they are not.

### Archive

The tar and the gzip validator as stream machines: a state, `feed` of a chunk and
`finish`. A byte is a tagged tuple; the first byte of a tar header carries what the
header says, a byte of compressed data the bytes it inflates to. The decoder of
flate2 is external. A loop of the code is a turn (`ConsumeTurn`, `DecodeTurn`) taken
as often as the input and the limits allow (`Loop`); a turn with nothing left to do
changes nothing. `WellFormedTar` and `WellFormedGzip` describe the whole file, with no
chunks, and are what the verdict is compared with.

### Backup

`Claim`, `Start`, `Cancel`, `Join`, `Drop`, `Joined`, `Free` are `BackupWorker`, its
slot and its owner; `Expire` ends the time of the budget. The thread opens the store
(`OpenStore`) and runs a plan: `restore_inspect` alone, or `seal_capture` followed by
it, as the closure of the composition test
`server/tests/ciphertext_composition/remote.rs` does. The sealer feeds the validator
what the cipher reads, in chunks of any size up to its own; the inspection feeds the
largest chunk the validator takes. A record an earlier process left may be whole, cut,
too long or with an unsound end: the tag of the store covers the ciphertext and says
nothing of the plaintext (`ciphertext_composition/faults.rs`). It may also be `Torn`,
and then the store cannot be opened. The steps inside the store and the sealer, whose
failures are the subject of `RecordStore` and `Sealing`, are few here: a scan, a first
append and the rest of a record (`SealAppends`, `SealWrites`), its sync. An append that
fails leaves nothing, a torn or a whole record; a budget spent, or a panic, between two
appends leaves a torn one. `Panic` may end the thread inside any step of the work. The
limits of 65,536 bytes to one write of the stage and of `SealLimits` are left out: the
sealer cuts its writes to that size, and no capture comes near the others.

## Runs

| Run | Instance | Shows |
|---|---|---|
| `dispatcher` | 3 requests, 1 permit, 2 waiters | the safety of the dispatcher but `OneVerdict`: three requests are enough for a worker left behind, one holding the permit and one being rejected, and to saturate the waiters |
| `dispatcher_live` | 2 requests, 2 permits | `Answered`, and `OneVerdict`: with two permits a page can find the package slot taken by another one, after its start was recorded |
| `capability_cache` | 2 tasks, 1 object, time-to-live 2, 2 connections, 2 observations | `VerdictIsSound`, `CopiesAreCached` (with one probe at a time): a holder and a refresher; entries of different objects share only the lock |
| `capability_live` | 2 tasks | `Served` |
| `packages` | 2 clients, 2 operations, pages of 2, up to 5 records, 2 nonces, 2 connections | paging; 0 to 5 records give the empty, exact, short-last and three-page snapshots |
| `record_store` | 2 processes, 3 jobs, 2 forms, room for 2 records | the store and its refinement; a third job meets a full store, two forms of a job conflict |
| `private_log` | 6 records of 1 to 3 bytes, files of 2, 3 generations | every cut of a rotation, then enough rotations to lose a record |
| `sealing` | sources of 0 to 4 bytes, limits of 3, chunk of 2 | below, at and above both limits |
| `ssh_session` | 2 calls, output limit 1 | the session |
| `read_path` | definitions, policies, inputs, descriptions and answers of which each is right or wrong in one way; texts of 0 to 4 bytes, limits of 2 to 48 | `StagesAgree`, `RemoteIsLiteral`, `OnlyGranted`, `BudgetIsExact`, `SelectionIsAView`; every limit is small enough to be reached and passed |
| `feature_catalog` | every operation alone, with its grant and with all the others, and all together, at the limits of the code | `NoDeadOperation` |
| `backup` | 2 owners, 28 captures, blocks of 2 bytes, chunks of 2 in the sealer, 3 in the validator and 4 in the cipher; no record, a whole one, a torn one, one a byte short or long, an unsound one | `VerdictIsExact`, `ReportIsTrue`, `SlotIsHeld`, `SlotReturns`; the chunks cut blocks, headers and trailers at every place, and the captures meet each limit of the validators and of the cipher from both sides |

No configuration lists a type invariant: the proofs have it in their inductive
invariants, and adding a module's `TypeOK` to `INVARIANTS` checks it.

Every bound is a constant of the configuration: `MaxEpoch`, `MaxObs`, `MaxNonce`,
`MaxRecords`, `MaxSource`, `MaxId`. Counters appear only in guards of the environment's actions
or of actions that create a new identity; no behaviour of the code depends on them
except `MaxRecords`, which is the code's own limit made small.
Deadlock checking is on in every run.

### Fairness

`Answered`, `Served`, `LeaseReturns` and `Released` assume that a future that can
continue is polled, that time passes for a pending deadline (`Expire`), and that an
elapsed timer is polled (`Timer`, `AuditTimeout`): the tokio scheduler gives these.
No fairness is assumed of a backend, a sink, a worker, an entropy source, the SSH peer
or the key source: they may hang for ever. `Served` also needs a waiter for the cache
lock to be served when the lock is free again and again: tokio's mutex is first come,
first served; a request that does not get it in time is ended by its own deadline.

`SlotReturns` assumes that `spawn` goes on after it has taken the slot, that the calls
the thread makes return (they are file and memory operations), and that a
`BackupWorker` is joined or dropped in the end, as every value that leaves its scope
is. Nothing is assumed about `Cancel` or `Expire`.

## Proofs

Eight modules prove the safety of eight components. Each has an inductive invariant
`IInv`, checked with TLC on the instance of the run before it was proved, one lemma or
step for each action, `InvariantHolds == Spec => []IInv`, and a theorem for each
property. The theorems hold for every value of the constants that satisfies the
assumptions of the module; none bounds the number of requests, tasks, processes,
records, connections or bytes.

| Module | Theorems about | Assumptions on the constants |
|---|---|---|
| `DispatcherProofs` | `WorkIsAudited`, `AnswerIsAudited`, `OneVerdict`, `LateIsNoSuccess`, `Conserved`, `LatchIsFinal` | finitely many requests, `MaxConcurrent` above zero, refusals that are no other answers |
| `CapabilityCacheProofs` | `CopiesAreCached`, `VerdictIsSound` | a time-to-live above zero |
| `PackagesProofs` | `RestingSlot`, `PageIsCurrent`, `ChainIsComplete` | a page size and a time-to-live above zero |
| `RecordStoreProofs` | `DurableStays`, `NoAppendPastDamage`, `NotPublishedIsTrue`, `Promise` | at least two parts to a record, room for one |
| `SealingProofs` | `SuccessIsComplete`, `ValidatedFirst`, `NothingLeftBehind`, `CleanupIsSafe`, `FirstErrorIsFinal` | limits and a chunk above zero |
| `SshSessionProofs` | `IdleEpochIsLive`, `FailureIsFinal`, `SuccessIsComplete` | a natural output limit |
| `PrivateLogProofs` | `InOrder`, `Retention`, `Bounded` | a size and a number of generations above zero, records that are not empty |
| `BackupProofs` | `ReportIsTrue`, `SlotIsHeld`, `VerdictIsExact` for tar captures, and the tar validator by itself | buffers, a block and a number of files above zero, natural limits, a file no larger than a payload, a cipher chunk no larger than the validator's; captures of finitely many bytes, and a tar capture that is its own plain text |

Beside these every module assumes that `None`, and `Torn` in the two stores, are not among
the values they stand apart from: they are the absence that Rust's `Option` and the
scan of the store express by a type.

### Dispatcher

None of the properties is inductive. The invariant adds what ties a control point to
the trail:

* `EventInv`: the event pending at an audit step agrees with the request's result and
  deadline;
* `Trail`: which records, written or still in a worker's hands, a request can have at
  each control point: none before its first audit, only the start record before it
  finishes;
* `WorkerInv`: a worker's record is the one its waiting future expects, or its future
  has ended; a reply `ok` means that the record was written;
* `Audited`: device work and its completion come after a written start record, and a
  request that has not begun has touched nothing;
* `LogInv`: a request's log is empty, one rejection, one start, or a start and a finish
  (`Orderly`), and a record in a worker's hands is one that may come next (`Due`);
* `Verdicts`: the one-verdict and no-late-success rules for the records still in
  workers' hands as well, which is what makes them inductive;
* `AnswerInv`: only ended requests have answers, and one told that it was not started
  has no finish record on its way.

The proof that a step keeps the invariant goes action by action; the actions of the
audit sub-machine carry the weight, since a worker's write changes the trail of a
request that may be anywhere, or gone. `Conserved` has an invariant of its own
(`Accounts`), as it counts: every step moves one request between the sets `Holders`
and `Waiting` or leaves them, and the cardinalities follow (`Balance`, `Settles`).

### CapabilityCache

A verdict looks at one flag, one epoch and one age. That these are enough is the
invariant: a valid observation is the entry of its object (`EntryInv`), what must not
be relied on has lost its flag or its connection (`SpoiledInv`), and while an object is
probed it has no entry, which is the lock's part (`LockInv`).

### Packages

The lease makes the slot one request's at a time (`LeaseInv`), so a page in hand is a
slice of the snapshot in the slot (`ResultInv`), which is the latest capture
(`SlotInv`). `ChainIsComplete` is about the pure function `PageAt`: the offsets of a
chain are the multiples of the page size below the count. That the chain leaves no
multiple out is an induction; it is made with the least offset left out, which exists
by the well-foundedness of the naturals, since the library's induction principles
cannot be instantiated by the provers.

### RecordStore and RecordLog

Only the process with the file's lock has anything to keep. While it appends, the file
is a readable prefix without its job and the parts written so far (`Appending`), with
room for the rest; after a definite `NotPublished` the file is as long as the prefix.
Everything else is arithmetic of cells and records (`Division`, `CellInside`). With
this invariant every step maps to a step of `RecordLog` or a stutter
(`StoreImplementsLog`): an append that begins, goes on or is cut off, a record that
becomes whole, a synchronisation, a power failure.

### Sealing

While no error has occurred every byte is accounted for: what was read, fed to the
checker and passed to the cipher are the same count (`StreamInv`); past the cipher
there was no error and the source is at its end (`PhaseInv`); the guard's flags say
what became of producer and stage, except for a publication whose answer never came
(`GuardInv`).

### SshSession

The invariant is what the session looks like at each await of the one call inside it
(`AwaitInv`), with `LockInv` (a failed session has nobody inside) and `SocketInv` (the
identity is spent by the first dial, and the socket of a failure is shut).

### PrivateLog

`PhaseInv` says how far a rotation has come: the name a rename goes to is free. `AgeInv`
makes `Retention` inductive: at least `i` rotations have begun since a record in
generation `i` was acknowledged, and one more if the rotation in progress has still to
move it. `NewestInv`
does the same for `InOrder`: the record being written is newer than all in the files.

### Backup

What a thread knows of the record at each of its steps (`Knows`): up to the append the
store is as the thread found it, after the last one the record is whole; an inspection that
reaches the comparison has decrypted exactly the record's length from a sound stream,
so one that goes on to the validator reads the whole record. The validators are not
looked into, so these two theorems hold whatever they answer. `SlotInv` adds to
`SlotIsHeld` that one owner at most stands for the slot.

`TarValidatorIsExact` is about the validator alone: fed a stream of any length in any
chunks up to its limit, empty ones included, it accepts if and only if the stream is a
whole archive of its file (`WellFormedTar`), and then counts it exactly. The argument:

1. `Placed(v, b, m, n)` says where a validator that has not failed is after the first `n`
   bytes of `b`: in the header, in a stream of zeros without an entry, in the body, the
   padding, the next header or the tail, each with what the bytes before it must be. It
   mentions no chunk; that is why the verdict depends on none.
2. A turn of the loop (`ConsumeTurn`) takes a byte at least and leads from one such place to
   another, or fails, and it fails only if the stream is no whole archive (`Turned`; one
   lemma for each stage).
3. The loop takes all of its input or fails: the place after each turn by the least turn at
   which it would be wrong (`Least`, from the library's well-foundedness of the naturals),
   since induction with an operator parameter is out of the prover's reach. The same over
   the chunks gives the place after a whole stream.
4. At the end of the stream `finish` accepts exactly the place that `WellFormedTar`
   describes, whose fold over the files is computed for the one file a capture has.

`TarVerdict` is `VerdictIsExact` for every tar capture. Its inductive invariant is `IInv`
with `VInv`, checked with TLC on the instance of the run first: a sealing validator is
placed after the bytes it was fed, the staging has the bytes the cipher put out, what was
sealed was sealable, and a thread that has ended its work has its verdict (`Judged`).
Both directions are in it: a seal that fails without a fault and in time fails because
the capture is not sealable or the store was not readable and empty of it
(`SealFailed`), so the publication is `Durable` exactly if both hold (`Published`).

The assumptions come from constants of the code: `MAX_CHUNK_BYTES` is eight times the buffer
from which the cipher's copy feeds the validator, and `MAX_FILE_BYTES` is at most
`MAX_PAYLOAD_BYTES`, which makes a manifest of one acceptable file acceptable.

### Only model-checked

* All liveness (`Answered`, `Served`, `LeaseReturns`, `Released`, `SlotReturns`): the
  prover treats neither fairness nor `ENABLED`.
* `VerdictIsExact` of `Backup` for gzip captures. The tar validator inside is covered; the
  header automaton, the decoder with its pending output and the loop around them would
  need the same argument three times more, over an encoding that is itself computed.
* `ReadPath` and `Features`, with `Projection`, `Operations` and `DeviceCodec`: nested
  values are described by recursive operators, which the prover does not reach.

## What the checks showed

No property that a comment, a document or a test of the repository states was found
violated. Some behaviours are worth knowing:

* A page whose snapshot expires or loses its connection while its finish record is
  written is recorded as a success and answered as `InvalidCursor`
  (`dispatcher.rs:143`). `AnswerOK` names this exception.
* Rejections take audit waiters too. With `max_concurrent + 1` of them waiting, a
  finished operation can end in `CompletionAuditFailed` though the sink is healthy;
  the latch is not set then.
* `publish` answers `NotPublished` for a record that is already there, that is, this
  call published nothing; a different binding for a known job makes the handle
  uncertain. A torn tail makes the store unreadable until an operator repairs it.
* A process that ends during a rotation leaves a gap, and the following rotations then
  keep fewer records than three full generations; every record still outlives three
  rotations. A record cut off by a failed write stays in the file, and the next process
  appends to the same line.
* `authenticated_bytes` can return a complete record that was not synchronised yet.
* `execute` accepts a channel closed without an end-of-file; `capture_archive`
  does not.
* An observation probed over a connection whose epoch was unknown at the start is
  taken as evidence of the epoch at the end; a backend that reconnected twice inside
  one probe could mislabel it. No backend of the repository reconnects.
* The limits of the cipher are on its input and its output, so a capture whose
  ciphertext is longer than `max_input_bytes` can be sealed and not inspected with the
  same limits. `VerdictIsExact` names the two conditions (`Sealable`, `Inspectable`).
* A budget that is spent when the work of a backup has ended replaces its result, so
  `Cancelled` or `Deadline` may be answered though the record is durable.
* A sensitive key longer than `MAX_NORMALIZED_BYTES` makes `redact` answer `OutputLimit`
  before the key is dropped (`legacy.rs:17`), so a result that would be small is refused.
  It takes a `max_output_bytes` above the default of 65,536 for such a key to arrive.
  `BudgetIsExact` names the exception (`OverlongKey`).
* An append of a backup that fails or is cut off within the record leaves a store that
  cannot be opened: every later seal or inspection ends in `Integrity`.
* An operation that runs a process has an unverified requirement, and the verdict on
  it is `CapabilityUnknown`: such a definition can be installed, listed and granted, and
  never reaches the device.

## Not modelled

* The child process of the local backend (two pipes, kill, reap): in `ReadPath` it
  fails, is late or returns its output. After a timeout the child is killed and waited
  for outside the deadline; no property covers this yet.
* The framing of lines in the MCP transport, and the session protocol, which is the
  `rmcp` library.
* The parsers of package listings: their difficulty is in characters that a model
  abstracts.
* Key sources, which read a file once; cryptography, taken to be exact.
* Management effects, a pure analysis that no part of the server calls yet.
* The audit writer's choice of a destination, platform calls with the checks of their
  results, the server's configuration, and the development checks of xtask: they have
  no behaviour over time but the private log's.
* The store assumes that a successful `sync_all` covers the bytes then in the file.

The components of `PROJECT.json` say this for each part.

## Plan

What is left, in the order of its worth:

1. Model: the local backend's child process (`LocalBackend`) and the framing of lines
   are what is left with behaviour of its own.
2. Prove: the gzip half of `VerdictIsExact`, beginning with a place of the header automaton
   (a `Placed` of its own) and that the concatenation of what `decompress` hands out is
   the plain text; then manifests of several files in the tar validator.
3. Prove: the properties of `ReadPath` that need no recursion over values, among them that
   nothing runs beyond what was granted, once `Projection` and `DeviceCodec` describe
   nested values without recursive operators.
