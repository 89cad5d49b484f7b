# Accelerator-Health: a TLA+ model of the health store, its processes and its validations

This directory holds TLA+ specifications of Accelerator-Health, TLC
configurations that check them on small instances, and TLAPS proofs of the main
safety properties for every value of the constants. `PROJECT.json` lists the
components, runs, findings, hazards, theorems and, under `map`, the source lines
that each definition stands for.

    tlc -workers 2 -config lifecycle.cfg MCHealthStore
    tlapm HealthStoreProofs.tla

## The system

| Component | State | Operations | Talks to |
|---|---|---|---|
| State machine (`StateMachine.cpp/.hpp`) | a health state, a transition counter | `transitionTo`, `canTransition` | the store |
| Assessment engine (`Assessment.cpp`) | none | `assess`: which health state the evidence calls for | readiness, freshness, fault statistics |
| Readiness and freshness evaluators | none | `evaluate` | |
| Fault history (`History.cpp`) | append-only faults of a device | `record`, `stats`, `resolve`, queries | the store |
| Health store (`Store.cpp`) | devices, policy and its generation, worker registry, observation fences, epoch, indexes; one reader/writer lock | 16 operations that change state, 17 queries | everything |
| Persistence (`Persistence.cpp`) | a file and its `.tmp` | encode, save, decode, load | the store, without its lock |
| Coordinator (`ah-coordinator.cpp`) | one detached thread per connection with `worker`, `boot`, `haveWorker` | REGISTER, OBSERVATION, VALIDATION_RESULT, FAULT_REPORT, SNAPSHOT_REQUEST, disconnect | the store and persistence |
| Worker (`ah-worker.cpp`) | none that survives | connects, registers, reports, waits for each acknowledgement | the coordinator, a backend |
| Wire, protocol, sockets (`Wire.hpp`, `Protocol.cpp`, `Net.cpp`) | a reader's position and error state, bytes on their way | write and read of bodies, `encodeFrame`, `decodeFrame`, `sendFrame`, `recvFrame` | coordinator, worker |
| Backends (`CudaBackend.cpp`, `FakeBackend.cpp`) | the current GPU, memory on it, test knobs | `runValidation`, probes | worker, `ahc` |
| Command line tool (`ahc.cpp`) | a private store | one operation per command | the store, persistence, a backend |

What is hard in this code:

* **Several things decide about one device.** A quarantine record, the
  `inRecovery` flag, the health state, the readiness and the flags are changed by
  different calls; each call ends in a reassessment that may undo what the call
  just did.
* **Not everything is one critical section.** `setPolicy` releases the lock
  between installing a policy and applying it; REGISTER is several calls; saving
  takes no lock at all.
* **Messages are late, repeated and from the wrong process.** Observations are
  fenced by epoch, boot id and generations; the other reports are not.
* **A reply is all a worker knows.** It waits for one without a timeout, over a
  stream that cuts frames anywhere, damages them or ends.
* **Eleven steps, each of which can fail.** A validation allocates on a shared GPU
  and judges by what it measures there before and after.
* **Processes die.** A worker's evidence has to lose its authority, a save may stop
  anywhere, and a restarted coordinator must not take restored evidence for live.

What makes each component correct: no chain of transitions bypasses recovery; a
device is put or left in service only on evidence, history and validation that
stand at that moment; a quarantine and a fatal fault hold against everything else; thresholds bind in
any order of events; fences never move back; a file is always whole and loads
into what was saved; a worker's evidence dies with the worker; what a worker is
told is what happened, once; a frame is delivered as it was sent or not at all;
a passed validation rests on no call that failed and leaves nothing behind.

## Modules

| Module | Stands for | Extends |
|---|---|---|
| `Transitions` | the states and the table of legal transitions | |
| `StateMachine` | the class of that name, with its theorem | `Transitions` |
| `Assessment` | freshness, fault statistics, the target state, readiness, as operators on a device record | `Transitions` |
| `HealthStore` | the store: one action per operation | `Assessment` |
| `DeviceLifecycle` | the abstract promise to a scheduler about one device | |
| `Persistence` | saving, dying, loading; composes the store with a disk | `HealthStore` |
| `Coordinator` | connection threads and worker processes; composes them with the store | `HealthStore` |
| `FaultHistory` | the class of that name: its loops, `resolve` and `read` | `Assessment` |
| `StoreQueries` | the store's queries and accounting | `HealthStore`, `FaultHistory` |
| `Session` | runs of `ah-worker`, mode by mode, against the coordinator's threads; implements `Coordinator` | `HealthStore` |
| `Wire` | `Writer` and `Reader`, as operators | |
| `Channel` | the abstract promise of framing | |
| `Protocol` | frames over a TCP stream, one direction; implements `Channel` | `Wire` |
| `Validation` | `runValidation` of both backends | |
| `HealthStoreProofs` | every operation of the store as a `StoreStep`; the invariants of its states | `HealthStore` |
| `DeviceStepProofs` | verdicts, indexes, queries, action properties, the refinement of `DeviceLifecycle` | `HealthStoreProofs`, `StoreQueries` |
| `CoordinatorProofs`, `PersistenceProofs`, `SessionProofs`, `ValidationProofs`, `ProtocolProofs` | theorems about the module in the name | that module; `SessionProofs` and the first two also the proofs of the store |
| `MCHealthStore`, `MCPersistence`, `MCCoordinator`, `MCSession`, `MCProtocol` | constant values for TLC | |

### HealthStore

`devices` maps an accelerator id to a record whose fields keep the names of
`HealthStore::Device`. Every operation runs under the exclusive lock and is one
action, the closing `reassessLocked` included. `setPolicy` is two actions,
`SetPolicy` and `FinishSetPolicy`, with `pendingReassess` counting the calls in
between. A call that returns early or throws before it has changed anything is no
step; `beginQuarantine` on a lost device, which throws after it has written the
record, is a step that leaves the record.

Abstractions, all of data that no decision reads:

* An assessment is reduced to readiness and the policy generation it was made
  under. Reasons, confidence, action hint, ids and digest are left out.
* The change log, transition count and health generation advance together. The
  model keeps the states entered by the latest operation (`trail`).
* `present` equals "the state is not LOST" and `readinessIndex_` equals the
  readiness; both are left out. `stateIndexed`, `staleIndexed` and
  `quarantineIndexed` are what the other indexes say of a device.
* A dimension is ABSENT, NOMINAL, FAILED or FATAL (failed with severity FATAL). A
  DEGRADED dimension only adds a reason text and counts as NOMINAL.
* The validation ledger is the set of its ids and whether one recurs; the recovery
  record is its count of successes.
* `recentEvidence`, `node`, `firstSeen`, `globalFaults_`, `globalChanges_` and
  `faultIndex_` influence nothing.
* An observation names the same worker and boot id as its envelope, as
  `ah-worker` builds it.

### Persistence

A saver goes through `EncodeHeader`, for each device `EncodeFront` and
`EncodeBack` (what is written before and after the change log), `OpenTmp`,
`WriteTmp`, `Rename`; the failures are actions of their own. Other threads call the
store, or begin to save, between any two of these: the code takes no lock. `Racing` names the
places where a run lets them, so that a run may leave out those where the store is not
read. A device may so be written down half before a call and half after it. `mixedStore`, a
history variable, marks the stores that descend from such a file. `Restart` kills the process
anywhere and starts another, with or without `--load`. The disk keeps what was
written: process death, not power failure. The frame checks (size, magic,
version, CRC) reject exactly `Garbage`; `Rejected` and the device count are the checks
behind them that an image can fail. A file refused half way stays half loaded, as
in the code. `loaded` is a history variable.

### Coordinator

A connection's thread is `free`, `idle` (waiting for a frame), in `devices` (inside
REGISTER, after the worker has been registered) or `closing` (out of its loop).
Worker processes are the environment: each connection belongs to one worker and
boot id, reports only after registering and with an envelope that names the two (a client that
sends another's, or registers twice under different ids, is narrower than what the code takes), may repeat anything and may vanish
whenever its thread waits. Rejected observations are answered and change nothing.

### Session

`Coordinator` lets its clients report anything under their own worker and boot id;
`Session` has the programs that exist. A process (`proc`) is started with a command line, sends REGISTER and then
the plan of its mode, one request at a time, and keeps what it was told in
`results`. Its thread takes a request, calls the store and answers; REGISTER is
three steps (`HandleRegister`, `RegisterItsDevice`, `FinishRegister`), as in the
code. A process may be killed at any point, with or without what it has just
sent; a frame may be damaged in either direction, in its length or elsewhere; a snapshot may be too large for
a frame, and then ends the thread by an exception, as a fault reported twice does.
Two modes stand for other clients of the protocol: `report` sends a fault and
retries it, `skewed` sends a body that does not decode, which the coordinator drops
without an answer. `took`, `ledger` and `astray` are history variables.

`recvFrame` uses a length before it has checked anything. A frame with a damaged length
(`MISCOUNTED`) is so read too short or too long: the reader takes any number of the frames
behind it, the last perhaps in part, and what remains of one (`Debris`) is again read at a
wrong length (`Left`); or it waits for bytes that never come (`ProgramHangs`, `ThreadHangs`). A
worker reads on after an error and never compares types, so it can then take the
acknowledgement of its first observation for that of its second. A thread leaves its loop.

### Wire, Protocol and Channel

`Wire` has bytes of base `Base`, little-endian numbers and length-prefixed strings. A
reader's failure stays, though a later and shorter read may succeed. `Protocol` is
one direction of a connection: `sendFrame` fills `outbox`, each `send()` moves a cell into
a stream of bounded capacity, each `recv()` takes one out. A cell is the magic
number with the version, the header's type and length, a byte of payload, or the
checksum, which is what it was computed over. Damage replaces a cell by noise, or a
header by one with another type or length. The two readers differ: the
coordinator's leaves after an error, the worker's may call `recvFrame` again
(`persists`) and then reads on from wherever it is. `Channel` is the promise: what is
delivered was sent, in order, without gaps up to the first error.

### Validation

One action per call of the CUDA runtime (external), with its failure as the other
disjunct. `current` is the GPU of the thread, `held` and `others` the memory on each GPU; other
tenants allocate and release at any time. The kernel leaves the right numbers, wrong
ones or NaN. `FakeResult` is the verdict, depth and steps of the scripted backend, with which
`UndisturbedMatchesFake` compares the CUDA one under each setting of the knobs, a forced mismatch
above and within the limit of 1e-6 included. The knob of `FakeBackend` that cuts the
list of steps short is left out, and so is host memory: when one of the two host buffers is
refused the other is never freed (`CudaBackend.cpp:136`).

### FaultHistory and StoreQueries

Operators, evaluated in every state of a store run. `HistoryAnswers` resolves every subset of
a reachable history and compares the loops with the definitions `Assessment` uses;
`QueriesAgree` compares answers that come from different indexes.

### DeviceLifecycle and the refinement

Seven phases of a device, whether it serves, whether it is held, whether it is
condemned. A device gets worse by itself, better only by a recovery; a held or a
condemned one does not come back into service. `ImplementsLifecycle` maps each id
of the store to such a device (health states to phases, execution-ready readiness
to serving) and states that every store step is a step of it or leaves it alone.

## Runs that pass

All runs but `validation` say `CHECK_DEADLOCK FALSE`: a library nobody calls, a
coordinator nobody writes to and a connection that has ended may rest. Of a
validation deadlock is checked: no sequence of failures leaves it stuck.

| Run | Checks |
|---|---|
| `statemachine` | `NoBypass`, from each of the 13 states, chains of 8 transitions |
| `lifecycle` | type, recovery, quarantine, fatal faults, indexes, agreement of the queries; evidence in date when a call leaves a device ready (`ServiceInDate`), exits from quarantine, entries into HEALTHY, the trail, and the refinement of `DeviceLifecycle` |
| `hysteresis` | thresholds, serving is earned, no flapping, the loops over the history, under two policies and overlapping `setPolicy` calls; `PolicyTakesEffect` (liveness) |
| `persistence` | the file is whole at every instant, also when a save fails over an earlier one; faults, quarantine and recovery survive a save beside other calls, and a load; restored HEALTHY devices wait for a live worker |
| `coordinator` | no registration outlives its connections; serving needs a registered worker; a dead worker's evidence drops (liveness) |
| `session` | acknowledgements are true (or, on a stream put out of step, those of an earlier request), observations accepted once, fences never move back, every run ends that no damaged length or unreadable body leaves waiting (liveness), and the refinement of `Coordinator` |
| `protocol` | bodies are read back whole or not at all, undamaged frames arrive while both ends live, a dead peer is noticed (liveness), and the refinement of `Channel` |
| `validation` | a pass is earned, the buffer comes back, a leak is noticed, `FakeBackend` agrees but for one knob |

**Bounds.** One device suffices for the store runs, because its operations touch
one device or treat all alike, given uuids from 1 (see below for uuid 0). `hysteresis` has two
CRITICAL faults of one type, which cross the thresholds 1 and 2 of `Strict` and the
quarantine threshold 2 of `Swift`, and a WARNING of another type, which breaks the run. That the
thresholds bind for any run of faults is proved. Two device generations in `lifecycle` set the
flag that only an invalidation clears. Observations are numbered from 1, as the worker does;
the store would take a first one numbered 0. `MaxTime` 3 takes evidence through all four freshness classes. Two
successes are what `Strict` asks of a recovery. Two boots and two connections are
what a reconnection race needs; the `coordinator` run keeps to one boot per worker,
since with two `ServingHasRegisteredWorker` fails (`orphan_ready`); that
registrations do not outlive connections is proved for any number of incarnations.
Two savers are what a race for `path.tmp` needs. In `persistence` `MaxSaves` is 2, so that the
second save meets the file of the first, or the `path.tmp` it left, and fails or dies over it;
`MaxRestarts` 1 gives one full cycle of save, death and load. Calls of the store come between
the pieces of an image (`Racing <- Encoding`), the only places of a save where it is read;
while the image is on its way to the disk they commute with the save. `two_savers` has the
race at every point.

`session` has two processes: one of any mode of incarnation 1, beside it a retry of
incarnation 1 or a live run of incarnation 2, so that a repetition, a restart and
every stale mode meet. `MaxSnapshot` 1 makes a snapshot fit when the device is fresh and
overflow once it has a record; one damaged frame is enough to lose any one request or reply, or
to put a stream out of step for the rest of the run.
`protocol` has a stream of 3 cells, less than the smallest frame, so sender and reader
must alternate within one; three frames show a loss amid a sequence; `Base` 2 makes
every number of more than one byte carry. `validation` has two GPUs, a buffer of 2
above the tolerance of 1, and room for two buffers beside a tenant, so that a second
run meets what the first leaked; the number of runs is not bounded.

**Fairness.** `WF(FinishSetPolicy)`: the thread inside `setPolicy` goes on to its
second critical section; a lock held for bounded work cannot stop it. In `Coordinator`,
`WF(ThreadStep(c))` for each connection: a thread that does not wait for its peer (inside
REGISTER, or out of its loop) runs on. In `Session`, one weak fairness for all (`Scheduling`): as long
as some process or thread can go ahead, one does; no one in particular is promised the
processor, and a `recv()` that waits at a wrong length need not return. `CanGoAhead` is the
`ENABLED` of that step written out, which TLC found equal to it in every reachable state. In
`Protocol`, `WF` on `send()` and on `recv()`: a call that can return does.
Nobody is assumed to call, report, tick, disconnect, die or survive.

Each property has a mutant in `PROJECT.json`: a definition marked *Variant* in
its module, which makes a plausible mistake and violates the property.

## Runs that show a disagreement

Each checks one sentence of the documentation, a comment or a test that the code
does not keep; the findings in `PROJECT.json` quote it and name the lines.

| Run | What the code does |
|---|---|
| `failed_recovery` | a failed revalidation bounces QUARANTINED to RECOVERING within the call |
| `two_savers` | two saves share `path.tmp`; a truncated file replaces a good one |
| `restored_degraded` | a restored DEGRADED device is ready before any worker is heard |
| `orphan_ready` | a replaced incarnation's evidence outlives every process |

The models show further behaviours at odds with the documentation, which are not
kept as runs:

* The table declares UNKNOWN to HEALTHY legal (`StateMachine.cpp:22`); the README
  names INITIALIZING, OFFLINE and REVALIDATING as the only ways to HEALTHY.
  `NoBypass` holds all the same.
* A fatal fault leads to FAILED and opens no quarantine (`Assessment.cpp:93`);
  the policy's `fatalFaultTriggersQuarantine` is read nowhere.
* Quarantining a device that was READY when it was lost throws after the record
  is written (`Store.cpp:204`), and its readiness stays READY: the exception in
  `QuarantineGatesReadiness`.
* Between the two critical sections of `setPolicy` a device is READY by the old
  policy: the premise `pendingReassess = 0` of `NoStalePolicyAssessment`.
* A device registered with uuid 0 takes the next raw id, which may be another
  device's, and replaces it (`Store.cpp:94`). With 0 in `Uuids`,
  `FaultsAppendOnly` fails.
* A file refused half way leaves its policy, epoch and first devices in the store
  (`Persistence.cpp:148-159`): the last case of `Load`.
* The observation fences are not saved, so after a restart with `--load` an
  observation accepted before is accepted again.
* A save that runs beside `beginRecovery`, or `beginQuarantine`, writes a device down half before
  and half after the call; the file loads, into a state where `RecoveryDiscipline`, or
  `QuarantineHolds`, fails (`Store.cpp:556` takes no lock). This is the premise `~mixedStore`
  of `RecoverySurvives`, `QuarantineSurvives`, `LoadIsFaithful` and `RestoredNeedsRefresh`.
* VALIDATION_RESULT and FAULT_REPORT are not fenced (`ah-coordinator.cpp:119-144`), and
  an old incarnation that registers late takes its worker over (`Store.cpp:64`).
* Nothing reassesses a quiet store as the clock advances: a READY device stays
  READY on expired evidence until the next message or disconnection, though `src/README.md:122-123`
  says that "old healthy evidence does not remain authoritative forever". `ServiceInDate` is what remains: the next call that touches the
  device finds the evidence out of date.
* A lost device keeps readiness and indexes as they were until somebody reassesses it
  (`Store.cpp:123`): `IndexesAgree`, `QueriesAgree`, `QuarantineGatesReadiness`, `ServingIsEarned` and
  `ServiceInDate` all make an exception for it.
* The store accepts a repeated validation id (`Store.cpp:177`), the decoder does not
  (`Persistence.cpp:207`): afterwards neither the saved file nor a SNAPSHOT_RESPONSE can
  be read. `Rejected` and `HandleSnapshot` model it.
* `globalFaults_` is saved with nothing and stays empty after a load, while the devices
  have their faults again.
* REGISTER reads its device list without looking at the reader's error state
  (`ah-coordinator.cpp:87-100`): a list cut short registers devices of uuid 0.
* A damaged length makes a worker take the answer to one request for that to another: it never
  compares the type of an ACK nor knows which request it is for (`ah-worker.cpp:46-53`). In the mode
  `stale-obsgen` it then prints an acceptance for an observation the store refused. This is
  the second case of `AckIsTruth`.
* A mismatch of at most 1e-6 forced on the backends passes on the CUDA one
  (`CudaBackend.cpp:159-161`), which also forgets what it found itself, and fails on the fake
  (`FakeBackend.cpp:63`): the case `"slight"` of `UndisturbedMatchesFake`.
* A worker does not look at the answer to REGISTER and goes on whatever it is; a
  VALIDATION_RESULT or FAULT_REPORT for an unknown device is acknowledged as recorded
  (`HandleValidation`, `HandleFault`: `took` is what happened, and `AckIsTruth` holds because
  every program registers its device first).
* No call has a timeout: a client whose body does not decode waits for its answer for
  ever, and so does a reader whose header claims more than its living peer sends. Both are
  exceptions in `EveryRunEnds`, and the reason why `DeadPeerNoticed` asks for a dead peer.
* A `send()` to a peer that has closed raises SIGPIPE on POSIX (`Net.cpp:157`); nobody
  ignores it, so a client's exit may end the coordinator.
* The default leak tolerance is the size of the validation's own buffer and is
  compared with `>`, so the buffer itself may leak unnoticed: the run has a smaller one.
* The baseline of the leak check is measured before `cudaSetDevice`, on whichever GPU is
  current; a measurement that fails counts as 0; a NaN is no mismatch. These are the
  exceptions in `LeakNoticed` and the `"nan"` in `PassedIsEarned`.
* `ahc validate --cuda` compares the store's id with the backend's ordinal plus one
  (`ahc.cpp:179-187`), two numberings that need not meet.

## What is proved

For all values of the constants, under the named assumptions in the modules
(`ConstantsAssumption`, `MaxGenerationAssumption`, `ValidationAssumption`,
`SessionAssumption`, `WireAssumption`, `ProtocolAssumption`): types of the constants,
that the null worker and boot are nobody's, that GPU 1 is there; for sessions, that the
command lines lie within the sets the store is given, that devices have uuids from 1,
and that the boot ids the mode `stale-boot` makes up (its own plus 1000) are nobody's;
for the protocol, that the bytes of a length can hold `kMaxString`, that the types of
bodies are message types, and that the values of a body have the types of its fields
(`Fits`), as the C++ signatures of `Writer` ensure.

**State machine.** `NoBypassAlways`. `NoBypass` is not inductive; the proof uses
`UnearnedStates`: a machine that has not earned its state is still in one that
needs recovery, because the table leads from those only to each other or to a gate.

**The store, operation by operation** (`HealthStoreProofs`). The proofs about the
store share one description of a step. `Edited(d, x)` lists what an operation may
change of a device before its closing reassessment: unmoved, heard from a worker,
held, released, a recovery begun or advanced, faults appended. `DeviceStep(d, e)`
is an edit followed by `ReassessLocked`, or one of the three changes without it
(flagged by `setPolicy`, lost, quarantined when lost). `StoreStep` adds the
registration of a new id, the policy and the fences. Each operation is shown, once,
to be a `StoreStep`; everything else is proved from that.

* `TypeCorrect`, `RecoverySafe`, `QuarantineSafe`, `QuarantineGateSafe`, `FatalSafe`. None
  of the last four is inductive: recovery, quarantine, fatal faults and readiness
  constrain each other. The invariant is `StoreInv`: the types, and every device
  `Intact`, of its type and `Sound`, the conjunction of the four statements with the
  fact that the store never enters UNKNOWN, DRAINING, DRAINED or OFFLINE. The key
  lemma is about `ReassessLocked`: it makes any device sound whose recovery and
  quarantine parts are consistent, whatever its readiness was.
* `PolicySafe`. `NoStalePolicyAssessment` is inductive once types are known: a
  new policy makes a call pending, and whichever call finishes last reassesses
  under the policy then in force. With it `StoreInv` becomes `Inv`.

**What follows for a device** (`DeviceStepProofs`).

* `ServiceSafe`: a step that leaves a device ready is a registration, which leaves none ready, or
  a `DeviceStep` that ends in `ReassessLocked`, whose verdict is that of the evidence at that
  time (`AssessedInDate`). It speaks of the step, so of the invariants it uses only the types.
* `ServingSafe`, `ThresholdsSafe`. Readiness and state are verdicts of an earlier
  moment. `VerdictsStand` says of every device what its last assessment, if it was
  made under the policy in force, is still worth: a serving device is `Earned`, the
  thresholds are `Enforced`, and one listed as stale is out of date still, because
  evidence only ages.
* `QuarantineExitSafe`, `HealthyEntrySafe`, `TrailSafe`, `FlappingSafe`, `FaultsSafe`,
  `FencesSafe`: the action properties. `DeviceStep` leaves six ways to move
  (`StepMoves`): not at all, lost, deteriorated, recovery begun, ongoing, ended; each
  property is read off them. `FencesStep` is the same for one step, and is used again
  for sessions.
* `IndexesSafe`, `QueriesSafe`: with `KnownIds` (every device has its uuid in the
  index), `ListedRight` (the quarantine index) and `FinitelyMany` (so that counts add up).
* `LifecycleRefined`: every store step is for each id a step of `DeviceLifecycle` or none.

From the second item on these assume `0 \notin Uuids`. The code needs it: uuid 0 takes ids
from the counter, which may be another device's, and then that device is replaced
within one step (`Store.cpp:94`), history, quarantine and all. `ServingSafe` and
`ThresholdsSafe` do not need it, since they speak of one state.

**Coordinator** (`CoordinatorProofs`).

* `RegistrationSafe`. With the types of registry and threads and a worker behind
  every open connection, the property is inductive: REGISTER makes its own connection
  the witness, and the thread that ends removes the registration if it is still its own.
* `RegisteredWorkerSafe`, where all boot ids are equal. The invariant
  `EvidenceBacked`: a ready device has evidence, and evidence that still counts was last
  heard from the registered incarnation of its worker. With
  two boot ids the statement is false (`orphan_ready`).

**Persistence** (`PersistenceProofs`).

* `FileSafe`, for `OneSaver`, `RoomForTmp` and `GarbageIsNoImage`. `OneSaver` is what the
  code does not ensure: with two the file is torn (`two_savers`). `FileInv` follows
  `path.tmp`: the one active saver owns the inode of that name from opening it to the
  rename, it is never the inode of `path`, and it is complete when the rename comes.
  Other threads may change the store meanwhile.
* `RefreshSafe`, `LoadedRecoverySafe`, `LoadedQuarantineSafe`, `LoadSafe`, with no assumption
  about savers or about `Racing`: any number of threads save, beside any calls. What
  they except is a store that descends from a mixed file (`mixedStore`); for that
  one the statements are false. A loaded store must satisfy what a grown one does, so the
  invariant `PersistInv` carries it through the disk: an image that is not mixed, on its way
  (`OnItsWay`) or on the disk (`SoundImage`), has of each device what it was at some time, and so
  satisfies the invariants of the store; `StoreSettled` (the store satisfies them, and a ready HEALTHY
  device has evidence heard since the load) and `LoadedWaits` (until a worker is heard, every
  loaded device waits for revalidation or has no evidence) hold unless `mixedStore`. A half-loaded
  file is covered.

**Sessions** (`SessionProofs`), for any number of processes, command lines and
damaged frames.

* `AckSafe`. A worker never matches a reply with its request: that results are true
  rests on there being at most one request unanswered. `Meets` says so of a program,
  its thread and the frames between them, together with `RegistersFirst`: REGISTER is handled
  once, before anything else, and the device is known from then on, which is why "recorded"
  is never said in vain. On a connection where a length was damaged the count is lost, and
  `Meets` says less (`Late`): the thread is still never ahead by more than one request, and an
  acceptance on its way is that of a request taken and not yet counted (`OneToCount`). There is only
  one of these, since no plan has more than two requests. `LeftBehind` says what a read at a
  wrong length leaves of the replies. `Told` is `AckIsTruth` for one
  process. TLC checked `Meets` before it was proved.
* `OnceSafe`: every entry of the ledger lies behind the fence of its incarnation
  (`LedgerFenced`), and what is admitted lies before it.
* `SessionFencesSafe`: every call a thread makes is a step of the store (`CallNext`).
* `CoordinatorRefined`: the initial states map to initial states, every step of a
  program is a stutter of `Coordinator`, every step of a thread one of its actions or
  a stutter. It uses that an envelope that is admitted carries the process's own worker and
  boot id (`OwnEnvelope`), because `OwnBoots`: only own boot ids are ever registered.
  What `CoordinatorProofs` proves from the steps of `Coordinator` is so true of the programs.

**Validation** (`ValidationProofs`). `PassedSafe`, `BufferSafe`, `LeakSafe`, `FakeFaithful`, for
any GPUs, sizes and number of runs. None is inductive, for they speak of finished runs only.
The invariant `ValInv` says where a run is: `Typed`; `Memory`, what is allocated beyond
what earlier runs left, at each place; `Placed`, that the thread's GPU is the one asked
for once `cudaSetDevice` has worked; `Progress`, that a run that nothing has stopped has
recorded exactly the steps before its place; and `Finished`, what the last step makes of
the rest. `ValInv` was checked with TLC before it was proved.

**Protocol** (`ProtocolProofs`), for any bodies and formats, any capacity of the stream and
any damage. A checksum is what it was computed over, so all of this is up to collisions.

* `ProtocolInvariant`. The `pipe` is everything between sender and reader: what
  `recvFrame` has, what is on its way, what is still to be sent. `Traced` says that its
  cells can be labelled with the frames they belong to: labels never fall, a checksum is
  that of the frame of its label, and every frame delivered lies before every label. Damage
  never makes a checksum, so it leaves the labels right. This is all there is to a
  reader that goes on after an error from wherever it is: a frame is accepted by its checksum
  alone, and the next one lies behind it. For the reader that leaves, `InStep`
  adds that the labels begin at the next frame and leave none out, that a checksum is as far
  from the first cell of its frame as that frame is long, and that they reach the latest
  frame while the sender lives. The two are preserved by damage, sending, taking cells
  out and cutting the pipe short when the sender dies, in one lemma for each.
* `ChannelRefined`: `SendFrame` is `Send`, a `Decode` that accepts is `Deliver`, the rest stutters. `Traced` gives the subsequence, `InStep` the prefix.
* `BodiesWhole`, for every base and width. `LoadedStored` says that the digits of a number add
  up to it; `ReadUpto` then says where the reader is after each field of a body cut
  short anywhere: at the end of the field with its value, or failed for good. The
  induction theorems of the library take an operator and cannot be used; `SetInduction`
  does it with a set of numbers in the place of the predicate. Folds are unrolled the same
  way: the recursive function behind one exists, and its equation at 0 and at n + 1 is all
  that is used.

**Only proved.** `FaultsAppendOnly`: it takes no part in a run.

**Only model-checked.** Liveness (`PolicyTakesEffect`, `DeadWorkerEvidenceDrops`,
`EveryRunEnds`, `DeadPeerNoticed`, `UndamagedArrives`), which is outside the prover's reach.
`HistoryAnswers`: it compares selections (`SelectSeq`, of which the prover knows nothing) and folds
over a history with the definitions the store uses.

## Not modelled

* The command line tool: a single-threaded caller of operations that the other modules
  model, with text output.
* The byte layout of files, and the opening and closing of sockets. `TcpClient::recvFrame`
  and `sendBytes` repeat the loops of `Protocol` and are called by tests only.
* Enumeration and the readings of the backends: single calls without state.
* Texts, reasons, confidence and digests of assessments; labels and times in the change
  log; `firstOfType` and `latestOfType`, which return times. No decision reads them.
* A disk that loses unsynced data, and the 64-bit width of counters.
* The host buffer that leaks when the other host buffer is refused (`CudaBackend.cpp:136`).
* A client of the coordinator whose frames carry envelopes of other workers.
* A checksum that matches damaged data by chance.

## Plan

Done, in this order: transitions and state machine; assessment; the store with its
abstract promise; proofs of the store; persistence; the coordinator; its proof; fault
history and queries; wire, frames and their abstract channel; worker sessions;
validation and its proofs; the store steps, and from them the verdicts, action
properties, queries and the lifecycle refinement; persistence; sessions and their
refinement of the coordinator; the framing, its refinement of the channel, and the bodies.

Next:

1. Proofs: `HistoryAnswers`, with the folds of a history unrolled as those of a body are.
2. The composition of `Session` and `Persistence`: a snapshot that also saves, a restart
   with live workers, the epoch restored over `--epoch`.
3. A disk that loses unsynced data at a machine crash.
