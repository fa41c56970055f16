# EiraOS in TLA+

Models of EiraOS, their model checks with TLC and proofs with TLAPS. Every
definition is translated from the source; `PROJECT.json` maps each to the lines
it stands for, and lists the runs, the mutants that show each property can
fail, the findings, the hazards and the theorems.

## 1. The system

EiraOS is a set of local daemons around an append-only log of states. Python
daemons (`app/`) speak JSON-RPC over Unix sockets, one thread per connection,
and keep their data in SQLite. Rust crates (`crates/`) give the event bus, the
shared memory, the wire formats and the state engine. A Tauri shell (`ui/`)
shows windows and terminals. An Android app synchronises states.

| component | state | operations | what is hard | what makes it correct |
|---|---|---|---|---|
| Gate kernel `app/gate/{kernel,store,executors,ipc}.py` | actions, consents, grants, audit chain, tickets in memory | `propose`, `grant_consent`, `confirm`, `recover` | threads interleave between store transactions; crash around the effect; stale records; rights revoked in the middle | one effect, honest state, final verdict, authorised when it happens |
| Gate input layers `app/gate/{edp,render,policy,errors,system}.py` | none | parse, hash, render, policy of a type | equal hashes only for equal content; what is shown is what is run | pure functions, against a reference |
| Event consumer tracking `ipc/sequence.rs` | checkpoint and buffer per producer | `receive`, `begin`, `complete`, `fail`, `commit`, `declare_lost`, `gaps`, `checkpoints`, `resume` | loss, repetition, reordering, concurrent processing, full buffer, crash | no event skipped, checkpoint safe to persist |
| Event bus `ipc/queue.rs` | bounded queue per subscriber, counters | `subscribe`, `publish`, `push`, `pop` | locked and poisoned queues, drop policies, clock that jumps | drops counted, order kept, publisher never waits |
| Shared memory `eira-ipc/src/shm.rs` | mapped segment, generation, ready flag | `create`, `publish`, `open`, `payload`, drop | seqlock, wrap of the generation, unlink by name | a reader never uses a mixed snapshot |
| Unix RPC `eira-ipc/src/lib.rs` | listener, permits, socket file | `serve`, `call`, cleanup | two servers on a path, shutdown, timeout without cancellation | one owner of the path, bounded connections |
| Wire formats `ipc/{envelope,frame,cbor,path,signature}.rs` | partial frame | encode, decode | partial reads, canonical form | decode is the inverse of encode |
| Socket activation `ipc/activation.rs` | inherited descriptors | `take_listener(s)` | failure in the middle | each descriptor has one owner or is closed |
| Daemon runtime `app/daemons/{runner,base}.py`, `app/ipc/` | servers by name, threads, socket files | `start_daemons`, `stop_daemons` | partial starts undone by name, late threads, threads that end by themselves | whatever runs is registered or being stopped |
| State log `app/core/{state,store}.py`, `eira-stated` | append-only hash-linked states | append, read, verify | several writers | chain intact |
| Audit trail `app/core/audit.py` | entries as states of the log | append, verify | sequence is a count; the lock belongs to an object made without one | one sequence, linked hashes |
| Fleet registry `app/fleet/device_registry.py` | pairing codes, devices | create code, enroll, heartbeat, revoke, expire | partial failure, stale check | a code enrols one device, revoked stays revoked |
| Fleet sync `app/daemons/fleetd.py`, `app/fleet/merkle_sync.py`, Android `SyncService.kt` | log, connections, requests under way | handshake, diff, pull, push | revocation and other writers in the middle of a request | no orphan in the log, true answers, revoked devices stay out |
| Intent engine, policy store `app/daemons/intent*.py`, `app/core/{policy_store,cel_evaluator}.py` | rules with versions | evaluate, add rule, seed | rules change under a request; errors inside an expression | no transformation past a violated constraint |
| Sessions, identity `app/session_store.py`, `app/daemons/identityd.py`, `app/auth/` | sessions, pending logins | login, mock login, visit, step-up | overlapping requests with one session id | a session stays with its maker |
| Contract tooling `contracts/redmine/` | issues, prompt files | rows, allocate, start, sync-prompts | old views, rows loaded again | nothing started or frozen too early |
| Certificates, Veritas `app/auth/production_cert_verifier.py`, `app/veritas/`, `veritasd` | revocation evidence, scores | verify, evaluate | evidence that was true once, authorities of one name | who is believed deserves it |
| Backups `scripts/disaster_recovery_backup.py` | recovery points, restored database | backup, list, restore | overlapping runs, crash between files, damage | what is restored was backed up |
| Journeys `app/journey.py`, `app/pending_intents.py` | steps, pending intents | create, advance | lost update | steps in order, each once |
| Terminal `ui/src-tauri/src/terminal.rs` | sessions by id | open, write, close, close_owner | reader thread against close | bounded, each child reaped once |
| Graph, bridge, shell IPC, UI, prototypes, packaging | small or none | queries and forwarding | – | – |

**How they interact.** A window or the HTTP bridge calls a daemon; `intentd`
hosts the Gate, which reads the session's assurance level from the database
`identityd` writes. Producers publish events through the bus; each consumer
keeps a `ConsumerProgress` and asks for gaps. Daemons append states to the log
of `stated`; `fleetd` exchanges them with other devices.

`PROJECT.json` lists all components, with those not modelled and why, and the
hazards of the code, each at its line. A hazard without a property says why.

## 2. What is modelled now

### GateKernel, GatePromise

`GateKernel` has one variable per table (`row`, `consents`, `rights`, `audit`,
`level`), the outside world (`effects`), the process (`mode`, `owed`,
`policy`, `call`) and history (`claims`, `answered`; `lacking` in a call).
Each thread walks through a handler with **one step per store transaction**
since every call of `GateStore` opens its own autocommit connection:

| code | actions |
|---|---|
| `propose` | `Propose`, `ProposeInsert`, `ProposeFind`, `ProposeConsent`, `ProposeRight`, `ProposeCancel` |
| `grant_consent` | `GrantConsent`, `ConsentFind`, `ConsentInsert` |
| `confirm`, layers 1–6 | `Confirm`, `ConfirmFind`, `ConfirmConsent`, `ConfirmRight` |
| layer 7 (`claim` and the lost race) | `ConfirmClaim`, `ConfirmLost` |
| layer 8 | `ConfirmRecheck`, `ConfirmRun`, `ConfirmFinish`, `ConfirmAudit` |
| an uncaught exception of the store | `StoreRaises` |
| death and start of intentd, `recover()` | `Crash`, `Restart`, `RecoverOne`, `RecoverAudit`, `Serve` |
| sessions, grants, clock | `SetLevel`, `GrantRight`, `RevokeRight`, `ConsentExpires` |

The record that `confirm` reads at the start is immutable but for `state`, so a
thread keeps `seen` and nothing else of it. `ConfirmRun` is the executor: the
outbox writes its row and the execution id in one transaction; `logind` may
refuse, be unreachable, or act and be slow to say so. `Reconcile` follows: the
outbox can prove both ways, the power executor neither.

Abstractions: a `Content` stands for all that the two hashes cover; layers 1–3
are taken as passed; the audit holds outcomes only (rejections are logged
before the answer and change nothing else); memberships and identities are
constants; a registered executor never reports `partial` or an invalid
transition; one `intentd` runs at a time.

`GatePromise` is what a user may rely on: an action moves between its phases,
has at most one effect, is undone only without effect, and what is told is
what is recorded. `GateKernel` refines it (`KeepsPromise`).

`MCGateKernel` gives the instances: an outbox action, a power request, and a
type without executor.

### SequenceTracker, CheckpointPromise

One tracker per producer (`last`, `pending`, `lost`), the persister
(`snapshot`, `saved`) and history. Each method that changes state is an action
of the same name (`Receive`, `StartWork` for `begin`, `Complete`, `Fail`,
`Commit`, `DeclareLost`); `ReadCheckpoints` and `Persist` are two steps, since
the persister writes later what it read; `Crash` is the death and
`ConsumerProgress::resume`. Any number can arrive at any time, so loss,
repetition and reordering need no model of the bus. `DeclareLost` takes any
number, which covers a caller that read `gaps()` long ago. Answers that change
nothing (`Duplicate`, `BufferFull`, errors) are not steps.

`CheckpointPromise` says what the persisted checkpoint is worth: it only grows,
over events that are processed or given up, and nothing at or below it happens
again. After a crash events above it may: the tracker cannot know them.

Left out: sequence 0, overflow of `u64`.

### EventBus

`BoundedEventQueue` and `Fanout`: the queues with their counters, the mutex of
each queue (`free`, held by its consumer, or poisoned), and `publish` that
visits the subscribers in order, one step each (`Offer` or `DropBusy`).
Consumers lock, pop any number, unlock or panic. The clock may jump, since the
code uses wall time. `publish` and `subscribe` take `&mut self`, so there is one
at a time. `retain` of `DropByAge` keeps the fresh places of a queue in their order
(`Place`, `Retained`). Busy drops are recorded as pairs of subscriber and event.
Left out: the extremes of `i64` in `saturating_sub`.

### SharedMemory

The segments ever created under one name (`form`, `ready`, `gen`, `head`, `word`
and the history `begun`), the name itself, and for each writer and reader where
it is. `create`, `publish`, drop and `open` take one step per access that another
process can see: `Withdraw` (ready = 0), `BeginWriting` (odd generation),
`WriteWord`, `WriteDigest`, `EndWriting` (even), `Offer` (ready = 1) against
`Open`, `CheckReady`, `CheckGeneration`, `CheckHeader`, `DigestWord`, `CheckAgain`,
`CheckReadyAgain`. A segment is a new object under an old name, so a reader may
have mapped one that is unlinked. A reader comes with any descriptor ever
returned, or with one whose generation is the default 0. A writer may `Die` at
any step and leave the name; `CleanUp` is the explicit `unlink_segment` of a
caller that knows it is dead.

The payload is words written one at a time, so copies that race are mixed in
every way. The digest determines the payload, so comparing digests is comparing
words; the length goes with the digest. Memory is sequentially consistent: what
the fences are for is not modelled. The view of an open reader is the segment
itself: `ViewIsDescribed` says it is right until another publication begins,
and the code promises nothing after that.

### DeviceRegistry, FleetSync

`DeviceRegistry` has one action per transaction of `device_registry.py`; each runs
under the registry's lock. `assert_authorized` and `heartbeat` are several
transactions, so `FleetSync` gives them several steps. `Enroll` covers the failure
after the code was marked: the connection ends without a commit.

A request of `fleetd` is a walk of one worker: an RPC thread, or the loop of the
WebSocket server, where a connection keeps the device of its handshake.

| code | actions |
|---|---|
| `_handler`, `handle_message` | `Receive`, `Finish` (answers, errors, the closing of a socket), `Reconnect` |
| `_authorize`, `assert_authorized` | `Expire`, `Authorize` |
| `handshake`, `heartbeat` | `ServeHandshake`, `Expire`, `BeatCheck`, `Beat` |
| `request_blocks` | `ServeBlocks` |
| `push_blocks` | `Validate`, `Store` (one state), `Accept`, `Reply` |
| other writers of the log; a stop of fleetd | `AppendLocal`, `Restart` |

States are numbered in the order of the log; `Newest` is the window that
`RpcStateStore` sees, so a state may be in the log and not in the listing. The
order in which `push_blocks` sorts its batch is any order with parents first.
Decryption is the question whether a block is `Bad`.

### The services of MCServices

| module | code | state and steps |
|---|---|---|
| `Login` | `oidc.py`, `session_store.py`, routes | one step per SQL statement of each handler (`Lookup`, `Insert`, ...); the live login as far as it gets (`NonceFails`) |
| `PolicyGate` | `policy_store.py`, `intentd.py`, `transformation.py` | versions of each rule; a request reads, evaluates, evaluates again, appends, publishes, learns |
| `AuditTrail` | `audit.py`, `stated.py` | the trail object is looked for, made and taken in three steps; read and append under its lock |
| `CelEvaluator` | `cel_evaluator.py` | `Evaluator` over syntax trees as records, a function on a finite set of trees with all their operands; each expression is answered in one step |
| `RedmineTools` | `sync_contracts.py`, `coordinator.py`, `redmine_api.py` | rows are made for people to load; commands read all issues first, then write one request at a time; people go on; custom fields are configured or not |
| `DaemonRuntime` | `runner.py`, `base.py`, `transport.py` | callers under `_SERVERS_LOCK`, server threads that bind, listen and leave, socket files by name; a thread ends by `_stop` or by an error (`ended`, `broken`); a registrar may raise; servers are stopped one by one, the last started first; a start returns by looking its daemons up, which fails if one was undone (`LookupFails`) |
| `MerkleSync` | `merkle_sync.py` | two logs grow and are compared; roots, differences and heads are functions |
| `Trust` | `production_cert_verifier.py`, `layer2_qeaa.py`, `veritasd.py` | time, revocation by serial number, documents of any age, responders by name; a verdict in one step |
| `Recovery` | `disaster_recovery_backup.py` | runs that overlap and may be killed, one step per file; the writers of the database, and damage, are external |

What a reader of the code may not expect, and the models say as the code does:

- The live login keeps its nonce in a column of `oidc_auth_states` that the schema
  does not have (`database.py:200-216`): it ends at `oidc.py:203`, its callback at `:211`.
  Only mock logins succeed. `ensure_session` never updates a row, so a login that
  comes with the id of an existing session is answered but not bound to it (the docstring of
  `complete_oidc_login` says "Create or bind session"). `LoginsHold` is about who
  *made* a session.
- A rule that is switched off is its newest version, so older ones must not count.
  The rules of a request are those it read, not those at its append.
- The Merkle root covers tips only; cycles, which have none, are refused. Chains
  deeper than Python's recursion limit raise `state_dag_too_deep`; the model has
  none. What a node commits to (`Commitments`) is a function on the log that calls itself
  on the parent, as the cache of the code.
- A daemon whose accept loop ended by an error (`base.py:157-158`, `:166-168`) has
  removed its socket file but stays registered, and `start_daemons` goes on
  returning it. `stop` and a failed start remove files by name, so the file of a
  server may be taken from under it. Hence nothing is said of reaching a daemon:
  `NoneForgotten` says that none runs unknown to the registry and to every call.
- An expired anchor still anchors a chain that does not contain it; only the leaf's
  revocation is asked for; the attestation layer asks no CA flag of the issuers.
- `!a == b` of a policy is `not (a == b)`; `true in [1]` holds, as in Python. An
  operand that raises ends the expression with a denial.
- An OCSP responder that comes with the response and bears the issuer's name is taken
  for the issuer, whoever signed it (`production_cert_verifier.py:432-444`). When all
  evidence shown is of such an authority, it says nothing about the certificate, and
  `TrustSound` bounds the age of the revocation only if some of it (`of`) is of
  the authority that signed the certificate.
- `start` opens a closed contract again. Without the id of "Depends on", every issue
  is ready, and `BoardKept` speaks of starts only where it is configured.
  `import_to_redmine.py` does not compile (`CSV_PATH` is used at line 242 and declared
  `global` at 257 of one function), so `push` fails and rows are loaded by hand.
- A recovery point is named by the time before its copy, so what is restored may hold
  commits made after the time asked for (the docstring says "at/before").
  The digest is taken after the snapshot got its name, and a restore compares it before it
  copies: damage in between is seen by neither (`unseen`). One bad point fails the list,
  and with it every restore. Two restores without `overwrite` can both find no output,
  and the later one replaces the other's.

## 3. Runs

| run | instance | shows |
|---|---|---|
| `gate_safety` | 2 threads, 1 action, 1 session, 2 contents, 2 claims, 1 crash, 1 store error | the safety properties and the refinement, in every interleaving |
| `gate_users` | 1 thread, 2 users, 3 contents, 1 claim, 1 crash, 1 store error, 1 new policy | authorisation across sessions, policies and errors |
| `gate_liveness` | 2 threads, 1 power request, 1 claim, 1 crash | calls return, executing is resolved |
| `gate_audit` (violation) | as above, 2 claims | a decision without audit entry |
| `gate_failed` (violation) | as above, 2 claims | `failed` with an effect |
| `sequence` | 1 producer, 4 events, buffer 2, 1 crash, 1 failed attempt | nothing skipped, gaps exact, the refinement, the buffer empties |
| `bus` | 2 subscribers of any policies, capacity 2, 3 events, 2 times | counted, ordered, `publish` returns |
| `shm_safety` | 2 writers, 1 reader, 2 payloads of 2 words, 4 generations, 2 segments, 3 publications | no torn payload passes `open`, no name is taken away |
| `fleet` | the registry with 2 codes, 2 devices, 2 keys; or 1 RPC thread and the WebSocket loop, 1 device, 3 states, batches of 2, window 1 | codes pay once, gone devices stay out, pushes are whole and answered truly |
| `services` | nine services, see below | one safety property of each |
| `audit_race` (violation) | 2 threads | two trails, two locks, a broken chain |
| `cel_dates` (violation) | a day and a time as texts | their comparison raises |

**Bounds.** Two threads are enough for every race of the Gate: each is
between one holder of a claim and another call. Two claims let an action be
released and claimed again, with the execution id of the first still in a
thread's hands; one crash with either claim in progress. Two users in one
thread show whose session counts; the interleavings are those of `gate_safety`.
A buffer of two out of four events can be full of later ones. Trackers of
different producers share nothing, so one producer is enough. A queue of
capacity two can hold an expired event in front of a fresh one, and three events
overfill it. With four generations the third publication of a segment is back at
the generation of the first, so the run sees both a race that is found and one
that a whole turn of the counter hides. Readers share nothing, so one is enough.

`MCFleet` lets each behaviour choose between the registry alone, with all its
transactions, and a device that is paired already and sends requests: their product
is too large, and the proof covers it. Of its three states one is a root, one its
child and one another state under the child's id; a window of one hides the root
as soon as a younger state is there, so stale listings, taken ids and missing
parents all happen.

`MCServices` lets each behaviour choose one service while the others stay as they
began, as they share no variable. `Login`: 2 handlers, 2 users, 2
session ids, one of which a browser made up, so that requests can share or repeat it. `PolicyGate`: 3 versions of a rule, so
that one can be changed, switched off and on. `AuditTrail`: 2 threads, 3 events, 1
from elsewhere. `CelEvaluator`: 4 scalars, 1 path,
comparisons under two layers of connectives; `MCCel` builds these trees and their heights. `RedmineTools`: 2
contracts, one waiting for the other once it is written, 2 issues, 1 run beside people, all
fields or only the contract's id. `DaemonRuntime`: 2 daemons, 2 callers, 2 servers: of
one daemon, one after the other, or of both.
`MerkleSync`: 6 states with a fork, a duplicate id and a cycle. `Trust`: 6
certificates in 7 chains, two of one name and two of one serial number, clock 0 to 3,
2 documents. `Recovery`: 2 runs, 2 points, 1 commit, before or after each step of a backup.

Deadlock checking is on but for `shm_safety`, `fleet`, `services` and the runs that
expect a violation of the latter: segments, pairing codes and the other bounded
supplies are used up, and then the model really stops.

**Fairness.** The Gate: a thread of a running process goes on (every wait is
bounded: 10 s for the database, 15 s for `busctl`), systemd restarts the service,
and `recover()` is a loop over the rows it selected. Nothing is assumed of
callers, sessions or rights. `gate_liveness` has no store errors: `Settles`
names the row that such an error strands until the next restart. The consumer:
it works on what it accepted, retries refused commits and gives up a gap that
stays in front of buffered events. The last is a policy the code leaves to its
caller (`sequence.rs:21-25`) and `BufferedSettles` is about a caller that has it;
without it a full buffer waits for ever. The bus: only the thread in `publish`.

**Findings.** (1) `recover()` only looks at `executing` rows, so a crash between
`finish` and `append_audit` leaves a decision that is never logged, though
GATE-KERNEL-1.0 section 8 asks that each is. (2) `busctl`'s own time-out is reported
as `failed`, though appendix A of that document gives a time-out the state `unknown`.
(3) `_active_audit_trail` of `stated` takes no lock, so two first appends can make a
trail and a lock each, number their events alike, and `audit.verify` rejects the
chain from then on. (4) `_normalise_pair` returns two texts before it brings dates and
times together, so `due_date >= world.now` of the seeded policy denies whatever the
day is, when the day comes without a time.

## 4. Proofs

Each theorem is for every value of the constants.

`GateKernelProofs` proves all safety properties of `gate_safety` and
`gate_users`. The assumptions are the types of
the constants, that they are not empty, and that a type with an executor is
irreversible in `REGISTRY`. The argument:

- `TypeOK` first, since the provers need the range of every access.
- The inductive invariant adds who holds what. A thread between claim and finish
  is the only holder of its action (`SoleHolder`), the row is `executing` with its
  execution id, and there is no effect before it runs (`HolderKnows`). A finished
  state that a thread has read still stands (`ReadStands`), and an `executing`
  row of a running process has a holder unless a store call raised
  (`HeldUnlessError`). No thread is busy while the process is down
  (`IdleUnlessUp`).
- `HonestState`, `OneVerdict` and `OneHolder` follow from it; `Finality` and
  `AuthorisedEffect` are its steps; `KeepsPromise` maps each action to one
  of `GatePromise` or to a stutter. `HappensAtMostOnce` is what `HonestState` means
  for a caller who repeats everything.
- Two claims about verdicts are refuted (`gate_audit`, `gate_failed`); the last
  section proves how far they hold. A verdict that is audited, or that a thread or the
  recovery is still to write (`Covered`), stays so through every step but a crash and a
  raised call of its own writer (`VerdictsStayCovered`), so without these two every
  executed action is audited (`AuditedWithoutFaults`); the invariant adds that the
  recovery owes one entry at a time (`OwesOne`). For the outbox, whose row and
  execution id are one transaction, no state is `failed`, and `executed` is exactly
  what has happened, through any crash (`OutboxTellsExactly`, by `OutboxKnown`): only
  a late reply of logind can make `failed` untrue.

`SequenceTrackerProofs` proves the safety properties of `SequenceTracker` and the
refinement of `CheckpointPromise`. The inductive
invariant: buffered events are above the checkpoint
(`Ahead`), the persisted checkpoint and the one just read are not above it
(`SavedBehind`), only processed events are in the stage `Processed`
(`StagesKnown`), `ReceivedNotSkipped`, and everything up to the checkpoint is
processed or given up (`Decided`). A late write of the persister is safe because
`Decided` never becomes false of a checkpoint that was once read. `GapsExact` (`GapsNamed` and `MissingExact`) holds in
each such state: a missing number lies between the greatest stop below it and the
least buffered number above it (`LeastOf`, `GreatestBelow`).

`EventBusProofs` proves that every drop is counted and that subscribers see events in
order. A push is described once for the three policies (`Pushes`): it keeps part of
the queue in its order, puts the new event behind it or nowhere, and counts what it
leaves out. The invariant: whatever a subscriber was offered is not newer than the
event `publish` has got to (`UpToNewest`), and what was taken comes before what waits
(`InOrder`). `Counted` is inductive with the types.

`SharedMemoryProofs` proves all properties of `shm_safety`. The invariant
follows the seqlock. A segment has one writer at most (`OneWriter`), whose stage
says what the generation, the flag and the words are (`WriterKnows`). A reader for
whom no publication has begun since it looked still finds its even generation
(`ReaderKnows`); the words change only under an odd one, so what it has digested
is still there. A generation names its publication up to whole turns (`Turns`), from
which `RaceIsFound` follows by arithmetic (`SameGeneration`).

`FleetProofs` proves of the registry that codes pay once, keys stay apart and gone
devices stay gone; types and the two uniqueness claims together are inductive, for an
open code has paid for nothing.

Then it shows that every step of `FleetSync` is one of `DeviceRegistry` or
leaves it alone (`StepOfRegistry`), so `FleetSync` implements it
(`FleetUsesRegistry`) and its theorems carry over to the whole, which the run never
enumerates. What holds of each worker is `Own`: a late request is before its
authorisation and its device is still gone; the batch is in the log but for the
part still to be stored, which is empty outside the loop; and each state of that
part has its parent in the log or in the part. `Store` takes a state whose parent is
not in the part, so it is in the log. Nothing is assumed of the ids, the parents or
the window: `Orderable` alone carries the argument. `InstanceKeeps` proves the same of
`MCFleet`, the start and the steps that TLC takes, for any constants.

`IdentityProofs`. *Login*: a row that is there is never written again (`RowsHold`), and a
handler that made a session still finds its own row (`Served`), because `INSERT` fails on
a key that is taken; so does whoever was answered. *Trust*: every document tells of the
revocations before it was made, by the serial numbers of the authority it speaks for
(`PaperTrue`: the assumption about the authorities, with distinct serials per
authority), and the code accepts none that is too old. Down a
chain that is accepted, signature by signature, every set of certificates that holds
the anchors and what its members signed holds the leaf (`DownTheChain`), so the leaf
descends from an anchor although the code compares names.

`StateLogProofs`. *AuditTrail*: with one trail there is one reader under its lock
(`OneReader`), so what it read is the whole log, and an event numbered after all others
leaves what precedes them alone (`Extends`); there are never more trails than threads,
for a thread that looks while there is one makes none (`TrailsCounted`). *PolicyGate*: a
version is never written again, so what a request may do by what it read (`Allowed`)
never changes, and the newest version is what was last administered (`NewestInForce`).
*CelEvaluator*: whatever has a value for the evaluator has the same for the meaning
(`Agrees`), tree by tree from the leaves up. The trees are any finite set that holds
their operands. `DaysAreCompared` is the rest of what `cel_dates` refutes: in any other
comparison of days and times, a day is its midnight. *MerkleSync*: in a finite log
without a cycle every set that holds the tips, and each of its states' parents, is the
whole log (`TipsLeadToAll`); so two logs of one root hold the same states.

`ToolingProofs`. *RedmineTools*: the row of an issue never changes, so a view that is
old is still true of the rows, and what it calls closed was closed once
(`ClosedIsKnown`), for any number of runs. *DaemonRuntime*: the invariant
says of each call what it holds: the lock in its first part (`Locked`), a new
server that is in no list and whose name is free (`Starting`), and servers to stop only
while it stops some (`Waiting`). Of each server: it is registered, being started or to
be stopped unless it was told to stop (`Minded`), registered under its own name
(`ByName`) and then in nobody's list (`Registered`), in one list at most (`StoppedOnce`),
and its file goes before its thread does (`OwnFile`). *Recovery*: the files of a point
hold what was there at its time (`PointSound`); a file whose digest is about to be taken,
or that is about to be copied back, has not been altered in a way the digest would show
(`TaskSound`); the point that was chosen is the last of those to choose from
(`BestOf`), and `OutputSound` keeps that of the output.

*MCServices*: the services share no variable, so a behaviour of all of them is one of
each (the lemma `EachPartRuns`). Each part's type invariant, a theorem of its own module, is then
one of the whole (`ServicesTypeCorrect`), and so is what each part promises
(`ServicesKeepAll`). The evaluator of policies needs a word more (`AllowsBeside`): until
it is asked, it has no expression to be in a state of. For these theorems the three
modules of proofs are a chain: `ToolingProofs` extends `StateLogProofs`, which extends
`IdentityProofs`.

**Induction over data** is out of the prover's reach as a rule with a predicate for a
parameter. Where a proof needs it, it argues with sets: a set of numbers that is not
empty has a least element, from the library's well-founded order of finite subsets
(`FS_StrictSubsetOrderingWellFounded`, `WFMin`); a counterexample of least height
contradicts what holds of its operands; and the functions `Evaluator`, `Senses` and
`Commitments`, which call themselves, are shown to satisfy their equations on
the largest part of their domain that is closed under operands or parents. None of the modules has a
`RECURSIVE` operator.

**Only model-checked**: liveness (`Settles`, `CallsReturn`, `BufferedSettles`,
`PublishReturns`), since the prover knows no `ENABLED`, and the properties that the runs
`gate_audit`, `gate_failed`, `audit_race` and `cel_dates` refute. Of these four, what does
hold is proved: `AuditedWithoutFaults` and `VerdictsStayCovered`, `OutboxTellsExactly`,
`OneTrailAlwaysVerifies`, and `DaysAreCompared`. Every safety invariant, every action
property and both refinements that a passing run checks are theorems.

## 5. Not modelled

- Gate layers 1 to 3, rendering and the hash chain of the Gate's audit; a second
  `intentd`, whose `recover()` would run before it binds.
- The Rust RPC server, socket activation and the terminal of the shell: lifecycles
  like that of `DaemonRuntime`, next in line.
- Wire formats and the Rust store behind FFI: byte layouts, left to unit tests.
- The connections of the Python daemons: `handle_line`, clients, peer credentials.
- The Android client: `FleetSync` takes any requests from it.
- Journeys and pending intents: `journey.advance` and `intent.confirm` over IPC only
  answer that the Gate is required (`app/gate/ipc.py:25`). So does `intent.execute`;
  `PolicyGate` models the service behind it, `IntentDaemonService.execute`, which is
  called within the process.
- `StateStore.verify` and `get_history`, which does not return on a cycle of parents;
  the comparison in `MerkleSync` refuses such logs.
- The live login beyond the statement it fails at, and `import_to_redmine.py`: they do not run.
- Free text: the intent parser, what Veritas looks for in a document, prompts and plans.
- Cryptography itself, packaging, windows, stubs with constant answers.

A next step would be `EventBus` with a `SequenceTracker` per subscriber: what the bus
drops is found as a gap.
