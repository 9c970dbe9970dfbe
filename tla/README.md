# Dootah: a TLA+ verification project

Dootah ships over-the-air updates to native Android Compose applications. A
customer's publisher compiles an update into a *portable program*; the **Cloud**
control plane records it as a release, has a reconciliation worker seal it on a
branch of an upstream update service (xprem), and decides which devices are
offered it; the **Android runtime** evaluates the program in a sandbox and
replaces hooked composables with what it renders, and falls back to the
installed code whenever anything is out of order. Around them stand the operator's
commands on a deployment, the tools that package, validate and sign the SDK, and the
CI gate that decides whether a release may be signed at all. All source paths below
are under `src/v2`.

The project models the parts where several actors write the same state, or where
a step can be lost, repeated or come late. TLC checks the models on small
instances; TLAPS proves the central safety properties for every value of the
constants.

## Inventory

### Cloud control plane (`cloud/`)

*Release control* (`server.mjs` 141-174, 754-775, 809-954).
State: PostgreSQL rows `releases(status, percentage, version, upstream_uuid)`,
`environments(head, directive_branch)`, `operations(status, action, resource,
key)`. Operations: publish (a draft plus a pending operation), read, rollout,
pause, resume, and rollback / kill, which only enqueue an operation. Each handler
is one transaction that locks the environment row and then the release row.
Hard: optimistic versions against completing workers; head switches that touch
three rows; one open operation per environment; commands after a directive.
Correct when: at most the head distributes; a directive silences every release;
retired releases stay retired; a matching version really is current.

*Reconciliation worker* (`worker.mjs`, `adapter.mjs`).
State: an operation's status and attempts, a session advisory lock, and the
process's own place in `work()`. Operations: claim, prepare, inspect,
upload / roll back, inspect again, verify the receipt, the completing
transaction, retain for retry. Runs in every API process every three seconds.
Hard: crash at any point, timeouts whose effect lands after the retry looked, a
list read before the lock, a completing transaction of *unconditional* updates.
Correct when: an operation completes once, on a verified receipt, also when the
answer to its COMMIT is lost; nothing is uploaded twice blindly; every accepted
operation is eventually carried out.

*Delivery gateway* (`server.mjs` 958-1070, `core.mjs` 73-83). State: grants.
Operations: answer a manifest request from environment, head and cohort, write the
grant, fetch from upstream; serve assets against a grant. Hard: three reads
without a transaction racing control commands; a grant written before the fetch.
Correct when: a device is answered by a policy the environment had during
its request, and an asset is served only to a device granted it.

*Telemetry ingest* (`server.mjs` 300-408). State: events (unique per
organization, installation and id), the installation's active release. Hard:
retried and overlapping batches, out-of-order activations, unknown releases.
Correct when: an event counts once, and the active release is the latest reported.

*Enrollment, credentials, membership* (`server.mjs` 115-140, 515-575,
631-740). State: single-use tickets, installation credentials, members. Hard: two
devices with one ticket, a lost enrollment answer, two owners removing each other.
Correct when: a ticket mints one credential and an organization keeps an owner.

*Hosted policy* (`hosted.mjs`, `policy.mjs`, `admin.mjs`). State: invitations,
accounts, `hosted_controls`, quotas. Hard: concurrent use at a limit; pausing
publications while a worker uploads. Correct when: no invitation is redeemed
twice, and committed use never passes its quota.

*Traffic* (`traffic.mjs`, `core.mjs` rate limits). State: in-process counters
and windows, a usage buffer flushed to the database. Hard: overlap of requests with
a minute boundary, usage recorded while a flush waits, shutdown during a flush.
Correct when: the concurrency count returns to zero, usage is counted once.

*Configuration, client, console* (`config.mjs`, `client.mjs`,
`dashboard.js`, `../web`): no state of their own beyond the page; the
console is a client that sends back the version it read.

### xprem composition (`server/`)

`main.go` wraps the upstream service with authentication, creates a branch's
channel on first use (check, then create) and signs directives; `publish.mjs`
uploads in three requests, the last of which seals the update. Its timeouts are
what makes an upload ambiguous to the worker.

### Android runtime (`android-sdk/runtime`)

*Portable sessions* (`PortableOverride.kt`). State of a hooked call site:
program state, event queue, `running`, `active`. Operations: fire, drain, done,
apply, dispose. Hard: events during an evaluation on another thread; results
after disposal or refusal; installed callbacks that fire further events. Correct
when: each event runs once, in order, on the state its predecessors left.

*Application host* (`DootahApplication.kt`, `DootahActivity.kt`,
`ComposeDispatch.kt`). State: the dispatched update, a result cache, pending
renders and their budget, whether a frame was acknowledged. Operations: start,
look up, evaluate, post, refuse, reject, acknowledge. Hard: acknowledgement on
the main thread against rejection on the worker thread. Correct when: an update is
failed at most once, acknowledged only by a frame that shows it, and not shown again
after the fallback.

*Telemetry* (`CloudTelemetry.kt`): a persistent queue of 64 events that drops the
oldest, flushed in batches of 32 that are removed after the server's answer.
Hard: overflow while a batch is in flight; a batch the server refuses.

*Native adapters, sandbox* (`NativeAdapters.kt`, `sandbox/`): checks of arguments
and a call into JavaScript.

### Portable program format (`portable/`)

`PortableProgram.java` and `UiTree.java` validate programs and the values they
return. Pure, bounded; correct when nothing outside the format is accepted.

### Deployment commands (`deploy/ops.py`)

State: `bindings.json`, which binds each application of Cloud to an application, a
certificate and an API key of xprem; `bindings.candidate`; the volumes; a backup
directory. Operations: binding-put, backup, restore (and secrets, bootstrap and
grant-xprem, which prepare a deployment). Each runs for minutes, may fail at any
line or be killed, and holds no lock. Hard: what is left when one ends halfway,
a container that goes on with what it read when it started, keys revoked between
steps, two commands at once. Correct when: an installed signing identity never
changes; no key in use is ever cut off; a backup is one cut; a restore that says
it completed restored a whole.

### Release packaging and signing (`android-sdk/release/`)

State: a stage directory (raw publication, repository, manifest, audit, consumer
receipt), the coordinate ledger and its lock. Operations: stage.sh, package.py,
validate.py, consumer.py, sign.py, jitpack.py. Hard: results of one tool read by the
next after the stage has changed; exports that overlap or are killed; a version
that must change whenever any byte does; dependencies rewritten in two formats.
Correct when: one coordinate is never signed with two contents; what is signed was
consumed as it is; a mapped repository is closed.

### Release gate (`ci/`, `deploy/acceptance.py`, `.github/workflows/v2-gates.yml`)

State: each job's place in `run()`, its reports, evidence directory and disposable
deployments; uploaded artifacts by attempt; the aggregate result. Operations: the
steps of the three jobs, stopping and losing them, uploads, combining, reruns,
signing. Hard: reports that say less than what happened, receipts of jobs that were
stopped later, evidence of an earlier attempt, cleanup that fails. Correct when: only
a commit whose jobs all really passed, in one attempt, is signed, and a job in order
passes.

### Publisher, Gradle plugin, other scripts

`publishing/` is a client of the API (`customer.mjs` registers environments and
retries); the Gradle plugin rewrites bytecode at build time; further scripts lint
the documentation, scan for secrets, and check images.

### Interactions

```
 console / CLI --commands--> API handlers --rows--> worker --calls--> xprem branches
                                  |                    |                  |
                                  +--- PostgreSQL <----+                  |
                                  v                                       |
      device <--manifest, assets-- gateway <--------------fetch-----------+
        |  \--events--> telemetry ingest
        +-- host: dispatch --> sessions: queue, evaluate (worker thread), apply (main thread)

 operator --ops.py--> bindings, volumes --read at start--> Cloud --keys--> xprem
 Gradle --> package.py --> validate.py --> consumer.py --> sign.py --> bundle, ledger
              \________ run inside the gate's jobs ________/  \--> only after the gate
```

`PROJECT.json` lists every component and, at its line, every hazard the survey
found, with the properties that cover it.

## Modules

| module | models |
|---|---|
| `ReleaseControl` | release control, workers, and the upstream service as they see it |
| `EnvironmentPolicy` | abstract: what an environment promises the devices that ask it |
| `MCReleaseControl` | model values and symmetry for TLC |
| `ReleaseControlProofs` | TLAPS: the inductive invariant of `ReleaseControl`; policy, receipts, versions and duplicates |
| `Delivery` | the gateway, extending `ReleaseControl`: requests read by read, grants, devices |
| `MCDelivery` | homes and cohorts for TLC |
| `DeliveryProofs` | TLAPS: `ReleaseControl` implements `EnvironmentPolicy`; what devices can rely on |
| `PortableSession` | one call site's queue, the evaluation thread and the host's refusals |
| `MCPortableSession` | the shapes of actions TLC tries |
| `RenderHost` | the host of one launched update: lookups, evaluation, rejection, frames |
| `Telemetry` | an installation's event queue, its flush and enrollment, and the ingest |
| `AndroidProofs` | TLAPS: the host, the sessions, the telemetry of one installation |
| `Enrollment` | tickets, installations' rows and credentials, statement by statement |
| `Membership` | members of an organization and the audit log, statement by statement |
| `MembershipProofs` | TLAPS: the last owner and the audit log |
| `Tenancy` | both of these on one organization, whose row they lock and refer to |
| `MCTenancy` | tickets' environments and symmetry for TLC |
| `EnrollmentProofs` | TLAPS: tickets, credentials and the quota; members and enrollments do not change each other |
| `Operator` | binding-put, backup and restore on one deployment |
| `MCOperator` | symmetry for TLC |
| `OperatorProofs` | TLAPS: identities, keys, backups and restores, for commands that do not overlap |
| `Packaging` | what package.py, validate.py and jitpack.py compute, as operators |
| `Candidate` | stages, consumer builds and exports, extending `Packaging` |
| `MCCandidate` | builds that differ in one respect each, for TLC |
| `CandidateProofs` | TLAPS: the ledger, what is signed, what coordinates stand for |
| `Gate` | three CI jobs, their evidence, the aggregate job and the signature |
| `MCGate` | test results and manifests for TLC |
| `GateProofs` | TLAPS: what is signed, what receipts and failures say |

### ReleaseControl

`release`, `environment` and `operation` are the three tables, for one organization
(every query is scoped by `organization_id`). Columns that only describe (names,
hashes, artifacts, audit entries) are left out. Operations are named by their
idempotency key, which is unique per organization; `BranchOf` gives the upstream
branch an operation works on, a release's own or `cloud-<operation id>`. `view` is
the release row each client last read: a command is accepted only if its version
still matches. `worker` is the place of each process in `work()`:

| `pc` | place in `worker.mjs` |
|---|---|
| `started` | locked and marked running, before the first `inspect` (19-43) |
| `missing` | the first `inspect` found nothing, before `upload` / `rollback` (45-47) |
| `issued` | the call answered, before the second `inspect` (48) |
| `found` | a signed receipt is in hand, before its check and the transaction (50-105) |
| `failing` | in the `catch` block (106-116) |

A handler is one action, because it takes the environment's row lock before it
reads what it decides on. The completing transaction is one action: it takes no
environment lock first, but every handler that could overlap it refuses while the
operation is open, and reads that either before the commit or after. The
claim (lock, re-read under the lock, mark running) is one action because the
advisory lock excludes other workers from it and no handler distinguishes pending
from running; the unlocked list it starts from is not part of the state, which makes a
stale list one of the choices the claim already has. `prepare` creates a branch
nobody else reads and is not a step. A refusal writes nothing and is
the absence of the action; so are rate limits and quotas.

The upstream service is external. `served[b]` is the sequence of items sealed on
a branch: `TRUE` the right one, `FALSE` a wrong artifact or an update in the
place of a directive (only where `Genuine` admits it). `timeout[b]` says whether a
call for it was given up on: from then on it may still take effect once (`Land`).
`Abandon` is a process that dies, or whose `catch` block cannot write.

`CallFails` is the way into the `catch` block. At `found` it is the completing transaction that
fails: `tx()` throws if any statement does, and also if the COMMIT took effect and only its answer
is lost (`core.mjs` 86-93). Whether the latter happens is the constant `LostCommits`. `Retain`, the block's
UPDATE, looks at no status; after a lost COMMIT it reopens an operation that succeeded.
With `LostCommits` the promises of release control do not hold (see "Disagreements" below), so the passing
runs set it FALSE and the theorems have `~LostCommits` as a hypothesis.

Statements preceded by "Faulty variant" are not part of any specification. They
are forms of the definition that follows them with a plausible mistake; replacing
the definition by its variant must break a property (`mutants` in `PROJECT.json`),
which is how we know that the property says something about the code.

### EnvironmentPolicy

Three variables: what a device that asks is answered (nothing, the current release,
back to the embedded code), the current release, and the releases that are
retired. An offer is of a release that is not retired and retires the one it
supersedes; a recall retires the current one. `ReleaseControl` maps to it by
`Answer` (directive first, then the head if it distributes) and `Retired` (killed,
rolled back, or paused and no longer head).

### Delivery

`Delivery` extends `ReleaseControl`: a step is one of release control or one of a
device's request. `request` is the request's place in `delivery()` and what it has read:

| `pc` | place in `server.mjs` |
|---|---|
| `read` | the environment row is in hand, the head's release is not read yet (973-992) |
| `eligible` | the release was offered to this device, the grant is not written yet (1004) |
| `selected` | a branch is selected, the upstream fetch is under way (1016) |
| `asset` | the release and grant were joined, the fetch is under way (1032) |

No lock and no transaction spans these, so every command, completion and
failure of release control can fall between two of them. `Home` is the environment a device's
headers name, `Bucket` its rollout bucket per release (a hash, hence any
value). `grants` is the table; it only grows. `told` is what the device was last
answered with, `passed` (a history variable) what it moved on from by an answer,
including the release a directive recalls, `holds` the programs it has downloaded.
A device has one request at a time. `Break` is a request that fails, times out or whose answer is
lost. Refusals for form, rate or redirect are the absence of an answer. An
asset is looked up by hash within the environment; it is identified with its release here.

### PortableSession

`fired` records accepted events; queue, evaluation and the action being applied refer to them by
position. The state is the *history* of the events whose assignments it holds, so
"evaluated on the state its predecessors left" can be said exactly. Steps of an
action are assignments or calls of installed callbacks; a callback may fire again
only if `Reentrant`. `Evaluate` and `EvaluationEnds` run on the worker thread,
everything else on the main thread, one task at a time (`MainIdle`). `current` is
`dispatchValue === value`; a rejection on the worker thread reaches the main thread
as a posted refusal (`failed`, then `Refuse`).

### RenderHost

One launched update in one process. `tasks` is the queue of the single worker thread,
`posted` that of the main looper; each runs one task at a time. The worker's coroutines
suspend at two places only, and other tasks run in between: while the failed launch is
recorded (`recording`, the continuation that follows) and until the main thread has run
what `withContext(Dispatchers.Main)` posted. `shown` stands for `mutableValue` and
`dispatchValue`, which are assigned together on the main thread; `evaluating` is the
call into the sandbox, during which the main thread goes on; `frame` a committed
frame on its way through `onFrameCommitted`, with the unsynchronized read of
`rejected` a choice until the fallback is installed. Inputs, results and program text are
abstracted to invocations, and each validation to "accepted or refused". The updater
(Expo, with the patch in `runtime-spike/patches`) is external: it may decline an
acknowledgement or a failure of an emergency launch. One update is launched per
process, so there is no second one to dispatch.

`PortableSession` looks at one session's events and takes the host's refusals from outside;
`RenderHost` is that host and takes the sessions' actions as tasks without a content. They
share no variable besides the dispatched update, which each models for itself.

### Telemetry

The device's `executor` is one thread: `jobs` is what was posted to it, `flush` the batch
the periodic flush blocks on. `prefs` are the preferences in memory (queue, credential,
rollback intent, last remote update), `disk` what of them has been written; `apply()`
writes later (`WriteDisk`), `commit()` at once (`Enroll`). The queue in memory and its
preference change together, so one of them stands for both. `Kill` (and an `Upgrade`) loses memory, tasks and
flush; a request that was given up on (`Timeout`, `Kill`) may be served later (`late`).
`ingest()` is one action, a transaction whose inserts and updates of the installation's row
exclude overlapping ones; where two could still interleave, the unique key aborts one of
them and the device sends it again. An event's `time` is taken when its task runs, from a clock
that may jump; only an activation's is compared with anything, so only activations are given different ones.
Event types are kept apart where something depends on them: an activation, a reported rollback, a rejection
(which `ingest()` refuses unless it names a release, lines 361-369), and all others. A launch is selected or
rejected (`Boot`); the embedded update is launched too, and its rejection is an event of that kind.
The other types that must name a release are only ever reported of one. `ActiveAfterEach` is the installation's row as the loop over a batch goes on. Enrollment
here is only which credential is live and which embedded update is registered. Time limits of events, sizes and rates only refuse and are left out.

### Enrollment, Membership and Tenancy

`tx()` (`core.mjs` 84-97) runs each request as one READ COMMITTED transaction, and these two
handlers do not begin with the one lock that would make them single steps. So each statement
is an action: it sees what is committed, waits for locks of others (`Free`, `locked`,
`Adding`), and what it writes shows at `Commit`. `tx[r].pc` names the statement that has
been executed. PostgreSQL's part is external: exclusive row locks, the wait of an
`INSERT` for another of the same key, the shared lock a foreign key takes on the row it refers
to (which makes an addition of a member wait for `FOR UPDATE` on the organization and the
other way round), and the detector that ends a circle of waiting transactions (three requests
for one installation can form one). `Hosted`
selects whether the quota, and with it the lock on the organization, is there. A request is
used once; a device that retries is another request.

`Tenancy` composes the two and adds what they share, the organization's row: the quota's lock waits
for changes of members that hold or share it, those wait for enrollments that do, a new credential, ticket or
audit entry waits for whoever holds it `FOR UPDATE`. Each part alone steps as it does without
the other, only less often (`TenancyIsPassive`), so its theorems hold of both together.

### Operator

`pc[c]` is the place of a run of ops.py, named after the statement it is about to
execute; `plan` is what binding-put has computed from the file it read (126-131),
`candidate` the file beside it. `Put...`, `Backup...` and `Restore...` follow the lines
of `main()`, `backup()` and `restore()`. A failure runs the `finally` block
(`PutAbandon`, `BackupFails`, `RestoreFails`), `Kill` does not. `Valid` is the script that
a one-off Cloud container runs on the candidate: `loadBindings` admits one application per
identity, and xprem must answer every key. It reads the candidate file that is there then.

External, and stated as such in the map: the containers (`up`; Docker restarts a Cloud that exits,
which makes it read the file again, `loaded`), xprem's keys (`live`), publications, which reach
xprem's state, its database and Cloud's database in this order (`Write`), and the operator. The
operator keeps the old key until the new binding is proven, as `DEPLOYMENT.md` demands
(`proven`, the latest replacement was seen to complete), removes a stale candidate,
starts what a failed backup left stopped, and takes a fresh project for a restore. While
`Overlapping` is FALSE one command runs at a time and the operator waits for it.

### Packaging and Candidate

`Packaging` holds pure operators. A build is what Gradle published and resolved
(`Publications`, `Inventory`); `Rendered` is what package() writes for a publication: coordinate,
dependencies of the POM and of the Gradle metadata, archives with the notices. The internal version is
a digest; digests are injective, so a version is modelled as what it is a digest of
(`Digest`). `Wellformed` is validate.py, which looks at the repository only; `Accepted`
and `ForJitPack` are jitpack.py. POM dependencies may lack a version, which the resolved graph
supplies (`Resolved`); metadata dependencies are mapped but never completed.

`Candidate` has stages and exports. A repository is named by what it was packaged from,
and the checksum manifest (`sums`) by the repository it lists, so that a manifest, an audit or a receipt
that belongs to earlier files can be told from the present ones. `Package` is one action although
it writes for minutes, since nobody else works on the stage (`Unattended`); `PackagePartly` is
its end in the middle. The export is three steps: checks under the lock (with the ledger
as it was read), the signed bundle, the ledger replaced; `SignStops` may come between. Receipt and
manifest are read at the moments the code reads them: consumer.py validates first
and binds the receipt to whatever manifest is there at its end (97). That the manifest is another by then
is excluded by `Unattended`; what the run and the proof show about receipts is that one left by an earlier
packaging of a stage is not taken for the present one's. `SignChecks` compares a coordinate's whole file
tree with the ledger where sign.py compares the file names that both have: builds that differ in which
files a coordinate has would pass there if the common ones agree, and no build here does.

### Gate

`step[j]` is the place of a job in `run()`: the steps it takes inside the `try` block
(183-302), `failing` (the handler, 303-313), `cleaning` (314-321). `outcome` is what the suites really did,
`fresh` and `kept` are the reports a later step can still find, `out` the evidence directory. `trouble` is a history
variable: something really went wrong. Readers of reports are modelled by what they ask of each
test (`GoSuite`, `PlainSuite`): "cut" is a test that started and never ended. `Interrupt` is SIGTERM
between two steps: the handler raises, so the job goes on in its handler, and the acceptance
(a process of its own) removes its deployments before, unless that is what was interrupted or it takes longer
than the 60 seconds `command()` waits. `Lose` is a machine that vanishes. Failures of single steps that
lead to the same handler are one action. An upload does not fail by itself: a job that failed because of its upload, after
it had passed, counts like a machine that was lost before (`Lose`), since either way it did not pass and left nothing.

The workflows are part of it: `Upload` stores the evidence under the number of the attempt, `Combine` requires that
the matrix succeeded and that each job left a receipt under this attempt, `Rerun` repeats all jobs or the
failed ones, `Sign` takes the candidate of the attempt. All is of one commit, which every receipt names and
combine.py compares.

## Runs

| run | question | bounds | result |
|---|---|---|---|
| `release_control` | safety and retries of release control; do tables, handlers and workers implement the delivery policy; is every operation carried out? | 1 environment, 2 releases, 3 operations, 2 workers, 100%, versions to 4, 2 sealed items a branch, 1 fault, right and wrong artifacts, no symmetry | holds |
| `release_control_lost_commit` | are retirements final if the answer to a COMMIT can be lost? | 1 release, 2 operations, 2 workers, 1 fault | violated, see below |
| `delivery` | what a device is offered and never taken back to; does the policy reach it, do downloads finish? | 1 device, 1 environment, 2 releases, 2 operations, 1 worker, 50% and 100%, versions to 4, 1 broken request, no worker failures | holds |
| `portable_session` | order, exactly-once and wakeups of a session | 5 action shapes, 4 events, no re-entry | holds |
| `portable_session_reentrant` | the same order with re-entrant callbacks | 3 events | violated, see below |
| `render_host` | lookups, rejections and frames across two threads; does every wait end? | 4 invocations, budget 3 with 2 pending, 1 action, 1 refusal, remote or embedded, no symmetry | holds |
| `telemetry` | what the queue may lose, what the ingest makes of disorder, what survives deaths; does the queue drain? | 1 release, 2 APK versions, 2 events, queue 2, batch 2, 2 times, 1 directive, 2 enrollments, 1 fault | holds |
| `tenancy` | tickets, credentials and quota; the last owner and the audit log, under overlap | 3 enrollments, 3 tickets of 2 environments, 2 installations, quota 1, hosted or not; 3 changes of 3 users with 2 roles; 3 of both together | holds |
| `operator` | bindings, keys, backup and restore, with failures and kills | 3 commands, one at a time, 1 application, 2 identities with 2 keys, 1 publication | holds |
| `operator_overlap` | the same identity when two binding-put overlap | 2 commands, 1 key | violated, see below |
| `candidate` | what is signed, and what coordinates stand for | 2 stages, 2 exports, 7 builds, with and without a developer | holds |
| `gate` | what is signed, what receipts say, and do jobs in order pass? | 3 jobs, 6 outcomes of 3 tests, 2 attempts, 2 stops or lost machines | holds |

Why the bounds suffice: a head switch needs two releases of one environment, and a
directive after it a third operation; two workers compete for a lock; version 4 admits
rollout, pause, resume and a directive of one release; one fault already gives a late
upload, a crash or a lost answer, and a second sealed item its duplicate. In the delivery run
the device's bucket is 4999 for one release and 5000 for the other, so that 50% just
includes it in one cohort and just excludes it from the other; the race is between one
request and the tables, and devices do not see each other, so one device suffices;
worker failures are left to `release_control`, whose invariants they do not break. A second
environment only matters where rows of one could be confused with the other's: that
is left to the proofs, which hold for any number. One client suffices for stale reads: it keeps its
view while workers write, and each command leaves its own view stale.

`tenancy` looks at all three changes of members, or at all three tickets and enrollments, and at up to three of
both kinds together (`MaxMixed`): the composition adds only that one waits for the other's lock on one row, and
one of each shows that. Of the roles, Owner and one other suffice, since the code only asks whether a role is Owner.

The telemetry run has as many events as fit the queue plus the report of a rollback, which
overflows it; a rejected launch is two of them. For `operator`, a restore worth the name needs a binding, a backup and the restore: three
commands; what a killed one leaves meets a second and a third. A second application only adds
bindings that a replacement carries along (the proofs cover them). For `candidate`, the builds differ from the first in one payload of
Dootah's, one of Expo's, the resolved graph, a version nobody resolves, a leak and a dependency on what is
not there; conflicts are between two stages or two packagings of one, and two exports. For `gate`, each job has
the outcomes its reader must tell apart (security reads as sdk does, so one is enough for it); two stops interrupt a job in its handler; a second attempt is what could be mixed with the first.
Deadlock is checked in `operator`, where something is always possible; elsewhere bounded keys, versions, events
and exports run out and the system rests. Runs with liveness use no symmetry.

What the properties say is written above each in the modules. In short:

- `OneOpenOperation`, `DistributingIsPolicy`: who may be offered, however commands and
  completions interleave: the head, and nothing against a directive.
- `ConclusionsStand`: what no step undoes, a retirement, a displacement or a success, if a
  completing transaction that seems to fail did.
- `PolicyIsReceipted` (`ReceiptBeforeReady` and `DirectiveIsSigned`): policy changes only on
  a verified receipt, even when a wrong artifact was sealed.
- `MatchingVersionIsCurrent`: the optimistic check is sound although becoming
  `ready` does not advance the version.
- `NoBlindDuplicate`: two items on one branch only after a call timed out. The
  promise of `worker.mjs:107` does not extend to a call that lands after the retry
  looked; the property says so rather than hide it.
- `ImplementsPolicy`: `EnvironmentPolicy` is implemented.
- `OperationsSucceed`: every open operation eventually succeeds, unless a wrong artifact was
  sealed on its branch, which blocks the environment for good.
- `OffersAreCurrent`: the environment is read first and its head's release later;
  when a release is selected it is nevertheless the policy of that moment. What can be
  outdated is an *answer*, by the time it arrives, and a 204 pieced together from a
  head and a later row; neither is claimed to be current.
- `NoReturn`: with all of that, an answer never takes a device back.
- `PolicyReaches`, `DownloadsFinish`: a device that keeps checking is told, and can
  download what it was told of, unless the policy changes or the release is killed.
- `ReadsStateAtItsTurn`, `AppliedOnceInOrder`, `NothingAfterDisposal`,
  `EventsAreApplied`: a session's order, exactly-once, silence and wakeups.

- `RemovedIsCounted`: `flush()` removes as many events as it sent, not the ones it sent; the
  executor makes that the same, and only a full queue drops what was never counted.
- `ActiveIsNewest`: retries, late requests and a jumping clock do not confuse the active release.
- `RollbackSurvivesOnce`: intent and report are never both on disk. A report sent before the
  disk was written can be repeated under a new identity after a death; the metrics count
  installations, and the documentation promises no more.
- `QueueDrains`: every retry ends. It is claimed where each event can be attributed: a
  batch with one that cannot is refused for good and holds up the queue until it overflows. Such are events older
  than seven days, events of an APK version that was replaced, and the `update_rejected` of an embedded
  launch that failed after its id was known (`DootahApplication.kt` 120-157), for which `ingest()` wants a release.
  `docs/reference/telemetry.md` 76-79 concedes that a refused batch "can require ... operational attention".
- `TicketMintsOnce`, `CredentialsAreSound`, `QuotaHolds`: what overlapping enrollments cannot get
  or leave behind, whether or not there was a row to lock when they began. An installation has one
  live credential, and one of its own environment: the environment check can be passed by a request that
  finds no row, and then the foreign key refuses its credential and the ticket stays usable.
- `KeepsOwner`, `AuditTells`: two owners cannot remove each other, and numbers given before commits
  do not make the audit log misleading.
- `EvaluatesInOpenSandbox`: a rejection closes the sandbox at once but is
  recorded and shown later; queued evaluations do not notice the gap.
- `HealthIsHonest`, `FallbackIsFinal`: a launch is failed once, and late frames and late results
  of a replaced update count for nothing.
- `WaitsEnd`: nobody waits in vain, also when the budget of 128 results and 32 pending evaluations (here 3 and 2, so
  that each is the one reached first in some state) is reached.
- `IdentityPreserved`, `KeysInUseAreLive`: an application's signing identity survives everything a single
  operator's commands do or leave half done, and no rotation cuts it off: the file is replaced only
  after its keys were tried, and Cloud must have read it before the old key goes.
- `BackupIsOneCut`, `RestoredIsWhole`: what is copied does not change before the window ends, a
  failed window ends in no backup, and a restore that says it completed did not mix two.
- `BundlesAgree`, `SignedWasConsumed`: the lock makes the ledger's read and replacement one, and
  manifest, audit and receipt are all compared again with the files, so a stage that
  changed in between is not signed.
- `InternalPinsBytes`: the digest covers everything a rehosted artifact's content depends on,
  the notices and the developer among it.
- `JitPackIsClosed`: whatever validates can be mapped, nothing in the result refers to Dootah's own groups any
  more, and each artifact that a dependency named under them is in it.
- `SignsOnlyGated`, `ResultIsTrue`, `NoSpuriousFailure`: no stop, loss or rerun gets an untested
  commit signed; `result.json` is true even of a job that then failed; and no step takes away the reports a
  later one needs.

Each module also has a type invariant, `TypeOK` (`DeliveryTypeOK`, `HostTypeOK`, `SessionTypeOK`); those of
`ReleaseControl`, `Delivery`, `Membership` (`MemberTypeOK`) and `Enrollment` are proved, the others document the state and can be
added to the configurations.

### Disagreements with the documentation

`release_control_lost_commit` shows `TerminalIsForever` violated. The completing transaction of a publication
is committed, but the answer to its COMMIT is lost, so `tx()` throws and the worker enters its `catch` block
(`worker.mjs` 106-111). The release is ready; a client rolls it out and asks to kill it, which is accepted since
no operation is open. Then the block's UPDATE, which looks at no status, sets the publication back to pending.
Another worker completes the kill; a worker finds the update on its branch, completes the publication again, and its UPDATE
sets the killed release to ready. It can then be rolled out again.
`docs/concepts/delivery.md` 92-95 promises that a killed release refuses that. In the same way an environment has
two open operations for a while, and a directive can be carried out again over what was published since.
Without lost answers to COMMIT the promise holds (`release_control`, `ConclusionsStay` for every value of the constants).

`portable_session_reentrant` shows `ReadsStateAtItsTurn` violated: `done()` clears
`running` (`PortableOverride.kt:69`) before it applies the action's steps
(line 72), so an event fired from inside an installed callback is evaluated in the
middle of the action that called it. The comment at lines 42-43 and
`docs/reference/support.md:21` promise the state the earlier events left. Without
re-entrant callbacks the promise holds (`portable_session`).

`operator_overlap` shows `IdentityPreserved` violated: binding-put checks the replacement
against the file it read at line 126, but excludes a second binding-put only from line 132 on, by
creating the candidate, and does not look at the file again before it replaces it at line 140. Two
commands that both read the file before either replaced it pass the check one after
the other, and the later one changes the identity the earlier one installed. `ops.py:130` and
`DEPLOYMENT.md` 283-284 say such a replacement is rejected. With one command at a time the
promise holds (`operator`, and `IdentityKept` for every value of the constants).

### Fairness

`release_control` assumes, for `OperationsSucceed`, weak fairness of each worker's own steps:
`server.mjs` 1196-1207 calls `work()` from a three-second timer, a flag keeps
passes from overlapping, and a pass runs to its end or throws. Nothing is assumed
about clients, failures or late calls; `MaxFaults` makes failures finite. Where the upstream
service sealed a wrong artifact the operation stays open forever, and the property says so. No fairness is needed for
`Abandon`: a restarted process is an idle worker again.

`delivery` assumes that the gateway carries each request to an end (every upstream
call has a timeout), that a device checks on every launch (weak fairness of
`AskManifest`), and that one that is repeatedly able to ask for a program does
(strong fairness of `AskAsset`: a check in between disables it for a while). Lost
requests are finite (`MaxBroken`). Commands are not forced.

`portable_session` assumes weak fairness of the main looper for results and the
steps in progress, of the worker thread for evaluations, and of the posted
refusal after a rejection. Events, disposal and other refusals are not forced.

`render_host` assumes, for `WaitsEnd`, that the worker thread and the updater go on (weak fairness)
and that the main looper serves its queue, which is in order of arrival, so that frames
do not starve it (strong fairness of `RunPosted`). Lookups, refusals and frames are not forced.

`telemetry` assumes that the executor and the server go on (weak fairness), that the
ten-second schedule gets its turn between tasks (strong fairness of `StartFlush`), and that a
device whose credential does not count is enrolled again by its operator or backend, which the
documentation requires (strong fairness of `Enroll` while `Unauthorized`). Lost answers are finite.

The other runs state safety only, and their specifications no fairness.

## Proofs

Every invariant and every action property that a passing run checks is also proved, as is the refinement; what is
left to TLC is liveness. The proofs use the named assumptions about constants alone:

| assumption | says |
|---|---|
| `ConstantsAssumption` | releases and operations are distinct names and not NULL, percentages are percentages |
| `DeliveryAssumption` | a device has a home and a bucket below 10000 |
| `MembershipAssumption` | the creator is a user, Owner a role |
| `EnrollmentAssumption` | a ticket is for an environment; names of rows are distinct and not NULL |
| `TelemetryAssumption` | releases are not embedded updates; NULL is no update and no time, and there is a time; the queue and a batch have a positive size |
| `HostAssumption` | the budgets are positive |
| `SessionAssumption` | an action is a sequence of assignments and calls (`PortableOverride.kt` applies nothing else) |
| `OperatorAssumption` | NULL is no binding, and a database's content is not NULL |
| `PackagingAssumption`, `CandidateAssumption` | a repository has one file tree per coordinate; NULL is no build and no export |
| `GateAssumption` | tests have results; the manifest names no test of the server's Go suites and lets no other suite skip one (`gates.py`) |

The theorems hold for any number of releases, environments, operations, workers, clients, devices, versions and
failures, of events, invocations, requests, tickets, backups, stages and attempts, and for an upstream service that seals
wrong artifacts. Three hypotheses are about what happens to a system, and each is needed, because a run shows a
property violated without it: `~LostCommits` in `ReleaseControlProofs` and `DeliveryProofs`
(`release_control_lost_commit`), `~Overlapping` in `OperatorProofs` (`operator_overlap`) and `~Reentrant` in the four session
theorems of `AndroidProofs` (`portable_session_reentrant`). `DeliveryIsPassive` and `TenancyIsPassive` need none.

| module | theorem | property |
|---|---|---|
| `ReleaseControlProofs` | `Invariance` | the inductive invariant `Inv` |
| | `TypeCorrect` | `TypeOK` |
| | `OneOpen` | `OneOpenOperation` |
| | `DistributingPolicy` | `DistributingIsPolicy`, from `OnlyHead` and `DirectiveSilences` |
| | `ConclusionsStay` | `ConclusionsStand`, from `TerminalForever`, `DisplacedPaused` and `SucceededForever` |
| | `ReceiptFirst` | `ReceiptBeforeReady` |
| | `DirectiveSigned` | `DirectiveIsSigned` |
| | `VersionsAreSound` | `MatchingVersionIsCurrent` |
| | `PolicyReceipted` | `PolicyIsReceipted`, from `ReceiptFirst` and `DirectiveSigned` |
| | `NoBlindDuplicates` | `NoBlindDuplicate` |
| `DeliveryProofs` | `PolicyImplemented` | `ImplementsPolicy` |
| | `DeliveryIsPassive` | `DeliverySpec => Spec` |
| | `DeliveryInvariance` | the inductive invariant `DeliveryInv` |
| | `DeliveryTyped` | `DeliveryTypeOK` |
| | `SelectedServed` | `SelectedIsServed`: nothing is fetched from a branch without content |
| | `NoWayBack` | `NoReturn` |
| | `OffersCurrent` | `OffersAreCurrent` |
| `AndroidProofs` | `HostInvariance` | the inductive invariant `HostInv` |
| | `EvaluatesOpen` | `EvaluatesInOpenSandbox` |
| | `HealthHonest` | `HealthIsHonest` |
| | `FallbackFinal` | `FallbackIsFinal` |
| | `SessionInvariance` | the inductive invariant `SessionInv`, without re-entrant callbacks |
| | `ReadsInTurn` | `ReadsStateAtItsTurn` |
| | `AppliesInOrder` | `AppliedOnceInOrder` |
| | `DisposalFinal` | `NothingAfterDisposal` |
| | `TelemetryInvariance` | the inductive invariant `TelemetryInv` |
| | `RemovedCounted` | `RemovedIsCounted` |
| | `RollbackOnce` | `RollbackSurvivesOnce` |
| | `NewestActive` | `ActiveIsNewest` |
| `EnrollmentProofs` | `EnrollmentInvariance` | the inductive invariant `EInv`, which contains `TypeOK` |
| | `TicketsMintOnce` | `TicketMintsOnce` |
| | `CredentialsSound` | `CredentialsAreSound` |
| | `QuotaKept` | `QuotaHolds` |
| | `TenancyIsPassive` | `TenancySpec => MemberSpec /\ Spec` |
| `MembershipProofs` | `MembershipInvariance` | the inductive invariant `MembershipInv` |
| | `MembershipTyped` | `MemberTypeOK` |
| | `OwnerKept` | `KeepsOwner` |
| | `AuditTellsMembers` | `AuditTells` |
| `OperatorProofs` | `OperatorInvariance` | the inductive invariant `IInv`, if commands do not overlap |
| | `IdentityKept` | `IdentityPreserved` |
| | `KeysStayLive` | `KeysInUseAreLive` |
| | `BackupCuts` | `BackupIsOneCut` |
| | `RestoresWhole` | `RestoredIsWhole` |
| `CandidateProofs` | `BundlesNeverClash` | `BundlesAgree` |
| | `SignedConsumed` | `SignedWasConsumed` |
| | `InternalsPinned` | `InternalPinsBytes` |
| | `JitPackClosed` | `JitPackIsClosed` |
| `GateProofs` | `GateInvariance` | the inductive invariant `GInv` |
| | `SignedIsGated` | `SignsOnlyGated` |
| | `ReceiptsAreTrue` | `ResultIsTrue` |
| | `FailuresAreReal` | `NoSpuriousFailure` |

The properties are not inductive: the completing transaction updates rows without
looking at them. It would revive a killed release (publish completing late) or
retire one that is no longer head. What protects it is what has been true of the
*open operation* all along, and that is what `Inv` adds: a worker past its claim
holds an operation that is running and that no other worker holds
(`WorkersHoldOperations`); an environment has one open operation, so nothing else
changes its rows meanwhile (`OneOpenOperation`); an open publication is of a draft
(`PublicationsAreOfDrafts`) and an open directive of its environment's head, which is
not retired (`DirectivesAreOfHeads`); a head was published before
(`HeadsArePublished`); releases and operations stay where they were placed
(`ReleasesArePlaced`, `OperationsAreOfReleases`); a directive in force has retired the head
it was sent for (`DirectivesRetireHeads`); a receipt in hand was served
(`ReceiptsAreServed`). The proof has lemmas about the row operators (`Moved`,
`Displaced`, ...), one lemma per action, and the theorems combine them.

What `ReleaseControlProofs` says of receipts, versions and duplicates rests on one lemma, `ReleaseWritten`: a step leaves a release's row alone,
creates it, publishes it with a receipt in hand (`Publishes`), or changes it under a
new version (`Controlled`). Receipts follow, because what is sealed stays sealed
(`StaysServed`); so do versions, with the invariant that no client is ahead of a row
(`ViewsAreBehind`). For duplicates the invariant speaks of single branches
(`BranchesAreSingle`): a worker about to issue has seen the branch empty, it alone works on it,
and nothing else seals on it unless a call timed out.

`DeliveryProofs` begins with the refinement. It shows step by step that a rollout and a resume are an `Offer`, a pause a
`Withhold`, a completed directive a `Recall`, and that all other steps leave the
mapped variables alone. It needs one more invariant, `HeadsWereOffered`: a head is
never merely `ready`, so a displaced head is retired.

The rest of it is about values that were read earlier. `Settled` says what stays true of a
release or directive once a device could be told of it, `Over` that it can never
be the policy again; both are preserved by every step of the tables
(`SettledStays`, `OverStays`). `Onward` is what a request keeps from the moment it has
chosen: the chosen branch is not one the device has passed, and what the device was
told before is over. It holds when a request reads the directive
(`DirectiveIsOnward`) or finds its head distributing (`OfferIsOnward`, where
`OfferIsPolicy` makes two reads as good as one), and nothing that happens until the answer
arrives takes it away.

`MembershipProofs` needs to know why a count that was read stays true. A request that has
written is alone with its user (`WritersAreApart`): either it holds the organization alone, or it and
all others that have written are additions of different users, none of them a member yet
(`LockInv`). Hence what was decided holds at the commit (`DecisionInv`), and a number taken for
a user is above all that are committed for the user (`NumberInv`).

`OperatorProofs` assumes `~Overlapping`, without which the first theorem is false. Commands are then alone
(`OneAtATime`), so what a binding-put has built still keeps what the file says (`PlanKeeps`), and so does the
candidate while one holds it (`CandidateKeeps`); a candidate that a killed command left may not, and is never
installed, because it can only be created anew. For the keys, what a container tried stays accepted until the
file is replaced (`TriedIsLive`), and as long as the latest replacement is proven the running Cloud has the file as it is
(`LoadedIsFile`), so that a revoked key is in neither. For the backup, nothing that writes is up inside the window
(`CutInv`): what was copied equals its source.

`CandidateProofs` compares contents by coordinate. All that the ledger holds agrees, with what any completed
export bundled (`LedgerAgrees`); whoever holds the lock read the ledger as it still is (`LockProtects`), and a
packaged repository agrees with itself since artifacts have one publication each. What is signed was consumed because
a consumer tests what its manifest lists as long as it runs (`TestsTheManifest`), receipts name such repositories
(`ReceiptsTell`), and an export compares the files with manifest and receipt (`SignsConsumed`).

`InternalsPinned` and `JitPackClosed` are about pure operators at the moment `Validate` succeeded, and need of the
steps only that a validated stage stays as it is (`SInv`). A version is what it is a digest of, so equal coordinates
mean equal origins, and the rewriting of dependencies is a function of those.

`RestoresWhole` adds what volumes and backups contain. A publication reaches the stores in one order (`StoresInv`); a backup
has its bindings last, so one that has them is complete (`CopiedInv`, `SetInv`, with `CutInv`: the sources did not move
meanwhile); a restore requires such a backup before its first write and sets its mark after the last (`RestoringInv`).

`AndroidProofs`, host: worker and main thread begin with a dialogue in which nothing else can happen (`Starting`,
`Installing`), and after it neither has such a task again (`UnderWay`). From then on a rejection closes the
sandbox first, and everything it leaves queued asks whether it is still current. A rejection that is being
recorded and one that is recorded count together as at most one (`Reported`).

Session: `Taken` events have left the queue, which holds the others in order (`QueueInOrder`). The last one taken is
being evaluated, or its result is being applied, or neither, and each case says what the state holds at that time
(`Evaluating`, `Applying`, `Resting`). `Leaves(n, s)` says that `s` is what the first `n` events have left, as a set of
positions in increasing order rather than by recursion, so that the steps can be proved by comparing sets.
`ApplyEnd` is where re-entrance would break it: the next event is taken only after the last assignment.

Telemetry: `SentIsFirst` is why removing by number is removing what was sent: the executor does nothing else while it waits, so
the batch is still what the queue begins with. `RollbacksCounted` counts queued reports, waiting tasks and the
intent together, in memory and on disk, and shows that each step that makes one uses up another or answers a
new directive; lemmas about counting in a sequence (`CountAppend`, `CountTail`, `CountDrop`) carry it.
`NewestActive` is a proof by induction over a batch: `ActiveAfterEach` is a recursive function, `StepByStep` is
induction up to a bound (stated for a set instead of a predicate, and proved from the least counterexample),
`ActiveAfterEachIs` shows with it that the function exists and satisfies its equation, and `BatchNewest` that each event
leaves the newest of those before it.

`EnrollmentProofs` says of each place in a transaction what its locks protect from then on (`RequestInv`): the place within the
quota since the organization was locked, the ticket since it was, the installation's live credentials since its
row was. Two requests that both hold such a row are the same request. A request that found no row to lock is protected from
the insert on, because an insert of the same key waits for it.

`GateProofs` reads a job's place as a statement about its evidence directory and its trouble (`Written`, `Troubled`):
a suite that was not in order never gets past the verification, even if it was stopped, because the reports that are read then
are those it wrote (`ReportsAreThere`). `WorkflowInv` says that what is stored under the present attempt is what the
job of this attempt left, and that nothing moves once the aggregate job succeeded.

Only model-checked: liveness (`OperationsSucceed`, `PolicyReaches`, `DownloadsFinish`, `EventsAreApplied`, `WaitsEnd`,
`QueueDrains`), which the installed provers do not reach: they know no fairness and no ENABLED. The three
violations are runs by their nature.

## Not modelled

In the modules above: the operator's pause of publications and its race with an
upload; backoff times (`next_attempt_at` only delays a retry); a process that dies
while its COMMIT is in flight and whose commit lands after another worker's claim;
rate limits, which only refuse. Of ops.py, the roles, passwords and grants that bootstrap and
grant-xprem create. Of the release tools, licence evidence, notices, archive layout, class allowlists and GPG:
each ends a tool or does not, which the models allow at those places. Of the gate, what
the suites test, versions and images (a step succeeds or fails), and the GitHub variable that carries the coordinate
ledger from one release to the next, which a maintainer updates by hand.

Stated assumptions, which the tools do not enforce: the operator runs one command at a time (`operator`) and follows
the documented order of a key rotation; the maintainer leaves a stage alone while a tool works on it; SHA-256 is
injective; all jobs of a workflow run have one commit.

Components without a module are listed in `PROJECT.json` with the reason: compilers and
bytecode rewriting, pure presentation, configuration, scripts without a state. Of the hosted policy only
the quota of enrollments is modelled; invitations, the publication quota and traffic counters are each
one lock or one process's counters, and would be the next to take up, with the cohort arithmetic and
the validation of portable programs as functions against reference definitions after them.
