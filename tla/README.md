# Verification of gcrunner

gcrunner runs GitHub Actions jobs on Google Compute Engine: a webhook says that
a job is queued, the orchestrator creates one ephemeral VM for it, and the VM
deletes itself after the job. This directory holds TLA+ modules that model the
orchestrator's control, TLC configurations that model-check them on small
instances, and theorems whose proofs TLAPS checks for every value of the
constants.

- [Modules](#modules) and how they correspond to the code
- [Runs](#runs), their bounds and the fairness assumed
- [Proofs](#proofs)
- [Disagreements between code and documentation](#disagreements-between-code-and-documentation)
- [Inventory of the system](#inventory-of-the-system)
- [Plan](#plan)
- [What is not modelled](#what-is-not-modelled)

To check a module: `tlc -workers 2 -config Serial.cfg MCProvisioning`; to check
a proof module: `tlapm ProvisioningProofs.tla`.

## Modules

| module | models | extends / instantiates |
|---|---|---|
| `TaskQueue` | Cloud Tasks as `queue.go` and `terraform/queue.tf` use it: names, delivery, attempts | – |
| `Provisioning` | one job from its queued webhook until it leaves GitHub's queue: `handleWebhook`, `HandleTask`, `handleQueued`, `handleCheck`, `createRunnerVM` and all they call | `TaskQueue`; `Chain == INSTANCE CheckChain` |
| `CheckChain` | abstract specification: what the check tasks of one job promise | – |
| `Replacements` | `Provisioning` with two history variables that count the VMs checks create | `Provisioning` |
| `Rerun` | one execution of a job whose VM was preempted: the preemption half of `handleCompleted`, `rerunWorkflowJob`, `handleRerun`, `deferRerun`, against a run that others finish, cancel and rerun | `TaskQueue`; `Promise == INSTANCE RerunPromise` |
| `RerunPromise` | abstract specification: what is promised of a job whose VM was preempted | – |
| `RunnerPool` | jobs of the same labels and their VMs: `deletionTarget`, `runnerIsBusy` and `deleteRunnerVM` of the completed task while GitHub gives any job to any runner | `TaskQueue` |
| `CacheServer` | the uploads of a cache entry: blocks, commits, direct uploads, up to the object in the bucket | – |
| `MetricsFlush` | the export of metrics: the requests that record and wait, the export loop, SIGTERM and the last flush (`telemetry.go`, `cmd/server/main.go`) | – |
| `SharedFetch` | one key of the caches of config files, run sources, tokens, zones and machine types, with the fetches that requests share | – |
| `RunnerConfig` | labels, presets, the shared config and their precedence, as operators (`labels.go`, `config.go`) | – |
| `Placement` | the choice of machine types and zones, what a refusal means, lifetime, disk and image, as operators (`machines.go`, `vm.go`) | – |
| `Resolution` | one job from its label to its VM: `provisionJob`, `loadRepositoryConfig` and the zone loop of `createRunnerInstance` | `RunnerConfig`, `Placement` |
| `AppSetup` | the setup of the GitHub App, here and with `cmd/setup`, beside the requests that read its credentials; the clients that are made once | – |
| `ProvisioningProofs`, `RerunProofs`, `RunnerPoolProofs`, `CacheServerProofs`, `MetricsFlushProofs`, `SharedFetchProofs`, `ResolutionProofs`, `AppSetupProofs` | the inductive invariants and the theorems | the module of that name (the first `Replacements`, and so `Provisioning`), `TLAPS` and its theorem modules |
| `MCProvisioning`, `MCReplacements`, `MCRerun`, `MCRunnerPool`, `MCCacheServer`, `MCMetricsFlush`, `MCSharedFetch`, `MCResolution`, `MCAppSetup` | small instances for TLC | the module of that name; `MCReplacements` also `MCProvisioning` |

### TaskQueue

A queue is a function from task names to `[state, attempts, count]`, and the
operators are the queue after one operation: `Created` (`CreateTask`, whose
caller looks at `Taken` first, because a taken name is an `AlreadyExists`),
`Dispatched`, `Acknowledged` (a 2xx) and `Failed` (anything else, or no answer:
another attempt while `MaxAttempts` allows it). A name stays taken after its task
is gone, which is what makes the scheduling of the next check idempotent. Cloud Tasks
keeps a name for hours (`webhook.go:761`) and the model for good. The attempts of a task end within about
two hours (`queue.tf:6`), so no repetition outlives the names it relies on; a delivery of the webhook
on a later day, which could use the plain name again, is covered by the windows of `Provisioning`, where it is a
task of the same kind under another name, and left out of `Rerun` and `RunnerPool`. The names of deferred reruns, which carry a second, are freed
by `Rerun` as its clock goes round. The
schedule time and the back-off are abstracted: a due task may be delivered at
any later moment, so every order that some timing produces is covered, and some
that need an extreme one.

### Provisioning

| variable | in the system |
|---|---|
| `job`, `young`, `window` | the job's status on GitHub; whether it was created less than `staleQueued` ago; the `requeueWindow` now |
| `tasks` | the queue: `job-ID-queued` is `Queued(0)`, `job-ID-queued-<window>` is `Queued(window)`, `job-ID-check-<k>` is `Check(k)` |
| `handler` | per worker the request it handles: the next outside call (`pc`), the task, whether the queue still waits for the reply (`live`), and the locals that later calls read (`gone`, `left`, `out`) |
| `vm` | the VM of the job's name in each zone |
| `registration`, `holders` | GitHub's runner of the job's name, and the workers and VMs that hold that very registration (its id, or its JIT config) |
| `ended` | history: why the orchestrator let go of the job |

One action is one outside call with the code around it up to the next one, so
two deliveries interleave between any two calls, a worker dies between any two,
and a value read by one call is stale at the next.

| action | code |
|---|---|
| `Webhook` | `handleWebhook` for `queued`, with `requeue` when the name is taken |
| `Dispatch`, `Reply` | `HandleTask`: which handler, which status code |
| `LeftQueue`, `Resolve`, `FailRun`, `ScheduleFirst` | `handleQueued`, `provisionJob`, `leftQueue`, `checkRunSource`, `resolveJob`, `failRun` |
| `Status`, `FindChecked`, `ScheduleNext` | `handleCheck`, `scheduleCheck` |
| `FindVM`, `FindRunner`, `RemoveRunner`, `Register`, `Insert`, `FindFailed`, `RemoveFailed` | `createRunnerVM`: `findInstanceZone`, `removeIdleRunner`, `generateJITConfig`, the zone loop of `createRunnerInstance`, the clean-up |
| `Assign`, `Finish`, `Stop`, `Vanish`, `RunnerLost`, `JobMoves`, `Clock` | GitHub, the VM and time |
| `Crash`, `Timeout` | the instance is shut down in a request; the queue stops waiting while the request goes on |

Every handler step that makes a call has the disjuncts "it failed and changed
nothing" (`apiError`) and, where it changes something, "it took effect and was
reported failed" (`lostReply`). Two steps need no disjunct of their own for the latter: `RemoveFailed` only logs its
failure, and a cancel in `FailRun` whose answer is lost is its failure followed by `JobMoves`. The constant `Faults` says which of the faults a
run admits, so that a run shows what a property depends on; the proofs hold for
all of them.

The zone loop is abstracted to its control: zones are tried once each in any
order, each turn ends in a VM, `AlreadyExists`, a soft error, a missing machine
type or a fatal error, and the last turn decides between a retry and a
configuration error. The model takes the zones to be configured or listed: when
the zones could only be guessed from the region's name, the code never calls a
missing machine type a configuration error and the model allows one step more
than the code.

Some definitions stand beside a *broken variant* (`NextCountForgotten`,
`FindVMUnwatched`, ...), a plausible mistake in the code it models. No behaviour
uses them: replacing a definition by its broken variant makes TLC find the
property it is named with in `PROJECT.json` violated, which shows that the property depends on
that code.

### CheckChain and Replacements

`CheckChain` is the abstract specification: steps are scheduled one after
another and each once, and the newest carries a count of replacements that grows by
one at a time up to `Reprovisions`. `Provisioning` implements it under
`steps <- Newest, counted <- NewestCount`: the creation of a check task is a
step of the chain and everything else a stutter.

`Replacements` adds to `Provisioning` how many VMs check tasks created
(`replaced`) and how often an attempt at one was repeated (`repeats`), so that
what the payloads count can be compared with what happened.

### Rerun

| variable | in the system |
|---|---|
| `job` | the execution, as the completed event tells it: whether its VM was preempted, and its attempt |
| `run`, `listed` | on GitHub: the run's status, whether it was cancelled, its attempt; whether `filter=latest` still lists this execution (or a copy of it) or a newer one in its place |
| `now` | the second on the orchestrator's clock, modulo `Slots` |
| `tasks` | the queue: `job-ID-completed` is `Completed`, `job-ID-rerun-<second>` is `Deferred(t)` |
| `handler` | as in `Provisioning`; the locals are the attempt the job was listed with (`seen`) and whether a rerun is to be scheduled after the VM is deleted (`deferred`) |
| `asked`, `ended` | history: the attempts that our reruns began, and why a rerun was given up |

| action | code |
|---|---|
| `Webhook`, `Dispatch`, `Reply` | `handleWebhook` for `completed`, `HandleTask` |
| `Preemption` | `rerunIfPreempted` up to `rerunWorkflowJob`, with `instancePreempted` as its answer |
| `List`, `FetchRun`, `Post`, `ListAgain` | `rerunWorkflowJob`: `listedJob`, the run's status, the rerun call, and the second look after a refusal |
| `Delete`, `Defer` | the rest of `handleCompleted`; `deferRerun` |
| `RunEnds`, `Cancel`, `PersonReruns` | GitHub and people |
| `Tick` | the clock; the slot of the second that begins is free again, because the name it stands for has never been used |

The execution is identified the way the code does, by its job id and, in later
attempts, by the copies GitHub makes of the jobs a rerun leaves alone; a rerun
of the execution itself ends `listed`. `Slots` bounds the number of seconds
in which deferred tasks are open at the same time: a slot comes round only when the task
deferred in it is finished. Nothing bounds how often a task defers itself.

`RerunPromise` is the abstract specification: it knows nothing of tasks, requests
and retries. The execution is in somebody's hand or not; it can be let go of only when no rerun is
due, is rerun only in a run that is over, not cancelled and below the cap, and
each ground for giving it up has to exist when it is given. `Rerun` implements it under
`inHand <- Pending, grounds <- ended`, where `Pending` is that some task of the execution is active.

### RunnerPool

| variable | in the system |
|---|---|
| `job` | each job on GitHub: its status, the name of the runner it was given to (`runner_name`), and which VM of that name it was |
| `vm` | the VM of each name, and the job GitHub has its runner working on, which outlives a VM that is lost until GitHub notices |
| `inserting` | the jobs for which a queued or check task has found the job queued and no VM, and has not inserted one yet |
| `tasks`, `handler` | the completed task of each job, and the requests, as in `Provisioning` |
| `overlooked` | history: the jobs whose VM a search with partial success left out |

`Busy`, `Find` and `Delete` are the calls of `handleCompleted` after the rerun; `Assign`,
`JobEnds`, `Cancel` and `VMGoes` are GitHub and the VM. `Provision` and `Insert`
stand for all of `Provisioning`: what matters here is that a VM can come up after
its job was cancelled, and that a name is used again. A
name is not a VM: `Delete` deletes the VM that has the name when it is called,
which need not be the one that was found.

### CacheServer

| variable | in the system |
|---|---|
| `client` | the client of the action: which phase the save of an entry is in, which blocks were acknowledged, how often each was sent |
| `staging` | requests of each block whose body has not been copied yet (`handleStageBlock` before `AddBlock`) |
| `blocks` | `UploadState.blocks`: the staged blocks in the order in which they arrived |
| `commits` | the commit requests, each with the blocks it took from `UploadState` |
| `puts` | the requests with an entry in one piece, of which several can be on the way |
| `bucket` | the contents of the objects written |
| `mishaps` | history: what happened to the save of an entry (`overlap`, `resent`, `break`) |

`StageBlock` is atomic because the body goes to a file of the request's own and
`AddBlock` is one critical section; `TakeBlocks` (`GetBlocks`) and `WriteCommit`
(`Storage.Write`) are two steps, with blocks and other commits between them.
`DirectUpload` is one step, the end of its `Write`: a repetition can end before the first request does.
The client is external and does what the Azure upload of `actions/cache` does: it starts blocks in
order, up to `Parallel` at a time, or sends a small entry in one piece; it repeats a request whose reply is late, and commits
when every block was acknowledged. `WrittenInPart` is `Storage.Write` with a reader
that fails: `Close` finishes an object of what had been copied.

### MetricsFlush

| variable | in the system |
|---|---|
| `request` | each request: where it stands, and the channel it took from `t.pending` (`flushed`) |
| `recorded` | the requests whose data the instruments hold |
| `dirty` | whether an ask waits in `t.dirty`, which has room for one |
| `pending`, `closed` | the channel in `t.pending`, and how many channels were closed. Channels are numbered in the order in which the loop makes and closes them |
| `loop` | the export loop: its position, the channel it will close (`done`), the data its export carries |
| `server` | the process: serving, draining, in its last flush, down or killed |
| `cut`, `exported`, `dropped` | history: whether the drain was cut short; whose data reached the collector, and whose was in an export that failed |

| action | code |
|---|---|
| `Accept`, `Record`, `TakePending`, `Ask`, `Release`, `GiveUp` | a handler up to its `recordJob` or `recordTask`, and `flushMetrics`: the channel is taken, then the ask is sent or dropped, then the request waits |
| `Receive`, `Swap`, `Collect`, `Close` | one round of `exportLoop`; `Collect` is the moment at which `ForceFlush` reads the instruments |
| `Sigterm`, `Drained`, `ShutdownTelemetry`, `Kill` | `main` and `ShutdownTelemetry`; an instance that is taken away |

Every statement between two synchronisations is a step of its own: a request may take its
channel before, during or after the swap, and ask at any later time.

### SharedFetch

One module for four caches, because they differ in three decisions only: whether a fetch is
shared, whether an entry is stamped before or after the read, and when it is stale. `kind` chooses.

| variable | in the system |
|---|---|
| `kind` | `branch` and `commit`: `ConfigCache.load`, and `commit` also the run source; `token`: the installation token; `catalogue`: `ZoneCache.list`, `MachineTypeCache.list` |
| `now`, `source`, `since`, `up` | the clock; the version of what is fetched, when each version came, and whether the source answers |
| `entry` | the cached value with its stamp: when it was read (`commit`), asked for (`catalogue`), or when it expires (`token`) |
| `request` | each request: when it looked, what was current then, whose fetch it waits for (`on`), and what it got |
| `fetch` | the fetch that a request leads, which goes on when that request's client leaves |

| action | code |
|---|---|
| `Look`, `Begin`, `Join`, `Leave`, `Again` | the look at the map; `group.Do` or `DoChan` as the first and as a later caller; the `select` on the context that only the token cache has; the next request |
| `Answer`, `Finish` | the call to the source returns; the entry is stored and everyone who waits gets the result |
| `Change`, `Outage`, `Recover`, `Tick` | the source and time |

### RunnerConfig, Placement and Resolution

`RunnerConfig` and `Placement` hold the pure part, one operator per function. A value is the
sequence of the parts that its separator makes (`<<4, 16>>` for `4+16`, `<<"n2d", "standard", "2">>`
for a machine type, `<<>>` for an empty value), so that what the code tells apart in a string is
kept and the characters are not. The parts of a label are read as the code reads them, by position and key, and
the last part of a key wins (`PartsFor`, `Given`); the machine type of a zone is the member of its catalogue
that no other undercuts (`Fitting`, `Best`), which is what the code's one pass with a best so far ends with. An
error of Compute Engine is the set of the marks that `classifyInsertError` looks for in its text, and "exhausted" for a
zone that is out of capacity, a mark it does not look for.

`Resolution` runs them the way `provisionJob` does, for one job:

| variable | in the system |
|---|---|
| `event`, `pool`, `region`, `catalogue`, `offset` | the inputs: labels, repository and files; `GCRUNNER_ZONES`; the zones of the region; the machine types of each zone; where the rotation of zones stands |
| `pc`, `job`, `config`, `runner` | where it stands; what the label says; the config as read so far; what was resolved |
| `zones`, `guessed`, `tried` | the zones to try and whether they were guessed; what each zone tried was asked for and answered |
| `reason` | why the run was failed |

| action | code |
|---|---|
| `Admit`, `SourceUnknown` | `IsGcrunnerJob`, `parseJobLabels`, `checkRunSource` |
| `LoadOwn`, `LoadBase` | `loadRepositoryConfig` for the repository's file and for the one it extends |
| `Resolve` | `resolve` with its three configuration errors |
| `PinnedZones`, `PoolZones`, `RegionZones` | which zones: the job's, the pool's, the region's or a guess; rotated |
| `Unlisted`, `Unmatched`, `Insert`, `GiveUp` | one turn of the zone loop, and its end |

A catalogue is a function from the zones that exist. A job may name one that does not: its types cannot be listed, and
an insert there neither creates a VM nor says that the machine type is missing, so no run is failed for it. `InsertErrors` are the ways in which Compute Engine may refuse, and any zone
may answer in any of them, one that lacks the machine type too: the quota, a permission or the connection can fail first. Only
that a type is not there is said nowhere but in a zone that lacks it, and only a zone that has it creates the VM.
`ResolutionAssumption` says what the inputs look like: a value that is read as a number is a sequence of
numbers (those of no use among them), that of `zone` one of names, and a zone lists each machine type once. It
also states that the zones of `GCRUNNER_ZONES` are a sequence of names, which the definition of
`configuredZones` gives by a `SelectSeq` that the provers cannot look into; TLC evaluates it.

The properties do not use the operators that they are about. What a job asks for is defined
a second time, from the documented precedence (`Selected`, `Wanted`, `Accepts`), and compared with
the machine types, images and lifetimes that come out of the code's merging of maps.

### AppSetup

| variable | in the system |
|---|---|
| `kind` | `cloud`: `/setup` of the orchestrator, `local`: the tool of `cmd/setup` |
| `app`, `late` | what GitHub knows of each App, and those whose signed state is more than an hour old |
| `secret` | the latest version of each credential, as the App it is of: three secrets, or `.env` and `private-key.pem` |
| `callback` | the requests to the callback: position, credentials to write (`todo`), whether another was writing at the same time (`alone`), whether a write was lost |
| `smClient`, `ctClient` | the clients behind a `sync.Once`, and the error of their creation if it is kept |
| `jwt` | the signing of a token: the App of the id and of the key that were read |
| `last`, `started`, `nilUsed` | history: the callback that began to write last, the Apps whose credentials were given out, the clients used while nil |

| action | code |
|---|---|
| `OpenPage`, `Verify`, `Convert`, `ConvertFails`, `Write`, `WriteFails` | `handleSetup`, `handleSetupCallback` and the callback of `cmd/setup`; the secrets are written in the order of a Go map, which is any order |
| `CreateApp`, `Late`, `Redirect`, `Crash` | GitHub, the user and the instance |
| `ReadId`, `ReadKey`, `Signed`, `Webhook` | `generateAppJWT`; the secret and the client that `handleWebhook` needs |

## Runs

| run | configuration | checks |
|---|---|---|
| `chain` | 2 workers, 1 zone, crashes, replies late or lost, partial searches; 2 attempts, 2 steps | `TypeOK`, `ReplacementsCounted`, `QueuedJobWatched`, `ChainSpec` |
| `serial` | 1 worker, 2 zones, crashes, failed calls, refusals, late replies, redeliveries; 2 attempts, 2 steps, 2 windows | `OneVM`, `VMKeepsRegistration` |
| `served` | 1 worker, 1 zone, crashes, failed calls, the job goes back to waiting; 2 attempts, 4 steps | `OneChain`, `QueuedJobGetsRunner` (liveness) |
| `rerun` | 2 workers, requests that overlap, lost replies, refusals; 2 attempts, cap 3, 2 slots | `RerunOnce`, `PreemptionRemembered`, `RerunDeserved`, `PromiseKept` |
| `rerun_served` | 1 worker, crashes, failed calls, partial lists; 2 attempts, cap 3, 3 slots | `PreemptedIsRerun` (liveness) |
| `pool` | 2 jobs, 2 workers, every fault; 2 attempts, 2 VMs of a name | `CompletedVMGone`, `NoIdleLeftover`, `KillsExplained` |
| `cache` | 1 entry of 3 blocks, 2 at a time, each request sent at most twice, every fault | `StoredWhole`, `StoredComplete`, `SavedIsComplete`, `SavedIsFinal` |
| `metrics` | 3 requests, every fault | `TypeOK`, `ReleasedCarried`, `NothingLeftBehind`, `AskAnswered` (liveness) |
| `fetch` | every kind of cache, 2 requests again and again, every fault; entries kept for 2, tokens living for 3 with a margin of 1, fetches of at most 1, 3 units of time, 2 versions | `TypeOK`, `CatalogueFresh`, `BranchFresh`, `FailureObserved`, `TokenOutlives`, `Answered` (liveness) |
| `resolution` | every combination of the settings that pick a machine on the job and in the presets of two files, 3 catalogues, 2 pools, every answer of every zone | `TypeOK`, `MachineHonoured`, `SmallestFitting`, `ConfigurationError`, `HeldOnlyIfUndefined`, `SettingsHonoured`, `EveryZoneTried` |
| `setup` | 2 Apps, 2 callbacks, here and local, every fault | `SavedIsWhole`, `SignedWhole`, `NoNilClient` |
| `two_vms` | 2 workers, 2 zones, redeliveries | `OneVM` is violated |

What they show:

- **`chain`** – a request the queue gave up on keeps running beside its
  repetition, requests die, and calls take effect without an answer. Still no queued job is
  forgotten: until it leaves the queue, a handler decides to let go of it, or a
  task runs out of attempts, some task for it is due or being handled. No
  interleaving schedules anything but the next link of the chain. And a job is replaced
  at most as often as its newest payload counts plus once per repeated attempt at a check: this is
  the exact sense in which the cap holds.
- **`serial`** – one request at a time and no lost reply are sufficient for a
  job to have one VM, and for a VM that is still to run its job to keep the registration
  it boots with, even when the queue stops waiting for requests and webhooks are redelivered.
  `two_vms` shows that the first condition is needed.
- **`served`** – a job without a VM gets one, again and again, while checks may
  replace it, although it may go back to waiting in between; and its payloads reach the cap and never pass it.
- **`rerun`** – the completed task, its repetition and the tasks that defer one
  another can all ask for a rerun, and people can rerun the run first. Still the
  execution is rerun at most once; at the moment it is rerun the run is over, not
  cancelled, and within the cap although the attempt was read two calls earlier; and
  until it is rerun, or given up for a reason the code states, a task for it is pending.
  `PromiseKept` is the same step by step: no interleaving does anything that `RerunPromise` does not allow.
- **`rerun_served`** – the rerun happens, or is given up, however long the run stays busy.
- **`pool`** – when a completed task is acknowledged the VM that ran the job is gone, and
  a job that never ran leaves no idle VM except one inserted after it
  was over (which the watchdog in the VM ends). The task hits the VM of a running job in
  exactly two windows: the runner was idle when it was looked up and
  got a job before the VM was deleted, or the VM that ran the job was gone already and a
  check had put another of that name in its place. TLC reaches both; without
  the two excuses the property fails.
- **`cache`** – an object in the bucket is the client's entry when no two blocks
  were on the way together, none was sent twice and no body broke off;
  overlapping blocks may change the order and nothing else; a client that was told 201 and sent no
  block twice has all its blocks stored, through lost replies and repeated commits; and from then on the
  object stays as it is, whatever repeated commits and complete direct uploads are still on their way.
  What is left outside is what really goes wrong: blocks stored in the order in which they arrived, an object left
  by a write that broke off, a block repeated after a late first try, and the first of two direct uploads that breaks
  off after the second was answered. The last two also change an object after its save was reported.
- **`metrics`** – whoever is released by its channel, and not by a timer, had its data in an
  export, although the loop swaps channels while others take them and one ask stands for
  many; an ask that is dropped because one waits is answered all the same. A drain that ends in time
  leaves no datum in the process, whoever gave up waiting.
- **`fetch`** – sharing a fetch shares its answer and nothing else: a request fails only if the
  source was down during the very fetch it waited for, never because the request that led it was
  cancelled or an earlier one failed; nobody waits for a leader that has gone. What a request gets was
  current within the lifetime of the entry, and a token can be used for the margin after it is handed out.
- **`resolution`** – whatever label, preset, shared preset and catalogues are combined, the machine
  that a zone is asked for is the smallest it has that the job, by the documented precedence,
  accepts. A run is failed for want of a zone only when no zone has a machine the job accepts, so never when a
  retry could help. A hopeless job goes unfailed only if some zone answered anything but that it lacks the
  machine: then the job is retried until its task is out of attempts. No zone is tried twice or left out before the job is given up.
- **`setup`** – "credentials saved" is true when no other setup was writing beside it, whatever failed setups
  left behind; a token never names one App and is signed by another unless a setup was unfinished while
  it was made; and a client whose creation failed is used in the one place described below.

Bounds. `MaxAttempts` is 2 where the queue has 40: one repeated attempt already
reaches every disagreement found, and an exhausted task. `Reprovisions` is 1 where the
code has 3: the first replacement, the refusal of a second, and a count below
and at the cap. `MaxStep` ends the chain (a check of the last step is never
delivered, which is the one behaviour the bound takes away): 2 steps show a
check that has a predecessor and a successor and one replacement, 4 let `served` reach the cap
and go on beyond it.
`MaxWindow` 2 lets a redelivered webhook be enqueued twice. One zone suffices
where the property is about tasks; two are needed for two VMs, because
Compute Engine itself refuses a second VM of a name in one zone. Workers and zones are
symmetric in the safety runs; the liveness run uses no symmetry (and has one of each).

In `Rerun` the cap is 3 as in the code, because a second rerun of the same execution
would only show when the attempt it begins is still allowed; people take the run to
attempt 3 at most. Two slots let a deferral and its repetition be open together, and
the liveness run has a third for the task that is to come. In `RunnerPool` two jobs run on each other's VM, and two VMs of a name are one
replacement. In `CacheServer` entries share nothing,
so one suffices; three blocks are the fewest with which two can be exchanged after another has been
acknowledged, and two sends of each are one repetition.

In `MetricsFlush` three requests are one whose export runs, one that asks meanwhile, and one
whose ask is dropped. In `SharedFetch` two requests are a leader and one who joins, and both come
back any number of times; three units of time let an entry and a token go stale. In `Resolution` two zones are one that
fails and one that is left; the catalogues hold for every family, count and kind of machine that the settings can
ask for one that fits and one that does not. In `AppSetup` callbacks are used again, so that two still allow any
number of setups one after another; two Apps are the one that is written and the one left over.

Fairness. In `served` and `rerun_served`: a task that is due is delivered
(`WF(\E w : Dispatch(w, n))`), which is Cloud Tasks' promise, and a request that
is not killed runs on to its reply (`WF(HandlerStep(w))`), which Go's scheduler
and the deadlines on every outside call give. `served` asks nothing of
GitHub, of Compute Engine or of the runner; `rerun_served` also assumes that time passes
(`WF(Tick)`) and that a run ends (`WF(RunEnds)`: GitHub ends every run at its
time limit), which the rerun waits for. Crashes may recur for ever up to
the attempts of a task. When workers are never idle fairness of delivery would promise
nothing, but they always become idle again because requests end. In `metrics` the loop's goroutine and
released requests keep running (`WF(LoopStep)`, `WF(Release(r))`): `ForceFlush` has a deadline, and nothing is
asked of the timers with which requests give up. In `fetch` a fetch that was begun ends (`WF(FetchStep(l))`),
because every call to GitHub and Google has a deadline.

Deadlock is not checked in any run: the system comes to rest when every task is
acknowledged, the process is down, the job is placed or given up, or the bound on time is reached.

## Proofs

`ProvisioningProofs` proves, for all workers, zones, faults and bounds that
satisfy `MaxAttemptsAssumption` and `ProvisioningAssumption`:

| theorem | statement |
|---|---|
| `Invariance` | `Spec => []IInv` |
| `TypeCorrect` | `Spec => []TypeOK` |
| `ChainSafe` | `Spec => []OneChain` |
| `JobNeverForgotten` | `Spec => []QueuedJobWatched` |
| `ImplementsChain` | `Spec => ChainSpec`, the refinement of `CheckChain` |
| `ReplacementsAreCounted` | `OneInsertPerAttempt` ⊢ `ReplacementsSpec => []ReplacementsCounted` |
| `AtMostOneVM` | `OneAtATime` ⊢ `Spec => []OneVM` |
| `RegistrationKept` | `OneAtATime` ⊢ `Spec => []VMKeepsRegistration` |

`OneChain` and `QueuedJobWatched` are not inductive: they say nothing of a
request in the middle of its work. `IInv` adds what makes them so: the checks
that exist are `1..k` (so the newest is well defined and a new one extends the
chain); a handler that is past the point where it schedules its successor has
left that successor behind, one about to schedule a replacement knows its count is
below the cap; every task that is done left behind a successor, a reason in
`ended`, or a job that left the queue. The last is what a lost or late reply
must not break, and the reason `QueuedJobWatched` holds under overlap: a
finished task always points to something that outlives it, and following the
chain ends at its newest check, which is not finished or is excused.

The proof that a step preserves `IInv` has one lemma per action; actions that
leave the queue alone share theirs, and so do the failing replies. The
refinement follows from `IInv` and from the one lemma that says how `Newest` and
`NewestCount` move when a check is created.

`ReplacementsCounted` compares a history with a payload, and a worker in the middle of its work has changed one and not
yet the other. `Covered` therefore counts the workers that can still create a VM on behalf of a check (`Replacing`)
beside `replaced`: together they are at most the newest payload's count, the repeated attempts, and one more while
the newest check was delivered and has not scheduled its successor (`Spare`); those whose successor exists (`Settled`)
are covered without it. A first attempt that goes on to replace has its successor count it, and a repeated one was counted
when it was dispatched; `AttemptsCount` says who was ever dispatched. The
hypothesis `OneInsertPerAttempt` says that no reply is lost or there is at most one zone. It is needed: an insert that
took effect and was reported failed lets the zone loop go on to the next zone, so that one attempt creates two VMs, and
TLC finds the property violated with two zones and lost replies. The VM of a name is unique
in a zone, so with one zone the second insert is refused.

`AtMostOneVM` and `RegistrationKept` need `OneAtATime`: one worker, no lost reply, no partial search. The first is
what disagreement 1 shows to be necessary, the second is disagreement 3, and a search that leaves out a zone
finds no VM where there is one. Nothing else is excluded: requests may die at any point, be given up by the queue while they
go on, be repeated and be redelivered, and there may be any number of zones. `SInv` says why it suffices: whoever is
between the search and the outcome found no VM, and none has appeared since, because only that worker could have
created it (`NoneFound`); at the insert the registration is the worker's own and idle (`Registered`), so the VM that
comes up holds it (`UpIsIdle`); and a request that dies there is followed by a search that sees what it left.

`RerunProofs` proves, for all workers, faults, caps and slots that satisfy
`MaxAttemptsAssumption` and `RerunAssumption`:

| theorem | statement |
|---|---|
| `Invariance` | `Spec => []IInv` |
| `TypeCorrect` | `Spec => []TypeOK` |
| `RerunAtMostOnce` | `Spec => []RerunOnce` |
| `NeverForgotten` | `Spec => []PreemptionRemembered` |
| `OnlyDeserved` | `Spec => RerunDeserved` |
| `KeepsPromise` | `Spec => PromiseKept`, the refinement of `RerunPromise` |

Its `IInv` rests on one observation, `ReadsHold`: what a worker read of the run (that
the execution is listed, that the run is over and was not cancelled, that
the attempt is below the cap) still holds while the run is in the
attempt the worker saw, because each of these facts changes only with the attempt.
GitHub accepts a rerun only in that attempt, so an accepted rerun is one that was
deserved, and since it ends `listed` it is the last. `Remembered` strengthens
`PreemptionRemembered`: it asks for a task that is not merely active but whose request has not
already decided to acknowledge it; without this the reply of that request would break it.

`KeepsPromise` takes the steps one by one. A new task takes the execution in hand, or leaves it there; an accepted
`Post` is the `Rerun` of the abstract specification, by `ReadsHold`; the looks at the run give up, on a ground that exists at
that moment, or do nothing; and a request that ends lets go when its task was the last, which `PreemptionRemembered` in the state after it
allows only when no rerun is due, or leaves another task active, or its task is out of attempts (`Exhaust`). It needs one more invariant, `Began`: every task and request follows the completed task, and the run
is never in an earlier attempt than the execution.
The lemmas at the head of the module say once what `Created`, `Dispatched`, `Acknowledged` and
`Failed` do to the task they name and to the others; `RunnerPoolProofs` has them for its queue.

`RunnerPoolProofs` proves, for all jobs, workers, faults, attempts and VMs of a name that satisfy
`MaxAttemptsAssumption` and `RunnerPoolAssumption`:

| theorem | statement |
|---|---|
| `Invariance` | `Spec => []IInv` |
| `TypeCorrect` | `Spec => []TypeOK` |
| `RunnerGone` | `Spec => []CompletedVMGone` |
| `NothingIdle` | `Spec => []NoIdleLeftover` |
| `OnlyTwoWindows` | `Spec => KillsExplained` |

A VM's name is used again, so `IInv` counts the VMs of a name: a VM runs at most one job (`OneJobPerVM`), the VM
that a request found is the one that ran the job or one that came after it (`Stands`), and a request that is about
to acknowledge, like a task that is done, has settled its job (`Settled`). `OnlyTwoWindows` then is a case
distinction on the step that deletes.

`CacheServerProofs` proves, for all entries, blocks, blocks on the way at a time, repetitions and faults that satisfy
`CacheServerAssumption`:

| theorem | statement |
|---|---|
| `Invariance` | `Spec => []IInv` |
| `TypeCorrect` | `Spec => []TypeOK` |
| `StoresWhole` | `Spec => []StoredWhole` |
| `StoresComplete` | `Spec => []StoredComplete` |
| `SavesComplete` | `Spec => []SavedIsComplete` |
| `SavedForGood` | `Spec => SavedIsFinal` |

Here the list of blocks wanders from `UploadState` to a commit and from there to the bucket, and `IInv` follows it. Until a
commit takes the list, it holds every acknowledged block, none twice and none whose body is still on the way
(`Gathering`); afterwards exactly one commit has all of it and nothing is left for another (`Handed`), which
is why a repeated commit cannot write half an entry over a whole one. As a commit goes out only when every block was acknowledged
(`Protocol`), what one takes is complete, and a list of all the blocks with none twice is as long as there are
blocks (`EachOnce`, from the theorems about cardinalities). `Ordered` is the same for the order: with one block on the
way at a time the list is 1, 2, ... and the block on the way is the next one, unless one was lost, and then
no commit goes out. `Apart` keeps the two ways to send an entry from each other: while a direct upload is on the way no commit is,
and once its client was told 201 another request of the entry has ended and written all of it, so that one that breaks off is one of several.
Each conjunct applies to an entry as long as the mishap that breaks it has not happened to it.

`MetricsFlushProofs` proves, for all requests and faults that satisfy `FlushAssumption`:

| theorem | statement |
|---|---|
| `Invariance` | `Spec => []IInv` |
| `TypeCorrect` | `Spec => []TypeOK` |
| `ReleasedOnlyCarried` | `Spec => []ReleasedCarried` |
| `DrainedLeavesNothing` | `Spec => []NothingLeftBehind` |

The heart of `IInv` is `AttachedCarried`: a request that holds a channel has recorded its data before it took it
(`RecordedFirst`), the loop replaces that channel before it collects (`LoopChannel`), and so an export that closes
the channel carries the data. `DrainedReplied` is what `main`'s order, drain first and flush last, gives.

`SharedFetchProofs` proves, for all requests, faults, lifetimes and deadlines that satisfy `FetchAssumption` (entries
are kept for some time, and a token lives longer than the margin and the deadline of a fetch together):

| theorem | statement |
|---|---|
| `Invariance` | `Spec => []IInv` |
| `TypeCorrect` | `Spec => []TypeOK` |
| `TokenLasts` | `Spec => TokenOutlives` |
| `FailsOnlyInOutage` | `Spec => FailureObserved` |
| `EditsShow` | `Spec => BranchFresh` |
| `CatalogueCurrent` | `Spec => CatalogueFresh` |

The properties speak of the step that answers a request; `IInv` says what such an answer can be: one on its
way is of the source as it was after its fetch began (`Answers`), the fetch is within its deadline and has seen every
outage (`Timely`), and what is kept was current when it is stamped (`EntryOK`). That a leader may leave a
token's fetch while it goes on is why `Led` excepts tokens.

`AppSetupProofs` proves, for all Apps, callbacks and faults that satisfy `SetupAssumption`:

| theorem | statement |
|---|---|
| `Invariance` | `Spec => []IInv` |
| `TypeCorrect` | `Spec => []TypeOK` |
| `SavedTheCredentials` | `Spec => []SavedIsWhole` |
| `SignedByOneApp` | `Spec => []SignedWhole` |
| `NilOnlyForgotten` | `Spec => NoNilClient` |

`CleanWrites` is `SavedIsWhole` in the middle of the writing: what a setup that is alone is done with is of its
App. `JwtHolds` says that a token begun after such a setup still reads that App's credentials while no code
was exchanged since, because GitHub gives the credentials of an App out once (`GivenOut`). `ErrorKept` is the
fix that `getSecretManagerClient` has and `getCloudTasksClient` has not.

`ResolutionProofs` proves facts about the operators, for every value of their arguments, and invariants for
all jobs, files, pools, catalogues and errors that satisfy `ResolutionAssumption`:

| theorem | statement |
|---|---|
| `LifetimeCovers` | a VM's lifetime covers the timeout of its job and has an end |
| `MachineIsExact` | a job that names its machine and no family gets that machine, whatever its preset sets |
| `ConstraintIsNoNoOp` | a `cpu` or `ram` on the label takes effect although the preset names a machine |
| `LocalWins` | what the repository's own file defines is never replaced by the shared one |
| `Invariance` | `Spec => []IInv` |
| `TypeCorrect` | `Spec => []TypeOK` |
| `OnlyUndefinedHeld` | `Spec => []HeldOnlyIfUndefined` |
| `NamedMachineOnly` | `Spec => []OnlyNamedAsked` |
| `PlacementInvariance` | `Spec => [](IInv /\ PInv)` |
| `MachineAlwaysHonoured` | `Spec => []MachineHonoured` |
| `AlwaysSmallest` | `Spec => []SmallestFitting` |
| `OnlyHopelessFailed` | `Spec => []ConfigurationError` |
| `SettingsAlwaysHonoured` | `Spec => []SettingsHonoured` |
| `NoZoneLeftOut` | `Spec => []EveryZoneTried` |

Its `IInv` records what each position knows of the files: past `extend` the config is the merge of those
files that could be read (`ConfigOf`), so a runner that is not in it is defined in neither.

The other properties compare the code's merging of maps with the precedence that the documentation states, and need three steps.
`ConfigMeans` and `ResolvedIs` show that the preset the code finds in the merged config is the one that the job selects
(`Selected`), whichever of the two files it comes from. `MachineChoice` takes a job apart by what it and its preset set, in
seven cases, and shows that each comes to one of two: the runner has a machine and that is what the job accepts, or
it has a range and the job accepts what matches it. `TypeChosen` then says of a zone what `ResolveMachineType`
returns: the smallest type that matches, or none when none does. That there is a smallest at all, in a catalogue of any
size, is `HasLeast`, by the library's theorem that the order of the natural numbers is well founded.

`PInv` carries this to the zones. Each answer in `tried` is one that the zone could give (`Answers`: it was asked for the
type chosen for it, and says that it lacks it only when it does), the answers stand in the order of the zones
(`InOrder`), the zones are the candidates rotated (`Placed`; `RotateFacts` says that a rotation loses and
repeats none), and the search ended only for a reason that the code has (`Ended`).

The types of `Rerun`, `RunnerPool`, `CacheServer` and `AppSetup` are proved and not part of a run.

So every safety invariant and action property of a passing run has a theorem. Only model-checked are the four liveness
properties (`QueuedJobGetsRunner`, `PreemptedIsRerun`, `AskAnswered`, `Answered`), as liveness under fairness
is beyond the prover; and what `SelectSeq` does to `GCRUNNER_ZONES`, as its definition is recursive.

## Disagreements between code and documentation

1. **Two VMs for one job** (`two_vms`). `website/content/docs/architecture.md:75`
   says "If GitHub retries a webhook, the duplicate task is rejected, so only one
   VM is ever created per job". A redelivered webhook whose name is taken is
   enqueued again under a name with the time window (`webhook.go:437-451`); the two tasks
   search for the VM before either inserts it, and insert in different zones.
2. **More replacements than the cap.** `webhook.go:600`:
   "reprovisions caps the runners a check creates for one job". `handleCheck`
   schedules the successor first and provisions after; a request that dies
   after the insert is repeated, and replaces again what its successor counted once. This is why
   `ReplacementsCounted` adds the repeated attempts.
3. **A VM whose registration was removed.**
   `vm.go:169-171` promises to leave alone a VM an earlier attempt
   created, and its registration. When the insert took effect and the wait for it
   failed (`vm.go:361`), the clean-up of that same attempt (`vm.go:194`) removes the
   registration; the VM comes up without one and later attempts see a VM and
   stop. The next check that finds it gone replaces it. This is why `serial` admits no lost reply.
4. **Blocks in the order of arrival.** `cache-server/types.go:54`
   says "Store block with its ID for ordering"; `AddBlock` drops the id and appends, and the
   commit does not read the block list in its body. Blocks uploaded in parallel are
   assembled in the order in which they arrived. This is why `StoredWhole` excepts them.
5. **The export that a request waits for** may have begun before the request asked. `telemetry.go:90-92` says that
   it "always waits for an export that begins after its ask and therefore carries what it recorded". Another
   request's ask may have started it between the channel and the ask. It still begins after the data was
   recorded, which is what matters and what `ReleasedCarried` states.
6. **An edit of the config file** "shows up on the next job" (`config.go:250-252`), except for a job that
   joins a fetch in flight; "a workflow ... reads the file once" (`config.go:253-254`), except for a request that
   missed the entry just before a fetch ended and leads another just after. `BranchFresh` has the first
   exception; neither does harm.
7. **Guessing after an unreadable file.** `config.go:47-50` says that a job which depends on an unreadable file
   is "held with that reason rather than guessed at". `resolve` looks at `unreadable` only for a job that selects a
   runner: one that selects an image by a name which that file would have defined gets an image of that name
   from the image project. `HeldOnlyIfUndefined` speaks of runners only.
   "Held" is not what happens to the others either: `configuration.md:57`, `:70` and `:88` say that a job whose runner
   is not defined "stays queued" or is "left queued", and the code fails its commit's check and cancels the run
   (`webhook.go:562-574`). `Resolution` has such a job end in `failed`, with the reason.
8. **A failed Cloud Tasks client.** `getSecretManagerClient` says of keeping only the client that it "used to leave a nil
   client behind" for later callers; `getCloudTasksClient` (`queue.go:21-27`) still does. `NoNilClient` excepts exactly
   this one.
9. **The local setup tool** (`cmd/setup/main.go:141-148`) logs a write that fails and then shows the page that
   says the credentials were saved. `SavedIsWhole` excepts a setup with a lost write.
10. **Which entry a restore key finds.** `cache-server/handlers.go:68` takes the last name that `ListPrefix` returns as
    the "most recently written" one. Cloud Storage lists names in lexicographic order, so it is the
    greatest name instead: `npm-9` wins over a younger `npm-10`. No module has the lookups yet.
11. **Spot without a fallback.** `labels.md:24`, `:82`, `architecture.md:170-180`, `installation.md:104`,
    `README.md:33`, `tutorial.md:135` and `SPEC.md:92`, `:121` say that a job falls back to an on-demand VM when Spot capacity is
    unavailable; the diagram in `architecture.md` tries on demand in the same zone before Spot in the next one, and fails the
    job at the end. `createRunnerInstance` (`vm.go:242-288`) asks each zone once, for what the runner says (`vm.go:457`), and
    a job that found capacity nowhere is retried. `Insert` and `VM` of `Resolution` do the same (a zone may answer
    "exhausted"): `EveryZoneTried` has each zone asked once, and `SettingsHonoured` states only that a job which
    declines Spot does not get it, which is common to code and documents.
12. **A single count of vCPUs or GB** is "at least" that many in the examples of `labels.md:48`, `:60`, `:63` and `:140`, and
    "exactly" that many in its table (`labels.md:73`, `:75`) and in the code. `MachineHonoured` and `SmallestFitting` have it exact.

## Inventory of the system

Paths are below `src/`. "Correct" names the properties that matter.

### Orchestrator (`orchestrator/`)

- **Webhook handler** (`webhook.go:346-451`). Stateless. Verifies the signature,
  drops events and labels that are not its own, enqueues `queued` and `completed`
  under names derived from the job. Hard: GitHub redelivers, on its own and by
  hand. Correct: one task per delivery window, no job lost.
- **Cloud Tasks queue** (`queue.go`, `terraform/queue.tf`). State: tasks, names,
  attempts. At-least-once, unordered, concurrent. Correct: it is used so that a
  repeated or overlapping delivery does no harm.
- **Queued and check tasks** (`webhook.go:464-661`). State only in the payloads
  (`step`, `provisioned`, `name`) and outside. Calls GitHub for the job's status, Compute
  Engine for the VM, the queue for the next check. Hard: every call can fail after
  another took effect; requests overlap and die. Correct: a queued job is never
  forgotten; checks form one chain; replacements are capped; a job has one VM.
- **Runner creation** (`vm.go:163-362`, `github.go:30-79`, `335-410`). Search, remove
  the idle runner left over, register, insert in one zone after another, clean up. Hard:
  none of it is atomic. Correct: a VM that exists keeps the registration it booted with.
- **Zone loop and machine types** (`vm.go:209-332`, `647-673`, `machines.go`,
  `zones.go`). Pure given its caches: which machine type, which zone first, what an
  error means. Correct: configuration errors are told from temporary ones; every
  zone is tried once.
- **Completed task** (`webhook.go:714-745`, `805-810`, `vm.go:540-573`,
  `github.go:369-375`). Deletes the VM of a finished job unless its runner works
  for another. Hard: the runner's state is read before the VM is deleted. Correct:
  a VM is deleted, and never one that runs another job.
- **Rerun after preemption** (`webhook.go:753-799`, `github.go:412-499`,
  `vm.go:505-538`). A failed job whose VM was preempted is run again, at most to
  attempt 3, waiting for the rest of the run in tasks of its own. Hard: GitHub
  refuses while the run goes on; people rerun and cancel meanwhile; the VM that
  proves the preemption must outlive the decision. Correct: one rerun per
  attempt, never past the cap, never of a cancelled run, none forgotten.
- **Labels and repository config** (`labels.go`, `config.go`). A pure function of
  labels and one or two YAML files (`_extends`), with a cache and shared
  fetches. Correct: precedence of label over image over preset over default.
- **Token and run source caches** (`github.go:116-166`, `501-563`). State: maps with
  expiry and `singleflight`. Hard: waiters share one fetch, its error included. Correct:
  an expired or failed value is never served.
- **Metrics** (`telemetry.go`). State: recorded data, one pending export. Requests ask
  a loop for an export and wait for one that began after they asked. Correct: no request
  returns before its data is out; no flush waits for ever; shutdown drains.
- **Setup** (`webhook.go:38-344`, `cmd/setup/main.go`). Writes the App's three secrets one by one behind a signed
  state; the local tool writes two files. Hard: it can fail between secrets, and requests read them one by
  one meanwhile. Correct: it ends with the secrets of one App, and no token mixes two.
- **Server process** (`cmd/server/main.go`). Listens, drains on SIGTERM, flushes.

### Runner VM (`orchestrator/vm.go:29-161`, `images/`)

The startup script starts the cache server and the listener, a watchdog stops a
listener that had no job for too long, and the VM deletes itself. Hard: the
watchdog looks and then kills; the job can start between. Correct: the VM always
ends, never in the middle of a job.

### Cache server (`cache-server/`)

State: entries with staged blocks, in memory; committed objects in a bucket. Uploads
run in parallel. Hard: blocks in the order they arrive; commit takes the blocks
and then writes. Correct: an entry read back is the one uploaded, whole or not at all.

### The rest

Terraform (declarative; `queue.tf` is part of `TaskQueue`), the packer scripts
of the images and the website.

### Interactions

GitHub → webhook handler → queue → task handlers → GitHub REST (job, run, runners,
contents), Compute Engine (instances, operations, zones), the queue again
(checks, reruns). VM → GitHub (listener) and Compute Engine (deletes itself).
Runner job → cache server → bucket. Within the orchestrator there is shared memory
only in the caches, the secret cache and the metrics loop; everything else meets outside.

## Plan

In order of importance; done modules first.

1. `TaskQueue`, `Provisioning`, `CheckChain`, `Replacements`: done, with
   `ProvisioningProofs`.
2. `Rerun`: done, with `RerunProofs`.
3. `RunnerPool`: done, with `RunnerPoolProofs`.
4. `MetricsFlush`: done, with `MetricsFlushProofs`.
5. `RunnerConfig`, `Placement`, `Resolution`: done, with `ResolutionProofs`.
6. `AppSetup`: done, with `AppSetupProofs`.
7. `SharedFetch`: done, with `SharedFetchProofs`.
8. `CacheServer`: uploads done, with `CacheServerProofs`. Left: restore lookups (exact key, then prefixes in
   the order of the restore keys) and downloads beside a rewrite of the object.
9. `RerunPromise`: done, with its refinement. Left: an abstract specification of a job's service that takes `CheckChain` and
   `RerunPromise` together with the life of the VM.

Runs stay few: one passing run per module and question, with small sets of
two jobs, two workers and two or three blocks.

## What is not modelled

- **The runner's startup script** (`vm.go:29-161`) beyond its outcomes (boot, listen, work, delete itself, be lost).
  The hazard in it, a watchdog that looks for a job and stops the listener a moment later, turns on whether
  GitHub can hand a job to a listener that is being stopped: that is decided by the listener's protocol, which is
  not in this repository, and a model of it would be a guess.
- **Cache lookups and downloads** keep no state; they are in the plan.
- **Terraform** other than `queue.tf`, the image scripts and the website have no behaviour that steps or interleaves.
- Within the modules: signatures and JSON are abstracted to accepted or refused; logging and the metrics'
  attributes are left out; time is a set of flags, windows and small clocks, so nothing here says how long anything
  takes. The cost of this is stated where a bound or an abstraction is introduced.

Three hazards stay without a property: the watchdog above; a task that runs out of attempts (`terraform/queue.tf:8`), which
`QueuedJobWatched` has to excuse; and a preemption left out of a partial answer (`vm.go:518`), which carries no
sign of being partial. One is covered in part: a body that broke off (`cache-server/storage.go:37`) really leaves an object in part,
which the properties except; it comes over an entry whose save was reported only if that entry was sent twice in one piece.
