# Verification of dash-selfhosted-image

TLA+ models of the programs in `scripts/` that allocate disposable CI runners and
promote runner images: what they keep on disk, what they do to Docker, GitHub and the
registry, and what becomes of it when a step fails, is repeated, is late or is never
made. TLC checks the models on small instances; TLAPS proves every safety property that the
passing runs check for every instance, in the eight modules `...Proofs.tla`. Paths below are
relative to the repository.

    tlc -workers 2 -config MCCandidateHost.cfg MCCandidateHost      a run
    tlapm CandidateHostProofs.tla                                   proofs

## 1. Inventory

### The parts and how they interact

    GitHub (jobs, registrations, statuses)             registry (tags)
      ^            ^              ^                        ^
      |            |              |                        | copies
      |   candidate_pool.py   release_gateway.py      platform_request.py
      |   (every minute)      (every 2 minutes) --> owner's conversation
      |        |  SSH              |  SSH, RPC back       ^
      |        v                   v                      |
      |   candidate_pool_host.py  release_gateway_host.py |  release_watchdog.py
      |        |  (30 s timer)     |  (offline guard)     +-----(status.json)
      |        v                   v
      |      Docker of a host    release_runner.py  <-- or a service of its own
      +----- candidate_runner.py (legacy service on a host)

| Part | State | Operations | Hard | What makes it correct |
|---|---|---|---|---|
| `candidate_pool_host.py`, host helper | `journal.json`; containers, volumes, JIT files | timer, status, prepare, cleanup(terminal), launch | crash between any two steps; requests repeated, reordered, late | nothing unjournaled; one worker; one allocation per job; a live job is not killed; the slot is given back |
| `candidate_pool.py`, Gateway allocator | `journal.json` (ledger), one record per job | a pass: read hosts, settle records, admit jobs | lost or late POST and launch; crash; stale lists; label-only binding | one registration per job; none leaked; labels unambiguous; every admission settled |
| `release_runner.py`, release allocator | `journal.json`: allocations, attempts | a pass: clean, verify, admit; drain; offline guard | crash; busy leases; unreadable status; retries | slot limit; nothing forgotten; bounded retries; live releases not killed; allocations end |
| `release_gateway.py`, `Broker` | `registrations.json` (receipts) | serve GET, POST, DELETE | crash on either side of the connection | a job is registered once |
| `release_gateway.py` `main`/`host_pass`, `release_gateway_host.py` | two locks on the Gateway, one on the host | pass, bounded wait, SSH, offline guard | SSH lost while the host goes on | one worker on the slot shared with candidates |
| `notifications`/`notify`, `release_watchdog.py` | `notification.json`, `watchdog-notification.json` (receipts), `status.json` | diagnose, decide, hand off, save | hand-off fails or dies around the save; two passes notify at a time; passes that never get the locks | what is wrong is told, not too often, recovery included |
| `platform_request.py` | statuses on GitHub, tags in the registry | plan, check-current, published, resolve-candidate, promote | promotions interleave with merges and each other | only tested images are tagged; no rollback |
| `platform-candidate.yml`, `candidate_reuse.py` | workflow runs, statuses, candidate tags, images | request, find a source, build, push, announce | runs for one head share a tag; what was listed changes before it is used; reuse of reuse | whatever an image was built on was approved |
| `candidate_runner.py`, legacy launcher | tombstones, retries; anonymous volumes | a pass | POST before tombstone; files written in place | what is recorded is found and removed; a waiting worker keeps its registration; limit |
| `candidate_pool_common.py` | none | `atomic_json`, validation of work orders | crash while writing (atomic rename) | a file is old or new |
| `image_contract.py`, `package_candidate_pool.py`, image build, entrypoints | none | validation, packaging, builds | none; sequential | outside TLC's interest |

`PROJECT.json` lists the same parts with their status, and under `hazards` every place
where this code is hard to test, with the properties that cover it or the reason why none
does.

### Conventions of the models

- A file saved by `atomic_json`/`save` (temporary file, fsync, rename) changes in one step.
  All the programs change their journal in memory only to save it at once, so the journal
  on disk is the only one. What a pass holds in memory besides is a variable, and is lost
  when the pass ends.
- A program under an exclusive lock is one program counter: a new invocation starts where
  the old one ended or died.
- Calls over the network are one step when their effect and their answer cannot be told
  apart by another actor, and otherwise several: done, failed, done with the answer lost,
  done later.
- Failures that the environment may cause at any time are bounded (`MaxAborts`,
  `MaxFaults`). That leaves every finite combination of that many failures in every place.
- A definition `X_...` under a comment "Mutant:" differs from `X` by a mistake the code
  might have had. It is part of no specification; replacing `X` by it makes one property
  fail, which shows that the property depends on that detail of the code.

## 2. Modules

### WorkerSlot, CandidateHost, CandidateHostProofs

`CandidateHost` is one host helper. An invocation is `Begin(r)` (lock, journal, request,
start of the cleanup loop; `Timer` is `--cleanup`), then for each record `Spare` or
`Collect`, `RemoveContainer`, `RemoveVolume` twice, `UnlinkJit`, `MarkCleaned`; then
`Report`, or for a launch `Proceed` and `Admit` or `Refuse`, `CreateVolume` twice,
`WriteJit`, `DockerRun`, `Confirm`. `Abort` ends an invocation before any step, `Reboot`
the host; workers exit, jobs end and allocations expire at any time. `prepare` and
`status` change nothing but what cleanup changes, and differ only in their answers. A
worker's job is taken to be its record's: see section 5.

`WorkerSlot` is what the helper promises to whoever allocates on the host: one slot, no
allocation comes back, a job has one, the slot is given back. `CandidateHost` implements
it: `Slot == INSTANCE WorkerSlot WITH slot <- slot, ...`, where `slot` maps a record to
"unused", "held" or "released" (`SlotOf`). `CandidatePool` uses a host as that promise.

### CandidatePool

One pass of `reconcile` in its order: `ReadHosts`, `ListRunners`; for each record `ReadJob`,
`SweepHost`, then `KeepRecord`, `KeepTombstone`, or `RecheckRunner`, `DeleteRunner` and
`CloseRecord`; `Discover`; for each job `SkipJob`, or `ChooseHost`, `Prepare`, `Recheck`,
`JournalJob`, `Post`, `SaveRegistered`, `Launch`, `ConfirmLaunch`. `Abort` and the
`...Fails`/`...Lost` actions are the failures. GitHub, the hosts' timers, dying workers,
late POSTs and late launches run beside the pass. A host operation is one step (`Swept`,
`Launched`), as `CandidateHost` is shown to allow. A host's statuses are read in one step
for all hosts: each record concerns one host, and no decision relates the allocations of
two. What a pass knows of a host is `seen`: nothing of one it could not reach, whose records
it leaves alone (`Reached`), everything of one it could. Each time a pass finds a host
unreachable is one failure. `Disproven` is a job that does not pass its second check after
the pull, with or without blame for the host. A launch whose answer was lost stays in
`launching` and may be carried out at any later time, or never.

### ReleaseRunner

One pass of `release_runner.reconcile`: `Leave` or `Finish` and the cleanup of each
allocation down to `Drop`, `Verify` or `Blocked`, then `Attempt`, `Recheck`,
`CreateVolumes`, `Post`, `Run`, `Confirm`. With `Brokered` the jobs are the Gateway's work
orders (`work`), discovered when the pass began and possibly stale when used, and the POST
goes through `Broker.serve`, which checks the source again (`SourceRefused`) and keeps its
receipts. A POST that fails is `pending`: it takes effect at any later time or never
(`PostLands`); `late` observes the registrations whose POST did so after their cleanup. The
mode "offline" is the guard without API; a drain does what a full pass does whose admission
ends at once. `made` is an observer of the launches.

### SharedSlot, SharedSlotProofs

The lock on the Gateway, the SSH passes of both allocators, their host processes with
their own locks, and the check each makes for the other's containers. `lost` observes
whether a pass ever ended before its host process. The inside of an admission is left to
the two modules above.

### ReleaseAlerts

The notifying end of a pass, after its locks are released: `Diagnose` saves the status,
`Decide` reads the receipt and compares, `Notify` hands the message over, `Save` replaces
the receipt. `Watch` is the watchdog, with a receipt of its own, over the saved status and
its age. Several passes may notify at a time; `Starve` is a time in which no pass gets the
candidate lock, `StatusAges` what then becomes of the status. `told` is what the owner
knows of each program, `lost` whether a message ever arrived without its receipt. A message
lists the first eight alerts only, while its receipt stands for all of them
(`release_gateway.py:257`); the model is of times with no more than that (`MaxListed`).

### Promotion

PRs with their requirements, candidate images, jobs run on them, and promotion runs:
`Resolve`, `Verify`, `CheckJobs`, one `Copy` per tag, `Fail` anywhere. `tip` keeps the
requirements a branch had, so that "older" has a meaning; a tag remembers the version it
was verified against. `overlapped` observes whether two promotions ever ran at a time.

### Publication

What is promoted: the candidate mode of `platform-candidate.yml`, one program counter per
workflow run. `Plan` makes the request, `Discover` lists the runs that succeeded,
`Examine` reads one of them again with the newest status of its head (`Eligible`: the
checks of `find_source`), `Build` makes the image on the source found or on none, `Push`
moves the head's candidate tag, `ReadDigest` reads it back, `PostStatus` announces the
digest. `Bases` of an image are what it was built on, one upon the other. The revision of
the controller is the caller's, so each run has any (`Plan`). Runs fail; runs that failed
or succeeded are repeated, as a whole or the publication alone (`Rerun`); others post
statuses. `crossed` observes the images announced by a run that did not build them.

### LegacyRunner

One process that loops over `reconcile`: `Begin`, `Bury` and `RemoveContainer` for each
dead container, `Bygone`, `KeepBusy`, `FindIdle` and `Delete` for each tombstone,
`SaveTombstones`; then for each job `Skip`, or `Try`, `Post`, `Record`, `Run` and
`SaveSuccess` or `SaveFailure`. `Crash` ends the process at any step. `write_text` truncates
first: a process that dies where it was writing leaves a torn file that has lost what was in
it (`Interrupted`), and every pass that reads it fails. A save that raises is `RecordFails`.
`LaunchFails` is every other failure of a launch, the one after the container runs included.
A worker is identified by its registration's number; its name is the job's, as in the code.
`orphaned` observes the registrations whose making the process never recorded, `astray` the
workers that this pass started in launches that failed afterwards.

## 3. Runs

| Run | Instance | States | Shows |
|---|---|---|---|
| `host` | 3 orders, 2 of them for one job; 2 crashes or reboots | 369,000 | `NothingForgotten`, `SingleWorker`, `OneAllocationPerJob`, `WorkspaceOutlivesWorker`, `NoLiveKill`; implements `WorkerSlot` (`SlotSafety`, and with liveness `SlotSpec`) |
| `pool` | 2 jobs with one label or two, 2 hosts, 2 failures, an unreachable host being one | 1.5 million | `OneRegistrationPerJob`, `OnlyLatePostsLeak`, `OneRunnerPerLabel`, `WorkerAccounted`; every admission `Settles` if passes keep getting the lock |
| `release` | 2 jobs, 1 slot, 2 launches each, 2 failures | 3.0 million | `SlotLimit`, `NothingForgotten`, `AttemptsBounded`, `NoLiveKill` |
| `release_broker` | 1 job, 2 slots, 3 launches, 3 failures | 150,000 | `OneAllocationPerJob`, `BrokeredOnce`; `EveryAllocationEnds` if full passes keep starting |
| `shared` | 2 orders of each kind | 3,700 | `OneWorkerPerKind`; candidates and releases exclude each other while no pass is lost |
| `shared_overlap` | as above | violated | after a lost connection they can overlap |
| `alerts` | 1 reason, 2 passes and the watchdog, 1 failure or overlap | 409,000 | `OwnerUpToDate`, `NoRepeat`, `AlertsArrive` |
| `alerts_recovery` | 2 reasons, 1 pass and the watchdog | violated | a recovery can be owed for ever |
| `promotion` | 2 PRs on the default branch, 1 on another, 2 images, 1 change per branch | 4.8 million | `OnlyTestedImages`, `MainFollowsChannel`, `RollbackOnlyByOverlap` |
| `legacy` | 2 jobs of one label, 1 slot, 2 registrations, 1 failure | 697,000 | `Tracked`, `WorkerLimit`, `IdleKeepsRegistration`; recorded registrations are removed (`RegistrationsEnd`) |
| `publication` | 3 runs, 3 heads, one of a fork, 3 revisions, 3 images, 1 failure, repeated success or foreign status | 10.4 million | `ApprovedBases` |
| `promotion_race` | 2 PRs | violated | overlapping promotions can roll a tag back |

Why these bounds: every conflict in this code is between two actors (two orders for one
slot or one job, two jobs for one label, two kinds for one host, two promotions for one
tag), so two of each and one bystander show it; a failure and a second one while it is
being repaired are the longest chains the code distinguishes, except the release
allocator's three launches, which `release_broker` has. `publication` needs three runs: the
shortest chain in which approvals add up is a reuse of a reuse. `legacy` and `alerts` have
one failure, which already leads to everything a second one would repeat: the files, or the
receipt, of a process that died. Two of these bounds leave something to the proofs. With
the one reason of `alerts`, one set of alerts is followed by another only in the watchdog,
whose own alert comes and goes beside those it reads; and in `publication` all heads have
the same requirements, so that what `ApprovedBases` says of requirements rests on
`BasesAreApproved`. Deadlock is checked in all runs but those of `Promotion`
and `Publication`, whose bounded PRs, runs and images really come to an end, and of
`LegacyRunner`, which a torn file of registrations stops for good.

The three violated runs are the findings of `PROJECT.json`: each quotes the sentence of the
documentation that the code does not keep, and a passing run states beside it what does
hold (`OverlapOnlyAfterLoss`, `AlertsArrive`, `RollbackOnlyByOverlap`). More
properties name an exception, because the code has it: a registration POST that was given
up and takes effect after its record is closed (`OnlyLatePostsLeak`, `NothingForgotten`),
a candidate launch that was given up and is carried out after its record is closed
(`WorkerAccounted`), a registration of the legacy launcher lost between POST and save or
with the file it was in (`Tracked`, `RegistrationsEnd`), legacy workers that run although
their launch failed, which the pass that launched them does not count (`WorkerLimit`), an
image announced by a run that did not build it (`ApprovedBases`), and a tag that several
branches share (`Sole`).

### Fairness

- `CandidateHost`: the timer (`deploy/dash-ci-candidate-pool-cleanup.timer`, every 30 s),
  the steps of a started invocation, and time. Not: requests of the Gateway, GitHub,
  workers that exit, a launch that succeeds.
- `CandidatePool`: started passes go on, a host's timer fires, workers reach their maximal
  age, GitHub fails the jobs of lost workers and frees their leases. Not: jobs that end,
  assignments, late effects.
- `ReleaseRunner`: started passes go on, workers reach their maximal age, GitHub frees the
  leases of lost ones.
- That passes start is assumed in neither: one that finds the candidate lock taken ends, the
  release allocator's after 40 s (`release_gateway.py:286`), and nothing says that a later
  one gets it. It is the condition of `Settles` and of `EveryAllocationEnds`
  (`[]<><<ReadHosts>>_vars`, `[]<><<Begin("full")>>_vars`): they say what becomes of the
  records if it is met, and nothing if it is not.
- `ReleaseAlerts`: both programs are started again and again, what was started goes on, time
  passes. Passes need not get the locks, a problem need not persist, failures are bounded.
- `LegacyRunner`: the process loops (`Restart=on-failure` in
  `deploy/dash-ci-candidates.service`), workers reach their maximal age, GitHub frees the
  leases of lost ones.
- `SharedSlot`, `Promotion` and `Publication` have safety properties only.

## 4. Proofs

Each theorem holds for every value of the constants that satisfies the assumptions of its
module (`ASSUME ... Assumption`), which only say what the constants are: sets of jobs and
orders, a finite set of hosts, bounds that are natural numbers. No theorem has a hypothesis
of its own.

| Component | Theorem | States |
|---|---|---|
| `CandidateHost` | `TypeCorrect` | `Spec => []TypeOK` |
| | `Recoverable` | `Spec => []NothingForgotten` |
| | `OneWorker` | `Spec => []SingleWorker` |
| | `OneAdmissionPerJob` | `Spec => []OneAllocationPerJob` |
| | `WorkspaceLast` | `Spec => []WorkspaceOutlivesWorker` |
| | `LiveWorkerSafe` | `Spec => NoLiveKill` |
| | `ImplementsSlot` | `Spec => SlotSafety` |
| `CandidatePool` | `TypeCorrect` | `Spec => []TypeOK` |
| | `JobsRegisteredOnce` | `Spec => []OneRegistrationPerJob` |
| | `RegistrationsAreVisited` | `Spec => []OnlyLatePostsLeak` |
| | `LabelsAreExclusive` | `Spec => []OneRunnerPerLabel` |
| | `WorkersArePlaced` | `Spec => []WorkerAccounted` |
| `ReleaseRunner` | `TypeCorrect` | `Spec => []TypeOK` |
| | `SlotsAreLimited` | `Spec => []SlotLimit` |
| | `CleanupCompleteness` | `Spec => []NothingForgotten` |
| | `JobsServedOnce` | `Spec => []OneAllocationPerJob` |
| | `AttemptsAreCounted` | `Spec => []AttemptsBounded` |
| | `LiveWorkersSpared` | `Spec => NoLiveKill` |
| | `RegisteredUnderReceipt` | `Spec => BrokeredOnce` |
| `SharedSlot` | `TypeCorrect` | `Spec => []TypeOK` |
| | `OneWorkerEach` | `Spec => []OneWorkerPerKind` |
| | `KindsExclusive` | `Spec => []OverlapOnlyAfterLoss` |
| `ReleaseAlerts` | `TypeCorrect` | `Spec => []TypeOK` |
| | `ReceiptsAreTold` | `Spec => OwnerUpToDate` |
| | `AlertsAreNotRepeated` | `Spec => NoRepeat` |
| `Promotion` | `TypeCorrect` | `Spec => []TypeOK` |
| | `TagsAreTested` | `Spec => []OnlyTestedImages` |
| | `NoRollbackAlone` | `Spec => RollbackOnlyByOverlap` |
| | `MainNeverAhead` | `Spec => []MainFollowsChannel` |
| `Publication` | `TypeCorrect` | `Spec => []TypeOK` |
| | `BasesAreApproved` | `Spec => []ApprovedBases` |
| `LegacyRunner` | `TypeCorrect` | `Spec => []TypeOK` |
| | `RegistrationsAreTracked` | `Spec => []Tracked` |
| | `WorkersAreLimited` | `Spec => WorkerLimit` |
| | `IdleWorkersSpared` | `Spec => IdleKeepsRegistration` |

Hardly any of these invariants is inductive by itself. The strengthening, `IInv` or
`VersionInv`, is in the last section of each module (for the shared host, at the head of
`SharedSlotProofs`) and was checked by TLC on the runs' instances before it was proved. The
proofs are laid out alike: the initial states satisfy it, each action keeps it (`...Step`,
one lemma or step per action), `Invariance` puts that together, and the theorems follow.

**CandidateHost.** `launch` never looks at other records, only at `docker ps -a`. It is safe
because the invocation's own cleanup has left no held record without a container
(`LoopInv`), so an empty list means that no record is held. The rest says what an
invocation knows at each of its steps: which record it works on (`CurInv`), what it has
removed (`CleanInv`), what it has created (`LaunchInv`). `SlotInit`, `SlotStutter`,
`SlotMove` and `SlotStep` show that every step is a step of `WorkerSlot` or leaves the slot
as it is.

**CandidatePool.** Every property here is about something that was read earlier than it is
used. `PostsInv` ties the ledger to the POSTs: no record, no POST; a POST under way has not
registered. `SettleInv` says what a pass may still believe of the list of registrations it
read when it began: what it did not list, or has deleted, is not there or came late. That
is why closing a record is safe (`OnlyLatePostsLeak`). `AdmitInv` says the same of the
second list, read after the pull: until the POST no registration carries the label
(`OneRunnerPerLabel`), since only the pass itself makes registrations that are not late.
`LaunchInv` treats a launch that outlived its pass like a worker. `SightInv` says what a
pass may still believe of the hosts it read: a worker it did not see on a host it reached is
one of a launch that was given up; and it works on records of such hosts only. That is why
closing a record leaves no worker behind it (`WorkerAccounted`). `LeaseInv` is needed
because a job that ends changes a registration: nobody else runs on it. The pass takes the
first job of a set, so the proofs need that a non-empty set of numbers has a least element,
`FirstIn`.

**ReleaseRunner.** `CleanInv` is what a cleanup has verified of the allocation it works on,
`LaunchInv` what a launch has made of it, so that what a crash leaves between any two steps
is covered by the record. `SlotLimit` needs that an admission is only begun with room and
journals once. `ReceiptInv` ties registrations, made or pending, to receipts: that is what
keeps a POST that lands late under the name its receipt had.

**SharedSlot.** `HostInv` says that a host process that has found the host free still has it
free of its own kind, since only that process, under the kind's lock, starts a worker; it
needs nothing of the Gateway, which is why `OneWorkerEach` survives every lost connection.
`GateInv` says that while nothing was lost a host process has a pass that waits for it, a
waiting pass holds the lock, and so the other kind has no process that could start a worker
between the check and the start.

**ReleaseAlerts.** Neither property mentions the receipt, and both rest on it. `ToldInv`:
the receipt says what the owner was last told, except between a hand-off and its save.
`DecisionInv`: what a process is about to save is what it handed over, or is what the
receipt already says. `AloneInv` is why that lasts from the comparison to the save: the
locks are free by then, and only passes that do not overlap have nobody else replace the
receipt in between.

**Promotion.** `RunInv` carries what a promotion verified at its start to its last copy:
a merged PR's requirements no longer change, and an image never does. That gives
`OnlyTestedImages` whatever overlaps. For the order of the copies, `TagInv` bounds a tag by
what its branch has had, and `AloneInv` says that a promotion without company is not behind
any tag it will move. Two different branch names may map to one channel
(`platform_request.py:270`); what one branch calls older means nothing for the other, so
`Advances` and `MainFollowsChannel` speak of tags of a single branch (`Sole`).

**Publication.** `ApprovedBases` is about chains of images of any length, while
`find_source` looks at one link. `LinkInv` is that link: a base is older than what is built
on it, and fits it unless it is crossed. `RunInv` and `StatusInv` carry the approval from
the examination to the build, and from the build through tag, digest and status to the next
examination. That links add up (`ApprovalsAddUp`) is an induction over the images, and so
is the existence of the recursive function `Bases` (`BasesEquation`): both take a least
counterexample, since the induction rules of the library cannot be instantiated here.

**LegacyRunner.** The file of registrations is rewritten as a whole from memory.
`CleanInv` says what memory has of it at each step of the cleanup, `LaunchInv` what a launch
adds: until it is done its job has no other container. `reconcile` counts jobs, the limit is
on workers; `NamesUnique`, which Docker's names keep true, is what makes the one bound the
other (`RoomForOne`). What runs is counted, or was started by this pass in a launch that
failed (`astray`), which the next pass counts again. A torn file is the exception all
through: nothing is known of its contents, and no pass goes beyond it.

Only model-checked, because liveness under fairness is out of the prover's reach: `SlotSpec`
(the liveness of the slot), `Settles`, `EveryAllocationEnds`, `AlertsArrive` and
`RegistrationsEnd`. The three violated properties have TLC's counterexamples.

## 5. Not modelled

- `image_contract.py`, packaging, image builds and entrypoints: sequential, without state
  that outlives a call.
- Resource floors, image contents, trust policy and the shape of work orders: they only
  refuse, and every model lets an admission be refused where the code checks them.
- Plan and dry-run modes: they save nothing that another pass reads but the status.
- Journals with records of an operator or another version, and a resource with a foreign
  owner: the code stops for an operator.
- A `docker run` whose container appears after a later cleanup found none.
- A worker that takes another job of its label (a foreign assignment). Its host cleans it up
  when the job of its record is over, as `docs/gateway-candidate-pool.md:62` says, and
  `NoLiveKill` does not speak for the job it took.
- Alerts beyond the eighth: their receipt says they were told and no message lists them.
- How often a legacy pass exceeds its limit by launches that fail with their worker running
  (`candidate_runner.py:216` is then not reached): `WorkerLimit` leaves those workers out.
- Branch names that share a channel tag, and the reading of listings page by page.

## 6. Plan

Done, in this order: the host and its slot (most of what can go wrong ends there), the
Gateway that relies on it, the release allocator, the shared host, promotion, alerts; the
proofs of the host and of the shared slot; the legacy launcher, publication and reuse,
overlapping passes and the watchdog, work orders and late registrations of releases; the
proofs of all safety properties of the other modules.

Next: abstract specifications of the allocators, as `WorkerSlot` is for the host: what
`ReleaseRunner` and `CandidatePool` promise for a job and its registration, and that every
step of theirs is a step of it.
