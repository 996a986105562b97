# TLA+ models of multirunner

multirunner runs ephemeral, self-hosted GitHub Actions runners on one host: in containers
(docker, containerd on Windows) or in Windows VMs. This directory holds TLA+ models of it, the
TLC configurations that check them on small instances, and proofs, checked by TLAPS, of the most
important properties for every instance. `PROJECT.json` maps each definition to the source lines
it stands for, and lists the hazards of the code with the properties that would notice them.

Run a configuration with `tlc -config stores.cfg MCStores` (section 3 names the module of each),
a proof with `tlapm ScaleSetLauncher_proofs.tla`.

## 1. Inventory

| Component | State | Operations | What is hard |
|---|---|---|---|
| Scale-set launcher (`internal/scaleset/launcher*.go`, `reconciler.go`) | `running`, `pendingRegistrations`, `pendingExits`, `completions`, `desired`, `stopped`, flags of each `runnerState` | listener callbacks, `launchLocked`, `awaitExit`, `refill`, `finishRunner`, `Shutdown`, `reconcile` | a goroutine per runner, the listener, the reconciler and a shutdown meet on `l.mu` and one `cleanupMu` per runner; a call may fail with or without its effect; crashes |
| Sessions and their supervisor (`session.go`, `supervisor.go`, `cmd/multirunner/scaleset.go`) | the session's phase, failures per level, availability | `RunSupervised`, `Run`, `openSession`, `superviseSession` | retries at two levels, one session failing for good, a session GitHub still holds |
| Token refresher (`internal/ghapp/refresher.go`, `tokenstore.go`, `flock_*.go`) | the pair in memory, `unsaved`, the sidecar, the lock file | `AccessToken`, `retrySave` | processes rotate one credential; a rotation kills every other copy; saves fail |
| Backends (`internal/backend`) | containers, labels, handles | `Launch`, `Wait`, `Kill`, `ListOwnedRunners`, `RemoveOwnedRunner` | lost answers, names against IDs, containers of others |
| Windows VM backend (`internal/winvm/backend.go`) | runner records, overlays, PIDs, QMP ports | `Launch`, handles, `RemoveOwnedRunner`, `CleanupOrphans` | a crash between the files of one runner, PIDs and ports taken over |
| Golden image (`winvm/bake.go`, `housekeeping*.go`) | the disk, its serial log, its metadata | `Bake`, `CheckOnce`, `ApplyRearm`, `ToolsHash`, `prepareVNC` | a bake cut short, a stale log, a fingerprint that misses an input |
| Pools and runners (`internal/pool`, `internal/runner`) | slots, failures, one runner each | `Manager.Run`, `runSlot`, `RunOnce` | failed kills, cancellation anywhere, errors racing a stop |
| Autoscaler, webhook (`internal/autoscale`, `internal/webhook`) | semaphores, the poll's list | `OnQueued`, `reconcile`, `RunJob` | delivery and poll for one job, stale lists, pools bound to a workflow |
| GitHub client (`internal/github`) | the rotation of repositories | registrations, `QueuedWorkflowJobs` | pages and statuses shift under a poll, one repository of several fails |
| Actions cache (`internal/cache`) | uploads, entries, parts on disk | create, PUT, finalize, lookup, download, evict | two-statement checks, retried PUTs, eviction under a download |
| Git mirror (`internal/gitcache`) | mirrors, markers, locks; git's environment | `EnsureMirror`, `Bundle`, `Sweep`, `buildGitEnv`, `AuditFileConfig` | clones and removals cut short, a sweep racing a use, inherited settings |
| Service host (`cmd/multirunner/service_*.go`, `internal/servicehost`) | worker process, failure file | start, stop, `superviseServiceWorker`, `RecordFailure` | a stop racing a failure, nested deadlines, the crash-loop budget over restarts |
| Configuration (`internal/config`) | none | `Load`, `applyDefaults`, `Validate` | clashes that appear only after defaults; limits at the end of their range |
| Orchestrator command (`cmd/multirunner`) | none of its own | `run`, `doctor`, launch requests | validation split over packages, deadlines of the doctor |
| Device login, own App (`internal/ghapp`, `connect.go`) | device code, callbacks, three files | poll loop, callbacks, writes | GitHub's pace, interruption between writes, a page loaded twice |
| Scale-set clients, viewer, setup and build tools | none shared | construction, external commands | section 7 |

How they interact: the service host supervises a worker process, which runs the orchestrator:
fixed pools, or the autoscaler, or one supervised session per scale set. A session makes a
`Launcher`, has it reconcile what an earlier process left, and hands it to the listener of
`actions/scaleset`. Pools and the autoscaler call `RunOnce`. Both ask GitHub for registrations and
a backend for instances; all GitHub clients of a process take their token from one
`TokenRefresher`. Runners use the cache server and the mirrors; VMs boot from the golden image.

What makes them correct: never more runners than the cap, and no runner or registration
forgotten; a live runner keeps its registration; demand is served; stops end and leave nothing;
failures are retried, within bounds; a credential is never lost or rolled back; an archive is whole
and only for those it was granted to; what is on disk is what its record says, at every
crash; what the configuration accepts can be run.

## 2. Modules

| Module | Models |
|---|---|
| `ScaleSetLauncher` | launcher, cleanup, reconciler, and `session.Run` from `New` on, with GitHub, broker and backend as environment |
| `TokenRefresher` | rotation of one credential by several processes |
| `Backend` | abstract: what `Backend`, `RunnerHandle`, `OwnedRunnerStore` promise |
| `ContainerBackend`, `WinVM` | the three backends call by call, each shown to implement `Backend` |
| `RunnerInstance` | `RunOnce`; extended by `RunnerPool` (slots, `Manager`) and `Autoscale` (webhook, poll, semaphore) |
| `QueuedJobPoll` | one `QueuedWorkflowJobs`, request by request |
| `SessionSupervisor`, `ServiceSupervisor` | the two supervisions |
| `CacheStore`, `CacheServer` | the cache: statements and file operations; tokens, scopes and lookups |
| `GitMirror`, `GitEnv` | mirrors and the sweep; environment and files of git |
| `GoldenImage`, `BakePlan`, `BakePorts` | the image over process lives; its inputs and fingerprint; a bake's ports |
| `ConfigLoad`, `LaunchRequest`, `Doctor` | `Load`; from a pool to the daemon's request; the doctor's phases |
| `DeviceLogin`, `OwnApp` | the two ways of `connect` |
| `Backends`, `Orchestrator`, `Stores`, `Setup` | compositions: several components, each with any number of setups, and the properties of a run put together |
| `MCScaleSetLauncher`, `MCTokenRefresher`, `MCBackends`, `MCOrchestrator`, `MCStores`, `MCSetup` | instances for TLC: the values of the constants, and fairness |
| `*_proofs` | inductive invariants and theorems (section 5) |

A definition marked *Mutant* before another one is the form a plausible bug would give it;
`PROJECT.json` pairs each with the property that notices it.

**Several components in a run.** `Orchestrator`, `Stores` and `Setup` put together components that
share no state. A *setup* is a record of values for the constants of one component (its jobs, its
budgets); `PoolSetups`, `ServiceSetups` and so on are sequences of setups, and `Pool(P)`, `Service(P)`
the instances of the component's module for a setup. `at` names the setup a behaviour belongs to, the variables
that are not its own hold `Off`, and variables of one name serve several components. The states explored are
the union of the setups', not their product, and a property is a conjunction over setups of
`at = setup => property`. The MC modules give the setups; the theorems of section 5 are about any
sequences of setups that satisfy the components' assumptions. `Backends` does the same for the container
backends and the VMs, where the idle half keeps its initial values. In `MCScaleSetLauncher`, bounds that
only bind the initial state are varied by a disjunction of initial states (`FaultsSpec`, `ProgressSpec`).

### Correspondence with the code

*ScaleSetLauncher.* `running` with `st` is `l.running` and its `runnerState`s; `pendingRegistrations`,
`pendingExits`, `completions`, `desired`, `stopped` are the fields. `launch`, `fresh`, `left` are the launch
loop that holds `l.mu` across its calls; `MuFree` is `l.mu` not being held so. `lpc`, `ltodo`, `lperm` are
the listener in `HandleDesiredRunnerCount`; `apc`, `outcome` a runner's goroutine; `cpc`, `cowner` the
section under its `cleanupMu`; `spc`, `stodo` `Shutdown`; `sess`, `rpc`, `rtodo`, `rcur`, `rerr` the session and
a reconcile pass. `gauge` is `OnStart` minus `OnStop`. `reg`, `res`, `job` are what is really the case;
`unrecorded` are registrations no process can know. A step is a critical section of `l.mu` or
one external call; merged are acquiring `cleanupMu` with the first section of `finishRunner`, and the
return of `Wait` with its recording. A call takes place, fails, or fails although it took place; a
create may also take place late. Names are drawn in order, which only removes symmetric states.
Exit codes and errors are classes. A cancelled context shows as failing calls and `stopped`.
`Shutdown` may overlap the listener, as the type promises ("safe for concurrent use"). A message may be
lost with its events, because it is acknowledged before the callbacks. `IDFromCreate` is the backend: a
docker handle has the ID once the create was answered, containerd's only a name.

*TokenRefresher.* A pair is a version: `live` the one GitHub accepts, `aged` the newest that is close
to its expiry, `file` the sidecar, `lock` the holder of the flock; `tok`, `unsaved` per process, `pc` where
its `AccessToken` is, `given` the token of its next request.

*Backend, ContainerBackend, WinVM.* `inst` is what exists of a launch, `told` what its caller knows.
The mapping of `ContainerBackend` reads `inst` off the daemon's container and `told` off the caller's phase; a
container another holds the name of is not this launch's. `docker` says which of the two backends it is,
`known` whether the handle has an ID; a create whose answer was given up is `pending` and may be carried out
late. `WinVM` has a step per file of a launch,
so a crash falls between any two; `quits` is a history of who was told to quit for whose record.

*RunnerInstance and its users.* `pc` is where `RunOnce` is, `hurt` a history of the calls that failed;
a worker is a slot of a pool or a token of a semaphore. `RunnerPool` adds `runSlot`, image pulls,
the error channel and `Manager.Run`'s select; `Autoscale` jobs, deliveries, the metadata
goroutines of `OnQueued` and the poll with its rotation. `QueuedJobPoll` moves runs and jobs between
the requests of one poll; a page is the runs of a status with so many newer ones, in descending order, or a part
of the jobs of one run.

*SessionSupervisor.* Both levels of `superviseSession` with their failure counts and back-off, the
scale set, GitHub's message session, and `available`, which `/health` shows. *ServiceSupervisor*: host,
worker, failure file (read, then written; the write may fail), stopper with
its deadlines as the order they fire in, and the manager that starts the host again. Failures and
starts are sets of numbered times, so that two within one tick are two. `RecoveryIsBounded` allows, beyond the
crash-loop budget, a start for each failure that could not be recorded and for each stop: a start
that a stop ended leaves no failure behind.

*CacheStore.* A step per SQL statement and file operation of saves, downloads and `evict`. Clients
give up a PUT and retry while its handler goes on; jobs die. `raced`, `removed`, `promoted` are histories.
*CacheServer* has a request as one step, keys as sequences of segments so that restore keys are prefixes, in
whatever case (`Like`), and is compared with a reference definition of the best entry (`LookupIsBest`).

*GitMirror.* A directory is none, started, partial, full or gutted; git failures, kills and crashes
leave any of them. *GitEnv* varies the inherited variables one at a time; URLs are sequences.

*GoldenImage.* Days pass, the operator edits the configuration, bakes run to any of their ends, writes of the
sidecar and boots of a rearm fail, the process dies. `image` is what is on the disk, `meta` the sidecar, `begun`
a bake that overwrote the one and has not written the other, `mishaps` the rearms that may be unrecorded.
*BakePlan* compares the fingerprint before and after each change of an input with what the guest would be.
*BakePorts* has QEMU's VNC, websocket and QMP listeners and the viewer's, and lets another process take a port
between probe and bind.

*ConfigLoad, LaunchRequest.* Every file, or pool, of a bounded family is an initial state; `Load` and the
request are steps; int64 products wrap (`Wrap`). *Doctor*: the world is fixed, daemons and repositories take
time to answer, deadlines are those of the phases, and the pings share one. *DeviceLogin, OwnApp*: the user,
GitHub and the clock act between the command's steps; `connect` may fail, be interrupted, die and be run again.
In `DeviceLogin` `github` is the host the file names, and a service may rotate the token meanwhile (`lost`: it
put an older one back). In `OwnApp` `key` is the App whose key is in the file, 0 when it is cut, `torn` the run
that cut it; with `FixedPort` the pages of an earlier run's App lead to a later run's server (`Reach`).

## 3. Runs

| Run (module) | Bounds | Shows |
|---|---|---|
| `launcher_demand` (MCScaleSetLauncher) | 3 runners, cap 2, 2 jobs, 1 loss, 1 end | `NoIdleSurplus`: counts, exits and completions in any order start no runner too many; `StoppedCreatesNothing` |
| `launcher_restart` (same) | 2 runners, cap 1, 1 job; 1 fault, 1 pass, 1 end, or 2 faults | the cap over crash and restart, registrations discoverable, an exact gauge, reconcile spares the tracked, shutdown leaves nothing, terminate before release |
| `launcher_progress` (same) | 2 runners, cap 1; 1 fault and 1 end, or 2 jobs undisturbed; fair | demand is served, `Shutdown` ends, cleanups converge |
| `token_rotation` (MCTokenRefresher) | 3 processes, 3 rotations, 2 faults, 1 loss, fair | tokens handed out are live, the sidecar advances, the live pair is kept and saved |
| `backends` (MCBackends) | an owned launch, a pool's, bystanders under their names, 4 lost or late answers; 2 VMs, 2 PIDs, 1 port, 1 crash, 2 faults; fair | refinement of `Backend` by docker, nerdctl and VMs; nobody else harmed but by the cleanup of a failed create; leftovers collected |
| `orchestrator` (MCOrchestrator) | 2 pools; 2 jobs, 2 pools, 2 repositories; 3 workflow runs on 3 pages, or 2 with 3 jobs on 2 pages each; 2 sessions; 4 failures in a window of 3 ticks, 2 stops | `RunsCleanUp`, `LaunchesAreAuthorised`, `PollsAreExact`, `ReturnedIsOver`, `RecoveryIsBounded`, `HealthTellsTruth` |
| `progress` (same) | 2 slots; 2 jobs of 2 repositories, one token, a third repository that is down; 2 sessions; 2 failures; fair | `EachKeepsServing`, `QueuedJobsAreServed`, `FailuresAreRetried`, `StopEnds` |
| `stores` (MCStores) | 2 savers, 1 reader, 2 parts, 2 PUTs, 2 GC ticks; 4 tokens, 3 entries; 2 mirrors, 2 users, 2 faults; 3 indexed variables; 6 days, 2 mishaps; 2 tools | `ArchivesAreWhole`, `AccessIsGranted`, `GitCacheIsSafe`, `RemovalsAreDue`, `GoldenIsMaintained` |
| `setup` (MCSetup) | 3 families of files; 2 daemons that may be slow or hang, 3 repositories two at a time; limits around the largest integer; 5 ports, QMP's among them; 2 logins; 2 Apps, 2 runs | `ConfigIsCoherent`, `VerdictIsSound`, `LaunchesFit`, `ConnectedIsUsable` |
| `launcher_lost_completion` | 3 runners, cap 1, 2 jobs, 1 loss, fair | **violated**: demand is not served |
| `launcher_named_handle` | 2 runners, 1 fault, 1 pass, containerd | **violated**: terminate before release |
| `token_stale_refresh` | 2 processes, no fault | **violated**: a refresh spends a dead token |

Why these bounds. Launcher: a runner that leaves and one that takes its place under a cap of one (three runners
when a lost completion or a surplus is involved), one external failure, and a second of the retry that follows;
a crash or drain leads to a full restart. Tokens: a process one rotation behind needs two processes and two
rotations, a third observes both. Backends: a lost answer of each of create, start, kill and remove of one
launch, and somebody else under each name. Pools: two of them report failures into one channel, and two slots
rotate over two repositories. Autoscaler: a surplus runner in the way of a job needs two jobs of two
repositories and one token. Cache: a race needs two savers of one key, or an archive replaced under a reader;
with two parts an archive can be half written. Sweep and eviction need one entry that is due and one that is
not. Golden image: a rearm, one more that was not recorded, and the rebuild after them. Doctor: two slow daemons
use up the deadline of the pings, one does not. Own App: the second run cuts the key of the first. Service: the
fourth failure with one more tick than the window. Configuration: a clash needs two pools or three repositories;
integers are scaled so that both sides of the limit occur. No run uses symmetry: the launcher's names are drawn
in order instead, and the other sets are small or the run checks liveness.

Deadlock is checked where the system goes on for ever (launcher, tokens, orchestrator). In `backends`,
`stores` and `setup` the callers, the jobs and the commands end.

Fairness. Launcher: weak fairness of each goroutine, which the Go scheduler and the timeouts of the
calls justify; of the listener, whose long polls return, and the reconciler; jobs end, runners exit
after theirs, the broker delivers. Tokens: a process that runs keeps making requests, and the waits of
`AccessToken` are bounded by `lockWait` and `refreshTimeout`. Backends: callers and the periodic
reconciler run, runners end, the daemon removes what it was told to, QEMU boots and heeds a quit,
the service is started again. Orchestrator: every goroutine of a slot, a token or a session goes on, the
poll's ticker ticks, GitHub assigns jobs and releases a session nobody holds, the manager
restarts the host after its delay. Never forced: faults, losses, crashes, stops, deliveries, a
listener that returns without being cancelled.

## 4. Disagreements with what the repository says

With a run that shows the behaviour:

1. *A completion that never arrives starves a job* (`launcher_lost_completion`). `pendingExits` is
   subtracted from GitHub's count until the completion event, or a count of 0. If the event is lost, or
   the runner exits 0 without a job, and another job stays assigned, that job never gets a runner,
   although `launcher.go:165` says that runners are started "until the desired count is met".
2. *A live runner can lose its registration to the reconciler* (`launcher_named_handle`). After a failed
   `nerdctl run` the handle's ID is the container's name; the reconciler compares it with container IDs,
   takes the runner for an orphan and removes the registration first, against `backend.go:261`.
3. *A process one rotation behind cannot refresh* (`token_stale_refresh`). The stored pair is adopted only
   while fresh; when it has aged too, `refresher.go:200` spends the dead token from memory, and goes on
   failing until another process rotates.

Met while modelling, without a run of their own. The models contain these behaviours unless said
otherwise; the properties name them as exceptions or do not claim the opposite:

* `runner/instance.go:142`: after a failed kill the runner is deleted when GitHub says it is idle; a job
  assigned between the two calls is severed, which the comment at `:138` means to exclude
  (`SeveredOnlyIfSeenIdle` says what remains true).
* `autoscale/autoscale.go:150`: a launch is made from a list that may be stale. The surplus runner stays
  idle with its pool's token, which no timeout returns, so with one token another repository's job
  can starve, against the intent of `provider.go:165`. This is the exception that `QueuedJobsAreServed` names
  (`BehindSurplus`). `autoscale.go:58`: `Run` returns without waiting for
  the goroutines that clean up.
* `backend/docker.go:119`: after a failed create the handle has only the name, and `Kill` stops and removes
  whatever holds it, without a look at labels. Runners' names have a random part, so nobody else holds one by
  accident; `BystandersUnharmed` says exactly who can be harmed. `:118`: a create of a pool that is carried out
  after the cleanup leaves a container that never runs and that nobody lists.
* `cache/store.go:415`: SQLite's `LIKE` ignores the case of ASCII letters, so a newer entry whose key differs in
  case may win over the one a restore key means.
* `gitcache/mirror.go:385`: the audit adds a slash to the rewritten URL and compares; git compares characters, so a
  rewrite of a URL that is cut off within the host's name redirects and is not seen.
* `cache/store.go:235`: two jobs may both create an upload of one key, and a finalize of one may promote
  the half-uploaded rows of the other; `:339`: an UPDATE that changed no row is taken for success;
  `:154`: folders of dead uploads count towards the limit and are never evicted; `server.go:536`: a download
  whose folder is removed under it ends like a complete one.
* `servicehost/failures.go:36`: a failure recorded while a stop clears the history writes the old
  failures back.
* `winvm/backend.go:396` removes the serial log that the comment at `:76` says stays.
* `winvm/bake.go:1094`: a bake that fails leaves an unfinished golden beside the metadata of the old one, which
  the next check finds current (`skills/docs/qemu-windows.md:205`); `RecordIsTrue` excepts it (`begun`).
  `housekeeping_run.go:112`: when the boot of a rearm fails after `slmgr` ran, or the sidecar cannot be written,
  the rearm is not recorded. `bake.go:742`: the guest's script is rendered with the Go of the manifest whether
  or not Go is selected, so a release of Go rebuilds goldens without it. `:865`: `--vnc-web` is accepted on
  QMP's port 4455, and then one of the two fails. `cmd/multirunner/main.go:880`: housekeeping runs before the
  runners of an earlier process are reconciled, so a rearm may meet a VM that uses the image (the jobs are not
  in the model).
* `gitcache/mirror.go:105`: a clone that was killed leaves a repository without a marker, which no sweep
  removes and every refresh only fetches.
* `config/config.go:545` defaults to `scaleset`, where `skills/docs/host-configuration.md:18` says `pool`;
  `config.go:713` rejects `scaleset` with `scope: repos`, which `skills/multirunner-github/SKILL.md:81` says loads.
* `cmd/multirunner/main.go:1033`: the pings of all pools share 20 seconds, so that a hung daemon, or several
  slow ones, fail pools that are well, as `skills/docs/cli-reference.md:96` says; `VerdictIsSound` counts the
  slow ones. `:1057`: the hint about reachable daemons is computed under what is left of that deadline.
* `ghapp/tokenstore.go:51`: `connect` replaces the sidecar without the lock a running service refreshes it
  under, and the service may save the rotation of the old login's token over it (`lost`).
* `cmd/multirunner/connect.go:813`: a file that does not decode passes the check of its host.
* `cmd/multirunner/connect.go:321`: a second `connect --own-app` cuts and overwrites the key of the configured App
  before it writes the configuration; if it fails or dies in between, the configuration names an App whose key is
  gone (`KeyIsThere`).
* `ghapp/connect.go:245`: when a page is loaded twice, or a page of an earlier App leads to the same port, the
  key of one App may be paired with the installation of another; `InstallationOfTheApp` is claimed for a run
  that the pages of one App lead to. `:246`: a timeout or an interruption that wins over an installation already
  made fails without naming the App, and the message refers to a printed App ID that was not printed;
  `LateFailuresReport` says that nothing was written then.

## 5. Proofs

`ScaleSetLauncher_proofs`, from `ConstantsAssumption` only (a finite set of names, natural numbers for
cap and budgets, any backend): `Invariance`, that `Inv` always holds, and from it

* `CapacityIsRespected`. Counting slots is not inductive: `SlotInv` says that what is alive has a slot
  and that slots plus launches still to come stay within the cap; `CleanupInv`, that a slot is given back
  only when the process has ended; `StartInv`, that between start and first pass nothing is
  tracked and an error-free pass has everything alive in its hands; `LoopInv`, what `l.mu` protects;
* `ReconcileIsSafe`, from `ReconcileInv`: after the snapshot nothing in the pass is tracked by ID,
  because a runner launched later was not listed (`UnusedInv`: an unused name has no resource);
* `TerminatesBeforeRelease`, for backends like docker: only the runner's own cleanup, which has seen
  the process end, or GitHub releases its registration (`RegistrationInv` for the retries);
* `StoppedIsFinal`: a launch under way excludes `Shutdown`, and none starts afterwards;
* `GaugeIsExact`, from `GaugeInv`: each path through a runner's cleanup reports its stop once, and the cleanup's
  flags say which has;
* `RegistrationsAreFound`, from `FoundInv`: a registration that nobody tracks was given up on by a cleanup
  that left a record, or by a crash before which none could be made;
* `ShutdownIsComplete`, from `QuietInv`: without faults what is alive or registered is tracked, in the hands of a
  goroutine, or on Shutdown's list. The proof corrected the property: a launch that a crash of an
  earlier process interrupted may come into being after the pass that would have listed it;
* `NoRunnerWithoutJob`. The count the launcher acts on may be older than the exits and completions it has seen,
  so "runners without a job ≤ jobs" is not inductive. `DemandInv` names what the count can be too high by: the
  runners whose job is over and whose exit is held back in `pendingExits` or whose completion is not accounted
  (`Late`). It relates four numbers: the jobs GitHub holds, the count in use (`InUse`), the count in a message
  under way together with the completions that arrive with it (`UnderWay`), and the launches a loop has left.
  `Steady` says what a session without faults and ends looks like, where it applies;
* `TypeCorrect`, whose content is that the launch counter never is negative (`AllowedBound`).

`TokenRefresher_proofs`, from `TokenAssumption` (natural bounds, any set of processes):
`HandedOutTokensAreLive`, `SidecarAdvances`, `LivePairIsKept`, `TypeCorrect`. `ClockInv`: only an aged pair is
replaced, so one that is not aged is live. `OwnerInv`: the process that owes the sidecar a pair has a
newer one than the sidecar and everyone else, so its write without the lock is safe.

`Backend_proofs`, from the contract alone, without assumptions: `EndedDoesNotRunAlways` (who is told
that a runner ended may release its registration) and `RunsOnceAlways` (nothing starts after
`Launch` has returned, and nothing twice). They hold for every backend that keeps the contract.

`ContainerBackend_proofs`, from `BackendAssumption` (launches have names of their own and differ from
bystanders; owned ones carry this process's labels): `ImplementsContract`, that every step of both container
backends is a step of the contract or a stutter, and `KilledIsGoneAlways`. The mapping alone is not enough: that
a removal by name or by label hits the right container depends on what each caller phase implies about the
daemon (`PhaseOf`: before its create a launch has no container, a phase that reports an end has none running,
only owned launches keep a dead one), and that only a later process lists (`crashed`). `Inv` collects these;
each step then changes one launch only, which is the lemma the cases share. `OthersStayUnharmed` adds
`OwnNameInv`: once the daemon accepted a launch's name, the name means its own container only, and after an
inspection on containerd nothing else but what is in the way. Names are not assumed to differ: a bystander may
have the name of a launch, and what its cleanup can then do is the exception the theorem states. The hypothesis
`Apart` is about labels alone: nobody else's container carries the scope of this process, which names the host's
instance. A create carried out late is in the contract as an instance that is never live (`MadeLate`), so the
refinement covers it.

`Backends_proofs`, from `WinVMAssumption`: `VMRecordsStaySafe` and the refinement
`VMImplementsContract`. Its `Inv` says for each point of a launch (`LaunchPhase`) and of a removal
(`RemovalPhase`) which of a VM's files and processes can exist, so that a crash at any of them leaves a
record that covers the rest, and that a PID or port taken over by another VM is recognised.

The theorems about the compositions have one assumption each, `OrchestratorAssumption`, `StoresAssumption` or
`SetupAssumption`: that every setup satisfies the assumption of its component (finite sets, natural numbers,
positive page sizes, keys and scopes as sequences, integer permissions). Their invariants (`OrchestratorInv`,
`StoresInv`, `SetupInv`) are conjunctions `at = setup => component invariant`; `OneMoves` shows that a step of
the composition is one of the component at work, under its setup, so that each component is reasoned about by
itself.

`Orchestrator_proofs`:

* `HealthIsTrue`, `WhatReturnsIsOver` for sessions, from `SupervisorInv`: which of scale set, message session,
  launcher and availability each point of `superviseSession` and `Run` has made, for each session by itself;
* `RunsAlwaysCleanUp`, and `WhatReturnsIsOver` for pools: `RunnerInv` gives for each point of `RunOnce` what
  exists of its runner and which failed call explains it; `PoolInv` adds that a name is used by one slot, that a
  slot that is over has no runner, and what the manager has heard from how many slots;
* `LaunchesStayAuthorised`, from `ScalerInv`, which carries the checks of `OnQueued`, of the poll and
  of `RunJob` from where they are made to where the launch uses them;
* `WhatReturnsIsOver` for the service, from `ServiceInv`: a host goes off after its worker ended, as the deadlines
  are nested;
* `RecoveryStaysBounded`. A bound on starts cannot be had from the failure file alone, which is read, written
  and cleared at different steps. `RecoveryInv` keeps a ledger (`Ledger`): in every window that is not over, the
  starts are no more than the failures in the file, the failures that could not be recorded, the stops, and the
  start at work (`Owed`), so the check before the next start sees all but the unrecorded. TLC refuted an earlier
  bound that did not count stops, with two of them;
* `PollsStayExact`, from `PollInv`: what was found and what was reported have no run in common (`Apart`), a page is
  added without the runs seen before (`NotSeen`), and with lists of one page every run that kept its
  status is found, reported, or in a status not listed yet (`Covered`).

`Stores_proofs`:

* `GitCacheStaysSafe`, and the mirrors' part of `RemovalsStayDue`, from `MirrorInv`: who is at work at a
  repository has its lock, and what the sweep removes was stale when it looked again under the lock;
* `ArchivesStayWhole`. That an entry is whole is far from inductive. `StoreInv`: an id is one saver's
  (`OwnInv`), and rows, files and entries are of ids that are somebody's, under the saver's key (`FreshInv`);
  every PUT between its two counts keeps `started` above `finished`, and so does for ever one that ended early
  and left a torn file (`CountInv`, which counts a set of handlers); a part that was answered is on disk
  (`AckInv`); so when the counts agree and no PUT is at work, all parts are whole (`AgreedIsWhole`). From then
  on nothing writes to the upload (`ClosedInv`), it becomes an entry once (`EntryInv`), and its folder is
  removed after its row is gone, by the next save of the key or by the collector (`GoneInv`), which is what a
  download in between relies on (`ReaderInv`). `PromisedInv` adds, without a collector, that the key a finalize
  found a row of keeps one until its own UPDATE: a job that was told its archive is saved has had an entry;
* the cache's part of `RemovalsStayDue`, from `EvictInv`: what `evict` has added up and not yet taken off is
  what is on disk or less. A second save of a key removes the folder of the first behind its back; the claim is
  for keys that are saved once (`KeysDiffer`);
* `AccessStaysGranted`. For the cache, `ServerInv`: entries differ in their numbers and each was saved under a
  valid token with write permission for its scope, so the URL of an entry that was replaced or collected names
  no other one. That a lookup is best (`MatchIsBest`) rests on three facts about any request: the sorted scopes
  are the token's (`ScopesSorted`: the places of a stable sort differ, so all are taken); an entry is in the
  answer of its first query and in no earlier one (`FirstAnswer`); and comparing first queries is comparing keys
  and exactness (`QueryOrder`). For git's environment the slots that are kept are counted (`NthSlot`): the
  child's list is an increasing image of them with the credential at its end (`EnvBuilt`, `EnvSlots`). The
  audit's part goes through the parts of a clone URL that a rewrite can name;
* `GoldenStaysMaintained`, from `GoldenInv`: a marker in the serial log is of the bake under way
  (`MarkerIsFresh`), and each rearm is recorded, being recorded or lost in one of the mishaps
  (`RearmsAreRecorded`). The fingerprint's part is about one step: the tools it lists, normalised, before and
  after each change of an input.

`Setup_proofs`:

* `ConnectionsAreUsable`, from `LoginInv` (which files each point of a login has written, the pace of the polls,
  whose token is in the sidecar and which host the file names) and `OwnInv` (over deaths and new runs: whose key
  is in the file at each point, and which run cut it);
* `ConfiguredLaunchesFit`, from `RequestInv` (the request's integers against the configured ones, for any size
  of the machine's integers and any owners) and `PortsInv` (the ports differ before anybody binds one, QMP's
  port excepted);
* `LoadedConfigsAreCoherent` (`ConfigInv`): from the shape of the files (`FilesHaveShape`), what survives
  defaults and validation, with any names, limits and unit;
* `DoctorIsRight`: `DoctorInv` counts the waves in which a bounded number of workers checks the repositories
  (`WaveInv`): a phase's deadline is long enough for all of them, so only lost answers run into it;
  and it counts what the pools checked so far have taken of the deadline of the pings.

Lists that the proofs are about are written as sets, or as functions of an index: `SelectSeq` and most of
`SequencesExt` are recursive, and what a recursive definition computes for every input is beyond the provers. So
the sort of the cache's scopes gives each scope its place, the number of scopes that come no later, and the loop
of `buildGitEnv` the slots it keeps and the n-th of them. The two facts of counting behind them are
`LeastNumber` and `Places`.

Only model-checked: liveness and fairness, out of the prover's reach. These are `DemandServedUndisturbed`,
`ShutdownCompletes`, `CleanupConverges`, `EventuallySaved`, `LeftoversAreCollected` and the properties of
`progress`. Every invariant and every action property of the passing runs is stated by a theorem.

## 6. Limits of the models

* A lost call takes effect before its error or not at all, except a create in `ScaleSetLauncher` and
  `ContainerBackend`, which may come late.
* Containers of others exist from the start, under the names of launches or not.
* A container created but not started whose one `Kill` failed may stay (docker); one of a pool left
  by a crash stays (containerd has no AutoRemove): `LeftoversAreCollected` is about owned ones.
* A VM whose QEMU has not written its PID when a new process reads its record is taken for one that
  never started (`unseen`); the refinement maps it to a lost instance.
* Registrations whose answer was lost, or that only a dead process knew (`launcher.go:259`), and a
  rotation whose answer was lost (`refresher.go:200`) cannot be recovered by any code on the host;
  the properties exclude them by name.
* Cancellation of the autoscaler's base context races a launch that has its token: the runner is
  then cleaned up by `RunOnce`, not prevented.
* Tokens without expiry never reach the lock and are left out.

## 7. Not modelled

* Setup and build tools (`install-*`, `update-image-versions`, scripts): sequences of external
  commands and file formats, without shared state or recovery.
* Scale-set clients: construction of HTTP clients and a header; their calls are actions of
  `ScaleSetLauncher` and `SessionSupervisor`.
* The VM viewer: a vendored web client and a byte copier.
* Of modelled parts: HTTP and TLS plumbing, webhook signatures as cryptography, log formatting and
  rotation, the cache's reverse proxy and block-id decoding, discovery of daemons, image pulls, QEMU
  arguments and ISO layout, the scripts run in the guest, prompts and YAML editing of `connect`,
  the service manager's own start limits.

## 8. What could come next

1. An abstract capacity-bounded set of runners, implemented by `ScaleSetLauncher` and `RunnerPool`, beside the
   backend's contract.
