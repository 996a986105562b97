---------------------------- MODULE Orchestrator ----------------------------
(***************************************************************************)
(* The loops of the orchestrator that provide runners, and the supervision *)
(* around them: pools, the autoscaler, the poll of queued jobs, scale-set  *)
(* sessions, and the host service.  A process runs one way of providing    *)
(* runners, and none of them shares state with the service that supervises *)
(* it, so a behaviour is one of a single component under one setup (at):   *)
(* the variables that are not its own are Off.  Variables of the same name *)
(* are shared.  A setup gives a component's constants their values, as a   *)
(* record P with a field for each of them.                                 *)
(***************************************************************************)
EXTENDS Integers, Sequences

CONSTANTS
  PoolSetups, ScalerSetups, PollSetups, SessionSetups, ServiceSetups, \* functions from names to setups
  Off, None   \* model values

VARIABLES
  at,
  pc, faults, stop, mgr, failures, job, ppc,                          \* of more than one instance
  name, failed, cancelled, reg, res, hurt,                            \* RunnerInstance
  slot, backoffs, image, errCh,                                       \* RunnerPool
  duty, hooks, resolving, want, scaler, poll, polled, pfailed, plist, \* Autoscale
  run, status, page, runIDs, queued, steady,                          \* QueuedJobPoll
  available, delay, ghSession, scaleSet, launcher, result, permanent, \* SessionSupervisor
  host, stopper, stopping, ctx, worker, read, now, budget, starts     \* ServiceSupervisor

instOwn    == <<name, failed, cancelled, reg, res, hurt>>
poolOwn    == <<slot, backoffs, image, errCh>>
scaleOwn   == <<duty, hooks, resolving, want, scaler, poll, polled, pfailed, plist>>
pollOwn    == <<run, status, page, runIDs, queued, steady>>
sessionOwn == <<available, delay, ghSession, scaleSet, launcher, result, permanent>>
serviceOwn == <<host, stopper, stopping, ctx, worker, read, now, budget, starts>>
shared     == <<pc, faults, stop, mgr, failures, job, ppc>>
vars == <<at, shared, instOwn, poolOwn, scaleOwn, pollOwn, sessionOwn, serviceOwn>>

\* The variables an instance leaves alone.
notPool    == <<at, failures, job, ppc, scaleOwn, pollOwn, sessionOwn, serviceOwn>>
notScale   == <<at, failures, stop, mgr, poolOwn, pollOwn, sessionOwn, serviceOwn>>
notPoll    == <<at, pc, stop, mgr, failures, instOwn, poolOwn, scaleOwn, sessionOwn, serviceOwn>>
notSession == <<at, mgr, job, ppc, instOwn, poolOwn, scaleOwn, pollOwn, serviceOwn>>
notService == <<at, pc, faults, stop, job, ppc, instOwn, poolOwn, scaleOwn, pollOwn, sessionOwn>>

InstOff == name = Off /\ failed = Off /\ cancelled = Off /\ reg = Off /\ res = Off /\ hurt = Off
PoolOff == slot = Off /\ backoffs = Off /\ image = Off /\ errCh = Off
ScaleOff == /\ duty = Off /\ hooks = Off /\ resolving = Off /\ want = Off /\ scaler = Off
            /\ poll = Off /\ polled = Off /\ pfailed = Off /\ plist = Off
PollOff == run = Off /\ status = Off /\ page = Off /\ runIDs = Off /\ queued = Off /\ steady = Off
SessionOff == /\ available = Off /\ delay = Off /\ ghSession = Off /\ scaleSet = Off
              /\ launcher = Off /\ result = Off /\ permanent = Off
ServiceOff == /\ host = Off /\ stopper = Off /\ stopping = Off /\ ctx = Off /\ worker = Off
              /\ read = Off /\ now = Off /\ budget = Off /\ starts = Off

-----------------------------------------------------------------------------
Pool(P) == INSTANCE RunnerPool WITH
  Pools <- P.Pools, Size <- P.Size, Workers <- P.Workers, RepoCount <- P.RepoCount, RepoOf <- P.RepoOf,
  Targets <- P.Targets, NameCount <- P.NameCount, FaultBudget <- P.FaultBudget
Scaler(P) == INSTANCE Autoscale WITH
  PoolSeq <- P.PoolSeq, PoolSpec <- P.PoolSpec, Workers <- P.Workers, JobSpec <- P.JobSpec,
  Targets <- P.Targets, Repos <- P.Repos, Down <- P.Down, HookBudget <- P.HookBudget, Stops <- P.Stops,
  NameCount <- P.NameCount, FaultBudget <- P.FaultBudget
Poll(P) == INSTANCE QueuedJobPoll WITH
  RunCount <- P.RunCount, JobCount <- P.JobCount, PageSize <- P.PageSize, FaultBudget <- P.FaultBudget
Session(P) == INSTANCE SessionSupervisor WITH
  Sessions <- P.Sessions, FaultBudget <- P.FaultBudget, Permanent <- P.Permanent, Initial <- P.Initial,
  Maximum <- P.Maximum
Service(P) == INSTANCE ServiceSupervisor WITH
  CrashLoopFailureCount <- P.CrashLoopFailureCount, FailureWindow <- P.FailureWindow, TimeBound <- P.TimeBound,
  FaultBudget <- P.FaultBudget, StopBudget <- P.StopBudget

OrchestratorAssumption ==
  /\ \A i \in DOMAIN PoolSetups : Pool(PoolSetups[i])!PoolAssumption
  /\ \A i \in DOMAIN ScalerSetups : Scaler(ScalerSetups[i])!AutoscaleAssumption
  /\ \A i \in DOMAIN PollSetups : Poll(PollSetups[i])!PollAssumption
  /\ \A i \in DOMAIN SessionSetups : Session(SessionSetups[i])!SupervisorAssumption
  /\ \A i \in DOMAIN ServiceSetups : Service(ServiceSetups[i])!ServiceAssumption

-----------------------------------------------------------------------------
PoolAlone == failures = Off /\ job = Off /\ ppc = Off /\ ScaleOff /\ PollOff /\ SessionOff /\ ServiceOff
ScaleAlone == failures = Off /\ stop = Off /\ mgr = Off /\ PoolOff /\ PollOff /\ SessionOff /\ ServiceOff
PollAlone == /\ pc = Off /\ stop = Off /\ mgr = Off /\ failures = Off
             /\ InstOff /\ PoolOff /\ ScaleOff /\ SessionOff /\ ServiceOff
SessionAlone == mgr = Off /\ job = Off /\ ppc = Off /\ InstOff /\ PoolOff /\ ScaleOff /\ PollOff /\ ServiceOff
ServiceAlone == /\ pc = Off /\ faults = Off /\ stop = Off /\ job = Off /\ ppc = Off
                /\ InstOff /\ PoolOff /\ ScaleOff /\ PollOff /\ SessionOff

Init ==
  \/ \E i \in DOMAIN PoolSetups : at = <<"pool", i>> /\ Pool(PoolSetups[i])!Init /\ PoolAlone
  \/ \E i \in DOMAIN ScalerSetups : at = <<"scaler", i>> /\ Scaler(ScalerSetups[i])!Init /\ ScaleAlone
  \/ \E i \in DOMAIN PollSetups : at = <<"poll", i>> /\ Poll(PollSetups[i])!Init /\ PollAlone
  \/ \E i \in DOMAIN SessionSetups : at = <<"session", i>> /\ Session(SessionSetups[i])!Init /\ SessionAlone
  \/ \E i \in DOMAIN ServiceSetups : at = <<"service", i>> /\ Service(ServiceSetups[i])!Init /\ ServiceAlone

Next ==
  \/ \E i \in DOMAIN PoolSetups : at = <<"pool", i>> /\ Pool(PoolSetups[i])!Next /\ UNCHANGED notPool
  \/ \E i \in DOMAIN ScalerSetups : at = <<"scaler", i>> /\ Scaler(ScalerSetups[i])!Next /\ UNCHANGED notScale
  \/ \E i \in DOMAIN PollSetups : at = <<"poll", i>> /\ Poll(PollSetups[i])!Next /\ UNCHANGED notPoll
  \/ \E i \in DOMAIN SessionSetups : at = <<"session", i>> /\ Session(SessionSetups[i])!Next /\ UNCHANGED notSession
  \/ \E i \in DOMAIN ServiceSetups : at = <<"service", i>> /\ Service(ServiceSetups[i])!Next /\ UNCHANGED notService

Spec == Init /\ [][Next]_vars

-----------------------------------------------------------------------------
\* What a run of RunOnce leaves behind has a reason, in a pool and under the autoscaler: an
\* instance lives on only when its kill failed; a registration only when the answer to its
\* creation was lost, its removal failed or a failed kill left its fate to GitHub; and a job
\* loses its registration only after a failed kill and GitHub's word that the runner is idle.
RunsCleanUp ==
  /\ \A i \in DOMAIN PoolSetups : at = <<"pool", i>> => Pool(PoolSetups[i])!RunsCleanUp
  /\ \A i \in DOMAIN ScalerSetups : at = <<"scaler", i>> => Scaler(ScalerSetups[i])!RunsCleanUp

\* A pool bound to a repository and a workflow is only launched for a job of them, although a
\* delivery names no workflow and a poll's list is stale (Allows, OnQueued, RunJob).
LaunchesAreAuthorised ==
  \A i \in DOMAIN ScalerSetups : at = <<"scaler", i>> => Scaler(ScalerSetups[i])!LaunchesAreAuthorised

\* A poll reports no job twice, which would get two runners, though runs change status between
\* the lists and shift the pages; and one whose lists of runs fit a page has every job that was
\* queued throughout, on whichever page of its run's jobs (QueuedWorkflowJobs, queuedJobsForRun).
PollsAreExact ==
  \A i \in DOMAIN PollSetups : at = <<"poll", i>> =>
    /\ Poll(PollSetups[i])!JobsReportedOnce
    /\ PollSetups[i].RunCount <= PollSetups[i].PageSize => Poll(PollSetups[i])!SteadyJobsAreFound

\* What returns is over: Manager.Run when every slot has ended, and nil only after a stop that
\* left nothing behind; RunSupervised when no launcher works and no session is held; and no
\* worker process runs without its service host.
ReturnedIsOver ==
  /\ \A i \in DOMAIN PoolSetups : at = <<"pool", i>> => Pool(PoolSetups[i])!ReturnedIsOver
  /\ \A i \in DOMAIN SessionSetups : at = <<"session", i>> => Session(SessionSetups[i])!ReturnedIsOver
  /\ \A i \in DOMAIN ServiceSetups : at = <<"service", i>> => Service(ServiceSetups[i])!ReturnedIsOver

\* A service that fails over and over is started a bounded number of times in any window, across
\* restarts of the host, a stop that races a failure, and records that could not be written.
RecoveryIsBounded ==
  \A i \in DOMAIN ServiceSetups : at = <<"service", i>> => Service(ServiceSetups[i])!RecoveryIsBounded

\* /health tells the truth: a session reported available holds GitHub's message session, or is
\* just closing it, its scale set has the configured labels and its launcher works.
HealthTellsTruth ==
  \A i \in DOMAIN SessionSetups : at = <<"session", i>> => Session(SessionSetups[i])!HealthTellsTruth
=============================================================================
