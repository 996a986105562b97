------------------------------ MODULE Autoscale ------------------------------
(***************************************************************************)
(* On-demand runners: a webhook delivery (webhook.Server, Scaler.OnQueued) *)
(* or a poll of the queued jobs (Scaler.reconcile) launches one runner for *)
(* a job in the first authorised pool with a free token of its semaphore.  *)
(* A worker is a token: its goroutine runs RunJob, then gives it back.     *)
(***************************************************************************)
EXTENDS RunnerInstance, Sequences, Functions

CONSTANTS
  PoolSeq,   \* the pools in the order of the configuration
  PoolSpec,  \* per pool: labels, repo it is bound to (or "any"), workflows it is bound to
  Repos,     \* the managed repositories, in the order of the configuration
  JobSpec,   \* per job: repo, labels, workflow
  Down,      \* repositories whose polls always fail
  HookBudget,\* bound: deliveries per job; more than one is a redelivery
  Stops      \* whether the orchestrator is told to stop

AutoscaleAssumption ==
  /\ InstanceAssumption
  /\ IsFiniteSet(DOMAIN JobSpec) /\ None \notin DOMAIN JobSpec
  /\ \A i \in DOMAIN PoolSeq : PoolSeq[i] \in DOMAIN PoolSpec
  /\ \A w \in Workers : w[1] \in DOMAIN PoolSpec
  /\ Targets = {Repos[i] : i \in DOMAIN Repos} \X DOMAIN PoolSpec
  /\ Repos \in Seq({Repos[i] : i \in DOMAIN Repos}) /\ Repos # <<>>
  /\ HookBudget \in Nat /\ Stops \in BOOLEAN

VARIABLES
  job,       \* GitHub: what became of each job
  duty,      \* GitHub: per runner name, the job it works on
  hooks,     \* per job: deliveries not yet made
  resolving, \* jobs whose metadata a goroutine of OnQueued is fetching
  want,      \* per worker: the job it was launched for; none when the token is free
  scaler,    \* where Scaler.Run is
  ppc,       \* where the poll is
  poll,      \* rs.poll, modulo the number of repositories
  polled,    \* how many repositories this poll has asked
  pfailed,   \* how many of them failed
  plist      \* the jobs this poll has found and not yet launched for

demandVars == <<job, duty, hooks>>
pollVars == <<ppc, poll, polled, pfailed, plist>>
scaleVars == <<demandVars, resolving, want, scaler, pollVars>>
vars == <<instanceVars, scaleVars>>

Jobs == DOMAIN JobSpec
Managed == {Repos[i] : i \in DOMAIN Repos}

Init ==
  /\ InstanceInit
  /\ job = [j \in Jobs |-> "none"] /\ duty = [n \in Names |-> None]
  /\ hooks = [j \in Jobs |-> 0] /\ resolving = {}
  /\ want = [w \in Workers |-> None]
  /\ scaler = "images"
  /\ ppc = "idle" /\ poll = 0 /\ polled = 0 /\ pfailed = 0 /\ plist = <<>>

Alive == scaler \in {"images", "running"}

-----------------------------------------------------------------------------
(* Which pool. *)

labelsMatch(p, j) == JobSpec[j].labels \subseteq PoolSpec[p].labels

\* Mutant: only the repository is looked at.
AllowsRepository(p, j, resolved) == PoolSpec[p].repo \in {"any", JobSpec[j].repo}
\* CanServeJob: the repository and, for a bound pool, the workflow with event, actor and ref.
Allows(p, j, resolved) ==
  /\ PoolSpec[p].repo \in {"any", JobSpec[j].repo}
  /\ PoolSpec[p].workflows = {} \/ (resolved /\ JobSpec[j].workflow \in PoolSpec[p].workflows)

FreeTokens(p) == {w \in Workers : w[1] = p /\ want[w] = None}

\* tryLaunch: a token of the pool's semaphore and a goroutine.
tryLaunch(p, j) ==
  \E w \in FreeTokens(p) :
    /\ \A v \in FreeTokens(p) : w[2] <= v[2]
    /\ want' = [want EXCEPT ![w] = j]

\* launchFor: the first pool that may serve the job and has a token; else it is dropped.
launchFor(j, resolved) ==
  LET able == {i \in DOMAIN PoolSeq : /\ Allows(PoolSeq[i], j, resolved)
                                      /\ labelsMatch(PoolSeq[i], j)
                                      /\ FreeTokens(PoolSeq[i]) # {}}
  IN \/ able = {} /\ UNCHANGED want
     \/ \E i \in able : (\A k \in able : i <= k) /\ tryLaunch(PoolSeq[i], j)

-----------------------------------------------------------------------------
(* Webhook. *)

\* Whether a pool that could take the job authorises by workflow.
RequiresMetadata(j) ==
  \E i \in DOMAIN PoolSeq : labelsMatch(PoolSeq[i], j) /\ PoolSpec[PoolSeq[i]].workflows # {}

\* OnQueued: an unmanaged repository is ignored, a bound pool needs the workflow first.
OnQueued(j) ==
  \/ JobSpec[j].repo \notin Managed /\ UNCHANGED <<resolving, want>>
  \/ /\ JobSpec[j].repo \in Managed /\ RequiresMetadata(j)
     /\ resolving' = resolving \cup {j} /\ UNCHANGED want
  \/ /\ JobSpec[j].repo \in Managed /\ ~RequiresMetadata(j)
     /\ launchFor(j, FALSE) /\ UNCHANGED resolving

\* webhook.handle: a signed workflow_job event with action queued; others change nothing.
handle(j) ==
  /\ Alive /\ hooks[j] > 0
  /\ hooks' = [hooks EXCEPT ![j] = @ - 1]
  /\ OnQueued(j)
  /\ UNCHANGED <<instanceVars, job, duty, scaler, pollVars>>

\* The goroutine of OnQueued: ResolveQueuedJob refuses a run that is over, and may fail.
ResolveQueuedJob(j) ==
  /\ Alive /\ j \in resolving
  /\ resolving' = resolving \ {j}
  /\ \/ launchFor(j, TRUE) /\ UNCHANGED faults
     \/ job[j] = "done" /\ UNCHANGED <<want, faults>>
     \/ faults > 0 /\ faults' = faults - 1 /\ UNCHANGED want
  /\ UNCHANGED <<runVars, cancelled, envVars, hurt, demandVars, scaler, pollVars>>

-----------------------------------------------------------------------------
(* Poll. *)

\* Scaler.Run: every image, then the first poll; an image that fails ends it.
EnsureImages ==
  /\ scaler = "images"
  /\ \/ scaler' = "running" /\ UNCHANGED faults
     \/ scaler' = "failed" /\ faults > 0 /\ faults' = faults - 1
  /\ UNCHANGED <<runVars, cancelled, envVars, hurt, demandVars, resolving, want, pollVars>>

\* RepoSet.QueuedJobs begins one repository further than the last time.
StartPoll ==
  /\ scaler = "running" /\ ppc = "idle"
  /\ ppc' = "list" /\ polled' = 0 /\ pfailed' = 0 /\ plist' = <<>>
  /\ poll' = (poll + 1) % Len(Repos)
  /\ UNCHANGED <<instanceVars, demandVars, resolving, want, scaler>>

\* Mutant: one repository that fails spoils the poll.
AnyFailed(failures) == failures > 0
\* RepoPollError.AllFailed: the answers of the others are used.
AllFailed(failures) == failures = Len(Repos)

\* QueuedWorkflowJobs of the repository's client.
QueuedWorkflowJobs(r) == {j \in Jobs : JobSpec[j].repo = r /\ job[j] = "queued"}

\* One repository is asked; its jobs go to the end of the list, in an order of GitHub's.
PollRepository ==
  LET r == Repos[((poll + Len(Repos) - 1 + polled) % Len(Repos)) + 1]
      queued == QueuedWorkflowJobs(r) IN
  /\ scaler = "running" /\ ppc = "list"
  /\ polled' = polled + 1
  /\ \/ /\ r \notin Down
        /\ \E found \in Injection(1..Cardinality(queued), queued) : plist' = plist \o found
        /\ UNCHANGED <<pfailed, faults>>
     \/ r \in Down /\ pfailed' = pfailed + 1 /\ UNCHANGED <<plist, faults>>
     \/ /\ r \notin Down /\ faults > 0 /\ faults' = faults - 1
        /\ pfailed' = pfailed + 1 /\ UNCHANGED plist
  /\ ppc' = IF polled' < Len(Repos) THEN "list"
            ELSE IF AllFailed(pfailed') THEN "idle" ELSE "launch"
  /\ UNCHANGED <<runVars, cancelled, envVars, hurt, demandVars, resolving, want, scaler, poll>>

\* reconcile launches for each job of the list, which may be out of date by now.
PollLaunch ==
  /\ scaler = "running" /\ ppc = "launch"
  /\ \/ plist = <<>> /\ ppc' = "idle" /\ UNCHANGED <<plist, want>>
     \/ plist # <<>> /\ launchFor(Head(plist), TRUE) /\ plist' = Tail(plist) /\ UNCHANGED ppc
  /\ UNCHANGED <<instanceVars, demandVars, resolving, scaler, poll, polled, pfailed>>

-----------------------------------------------------------------------------
(* Runs. *)

\* A job is over when its runner is no longer working on it.
Settle ==
  /\ job' = [j \in Jobs |->
       IF job[j] = "running" /\ ~\E n \in Names : duty[n] = j /\ res'[n] = "working"
       THEN "done" ELSE job[j]]
  /\ duty' = [n \in Names |-> IF res'[n] = "working" THEN duty[n] ELSE None]

\* The goroutine of tryLaunch starts RunJob with the client of the job's repository.
RunJob(w) ==
  /\ Alive /\ want[w] # None /\ pc[w] = "off"
  /\ Begin(w) /\ UNCHANGED scaleVars

RunJobStep(w) ==
  /\ Alive /\ want[w] # None
  /\ GenerateJITConfig(w, <<JobSpec[want[w]].repo, w[1]>>) \/ RunOnce(w)
  /\ Settle
  /\ UNCHANGED <<hooks, resolving, want, scaler, pollVars>>

\* The token goes back.
Release(w) ==
  /\ Alive /\ pc[w] = "over"
  /\ pc' = [pc EXCEPT ![w] = "off"]
  /\ want' = [want EXCEPT ![w] = None]
  /\ UNCHANGED <<name, failed, cancelled, envVars, hurt, faults, demandVars, resolving, scaler, pollVars>>

\* The context ends; Scaler.Run returns, and the process after it.
StopScaler ==
  /\ Stops
  /\ \/ Cancel /\ UNCHANGED scaler
     \/ cancelled /\ scaler = "running" /\ scaler' = "stopped" /\ UNCHANGED instanceVars
  /\ UNCHANGED <<demandVars, resolving, want, pollVars>>

-----------------------------------------------------------------------------
(* GitHub. *)

Queue(j) ==
  /\ job[j] = "none"
  /\ job' = [job EXCEPT ![j] = "queued"]
  /\ \E k \in 0..HookBudget : hooks' = [hooks EXCEPT ![j] = k]
  /\ UNCHANGED <<instanceVars, duty, resolving, want, scaler, pollVars>>

\* A registered idle runner with the labels gets the job.
Assign(n, j) ==
  /\ job[j] = "queued" /\ TakeJob(n)
  /\ reg[n][1] = JobSpec[j].repo /\ labelsMatch(reg[n][2], j)
  /\ job' = [job EXCEPT ![j] = "running"] /\ duty' = [duty EXCEPT ![n] = j]
  /\ UNCHANGED <<hooks, resolving, want, scaler, pollVars>>

RunnerStep(n) ==
  /\ Environment(n) /\ Settle
  /\ UNCHANGED <<hooks, resolving, want, scaler, pollVars>>

Over == scaler \in {"failed", "stopped"} /\ UNCHANGED vars

Next ==
  \/ \E j \in Jobs : Queue(j) \/ handle(j) \/ ResolveQueuedJob(j)
  \/ EnsureImages \/ StartPoll \/ PollRepository \/ PollLaunch
  \/ \E w \in Workers : RunJob(w) \/ RunJobStep(w) \/ Release(w)
  \/ \E n \in Names : RunnerStep(n) \/ \E j \in Jobs : Assign(n, j)
  \/ StopScaler
  \/ Over

Spec == Init /\ [][Next]_vars

-----------------------------------------------------------------------------
\* A pool bound to a repository and a workflow is only launched for a job of them, although a
\* delivery names no workflow and a poll's list is stale (Allows, OnQueued, RunJob).
LaunchesAreAuthorised ==
  \A w \in Workers : want[w] # None =>
    LET p == PoolSpec[w[1]] j == JobSpec[want[w]] IN
    /\ j.repo \in Managed /\ p.repo \in {"any", j.repo}
    /\ p.workflows # {} => j.workflow \in p.workflows

Authorised(j) ==
  /\ JobSpec[j].repo \in Managed \ Down
  /\ \E i \in DOMAIN PoolSeq : labelsMatch(PoolSeq[i], j) /\ Allows(PoolSeq[i], j, TRUE)

\* A queued job that an authorised pool could serve, and one that needs no runner any more.
Waiting(j) == Authorised(j) /\ job[j] = "queued"
Settled(j) == job[j] \in {"running", "done"} \/ cancelled \/ scaler = "failed"

\* Every token that could serve the job is with a runner that was launched from a list that was
\* out of date: idle, registered at another repository, and no job of that is queued.
BehindSurplus(j) ==
  \A w \in Workers : labelsMatch(w[1], j) /\ Allows(w[1], j, TRUE) =>
    LET n == name[w] IN
    /\ pc[w] = "wait" /\ res[n] = "up" /\ reg[n] # None /\ reg[n][1] # JobSpec[j].repo
    /\ \A k \in QueuedWorkflowJobs(reg[n][1]) : ~labelsMatch(reg[n][2], k)
=============================================================================
