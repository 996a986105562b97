---------------------------- MODULE QueuedJobPoll ----------------------------
(***************************************************************************)
(* Client.QueuedWorkflowJobs: one poll of a repository is many requests,   *)
(* one per page of the runs of each status and one per page of the jobs of *)
(* each run found, while GitHub moves runs and jobs from status to status  *)
(* in between.                                                             *)
(***************************************************************************)
EXTENDS Integers, Sequences, FiniteSets, Functions

CONSTANTS
  RunCount,  \* the workflow runs are 1..RunCount, a newer run has a larger id
  JobCount,  \* a run's jobs are 1..JobCount
  PageSize,  \* ListOptions.PerPage
  FaultBudget

PollAssumption == RunCount \in Nat /\ JobCount \in Nat /\ PageSize \in Nat \ {0} /\ FaultBudget \in Nat

VARIABLES
  run,    \* GitHub: the status of each run
  job,    \* GitHub: the status of each job
  ppc,    \* where the poll is
  status, \* the index of the status being listed
  page,   \* opts.Page, of a list of runs or of jobs
  runIDs, \* the runs found whose jobs are to be listed
  queued, \* the jobs found: how often each of them is in the result
  steady, \* history: jobs that were queued throughout the poll, under a run that kept its status
  faults

vars == <<run, job, ppc, status, page, runIDs, queued, steady, faults>>
github == <<run, job>>

Runs == 1..RunCount
Jobs == Runs \X (1..JobCount)
Nothing == [j \in Jobs |-> 0]
\* Mutant: a run under way is taken to have no queued job.
OnlyWaiting == <<"queued", "pending">>
\* The statuses a run with a queued job can have, in the order they are listed.
Statuses == <<"queued", "in_progress", "pending">>

Init ==
  /\ run \in [Runs -> {"pending", "queued", "in_progress"}]
  /\ job = [j \in Jobs |-> "queued"]
  /\ ppc = "idle" /\ status = 1 /\ page = 1 /\ runIDs = <<>> /\ queued = Nothing
  /\ steady = {} /\ faults = FaultBudget

-----------------------------------------------------------------------------
\* The runs of a status, which GitHub lists the newest first, and those of one page.
Listed(s) == {r \in Runs : run[r] = s}
Newer(r, s) == {q \in Listed(s) : q > r}
Page(s, k) == {r \in Listed(s) : (k - 1) * PageSize <= Cardinality(Newer(r, s)) /\ Cardinality(Newer(r, s)) < k * PageSize}
\* resp.NextPage = 0.
LastPage(s, k) == k * PageSize >= Cardinality(Listed(s))

StartPoll ==
  /\ ppc \in {"idle", "done", "error"}
  /\ ppc' = "runs" /\ status' = 1 /\ page' = 1 /\ runIDs' = <<>> /\ queued' = Nothing
  /\ steady' = {j \in Jobs : run[j[1]] # "completed" /\ job[j] = "queued"}
  /\ UNCHANGED <<github, faults>>

\* seen: a run that moved to a status listed later is not added again.
NotSeen(rs) == {r \in rs : r \notin Range(runIDs)}
\* The runs of a set in the order they are listed.
NewestFirst(rs) == {f \in Injection(1..Cardinality(rs), rs) : \A i, j \in DOMAIN f : i < j => f[i] > f[j]}

\* One page of the runs of one status.
ListRepositoryWorkflowRuns ==
  LET s == Statuses[status] IN
  /\ ppc = "runs" /\ status <= Len(Statuses)
  /\ \E found \in NewestFirst(NotSeen(Page(s, page))) : runIDs' = runIDs \o found
  /\ IF LastPage(s, page) THEN status' = status + 1 /\ page' = 1
                          ELSE page' = page + 1 /\ UNCHANGED status
  /\ ppc' = IF status' > Len(Statuses) THEN "jobs" ELSE "runs"
  /\ UNCHANGED <<github, queued, steady, faults>>

\* A run's jobs are listed whatever their status, so that a page holds the same jobs throughout.
OnJobPage(j, k) == (k - 1) * PageSize < j[2] /\ j[2] <= k * PageSize
LastJobPage(k) == k * PageSize >= JobCount

\* queuedJobsForRun: one page of the jobs of the next run, of which the queued ones are kept.
queuedJobsForRun ==
  /\ ppc = "jobs"
  /\ \/ /\ runIDs = <<>> /\ ppc' = "done" /\ UNCHANGED <<runIDs, page, queued>>
     \/ /\ runIDs # <<>>
        /\ queued' = [j \in Jobs |->
             IF j[1] = Head(runIDs) /\ OnJobPage(j, page) /\ job[j] = "queued" THEN queued[j] + 1 ELSE queued[j]]
        /\ IF LastJobPage(page) THEN page' = 1 /\ runIDs' = Tail(runIDs)
                               ELSE page' = page + 1 /\ UNCHANGED runIDs
        /\ UNCHANGED ppc
  /\ UNCHANGED <<github, status, steady, faults>>

\* Any request that fails ends the poll of this repository without a result.
RequestFails ==
  /\ ppc \in {"runs", "jobs"} /\ faults > 0
  /\ faults' = faults - 1 /\ ppc' = "error" /\ queued' = Nothing
  /\ UNCHANGED <<github, status, page, runIDs, steady>>

-----------------------------------------------------------------------------
\* GitHub moves a run on, or one of its jobs.
RunMoves(r) ==
  /\ \/ run[r] = "pending" /\ run' = [run EXCEPT ![r] = "queued"]
     \/ run[r] = "queued" /\ run' = [run EXCEPT ![r] = "in_progress"]
     \/ /\ run[r] = "in_progress" /\ \A j \in Jobs : j[1] = r => job[j] = "completed"
        /\ run' = [run EXCEPT ![r] = "completed"]
  /\ steady' = {j \in steady : j[1] # r}
  /\ UNCHANGED <<job, ppc, status, page, runIDs, queued, faults>>

JobMoves(j) ==
  /\ run[j[1]] = "in_progress"
  /\ \/ job[j] = "queued" /\ job' = [job EXCEPT ![j] = "in_progress"]
     \/ job[j] = "in_progress" /\ job' = [job EXCEPT ![j] = "completed"]
  /\ steady' = steady \ {j}
  /\ UNCHANGED <<run, ppc, status, page, runIDs, queued, faults>>

Next ==
  \/ StartPoll \/ ListRepositoryWorkflowRuns \/ queuedJobsForRun \/ RequestFails
  \/ \E r \in Runs : RunMoves(r)
  \/ \E j \in Jobs : JobMoves(j)

Spec == Init /\ [][Next]_vars

-----------------------------------------------------------------------------
\* A poll reports a job once, though its run may change status between the lists and pages
\* shift: a job reported twice would get two runners (seen in QueuedWorkflowJobs).
JobsReportedOnce == \A j \in Jobs : queued[j] <= 1

\* A successful poll whose lists of runs fit a page has every job that was queued throughout,
\* under a run that kept its status, on whichever page of its run's jobs: with a run under way
\* a queued job is no less queued.
SteadyJobsAreFound ==
  ppc = "done" /\ PageSize >= RunCount => \A j \in steady : queued[j] = 1
=============================================================================
