------------------------------- MODULE Doctor --------------------------------
(***************************************************************************)
(* The doctor command: the service, every pool's daemon in turn under one  *)
(* deadline, then phases of checks over the repositories, some at a time,  *)
(* each phase and each repository with a deadline of its own.  The world   *)
(* it looks at is fixed: daemons that answer at once or slowly, refuse or  *)
(* hang, repositories GitHub answers for at once, late or not in time.     *)
(***************************************************************************)
EXTENDS Naturals, FiniteSets

CONSTANTS
  PoolNames, Repos,
  Concurrency,   \* repoCheckConcurrency
  PoolTimeout,   \* the deadline all pings share
  PingTime,      \* how long a slow daemon takes
  CheckTimeout,  \* remoteCheckTimeout
  RepoTimeout,   \* remoteRepoCheckTimeout
  Daemons, Answers  \* which kinds of daemons and repositories there are

DoctorAssumption ==
  /\ Concurrency \in Nat \ {0} /\ RepoTimeout \in Nat \ {0} /\ CheckTimeout \in Nat \ {0} /\ PoolTimeout \in Nat \ {0}
  /\ PingTime \in 1..(PoolTimeout - 1) /\ IsFiniteSet(Repos) /\ IsFiniteSet(PoolNames)
  /\ Daemons \subseteq {"up", "slow", "refused", "hung", "wrongMode", "noMode"}
  /\ Answers \subseteq {"fine", "late", "lost", "off", "forbidden"}

VARIABLES
  world,    \* what is really the case
  phase,    \* where the doctor is
  now,      \* time since the deadline in force was set
  allOK,
  pinged,   \* the pools looked at
  blamed,   \* the pools reported as unreachable or wrong
  check     \* per repository: its check in this phase, and since when it runs
vars == <<world, phase, now, allOK, pinged, blamed, check>>

Phases == <<"checkRunnerAccess", "checkActionsEnabled", "warnNoSelfHostedWorkflows">>
Idle == [at |-> "waiting", since |-> 0]

Init ==
  /\ world \in [daemon : [PoolNames -> Daemons], repo : [Repos -> Answers], scope : {"org", "repos"},
                access : BOOLEAN, sharedApp : BOOLEAN, autoscale : BOOLEAN,
                size : [PoolNames -> {1, Cardinality(Repos)}], service : {"absent", "running", "stopped"},
                failures : {0, 1}]
  /\ world.scope = "org" => ~world.autoscale /\ \A r \in Repos : world.repo[r] = "fine"
  /\ world.scope = "repos" => world.access
  /\ phase = "service" /\ now = 0 /\ allOK = TRUE
  /\ pinged = {} /\ blamed = {} /\ check = [r \in Repos |-> Idle]

-----------------------------------------------------------------------------
\* classifyServiceHealth, and the record of failures of a service that is installed.
serviceOK == world.service = "absent" \/ (world.service = "running" /\ world.failures = 0)
CheckService ==
  /\ phase = "service"
  /\ allOK' = (allOK /\ serviceOK) /\ phase' = "pools"
  /\ UNCHANGED <<world, now, pinged, blamed, check>>

Healthy(p) == world.daemon[p] \in {"up", "slow"}
\* How long a pool may take: after an error discoveryHint looks for other daemons, under the same deadline.
Takes(p) == CASE world.daemon[p] = "up" -> {0} [] world.daemon[p] = "slow" -> {PingTime}
              [] world.daemon[p] = "hung" -> {PoolTimeout} [] OTHER -> {0, PoolTimeout}
\* One pool: Ping and OSType with what the pools before it left of the deadline; an error is
\* reported and remembered.
CheckPool(p) ==
  /\ phase = "pools" /\ p \notin pinged /\ pinged' = pinged \cup {p}
  /\ \E t \in Takes(p) : now' = IF now + t < PoolTimeout THEN now + t ELSE PoolTimeout
  /\ IF Healthy(p) /\ now' < PoolTimeout THEN UNCHANGED <<allOK, blamed>> ELSE allOK' = FALSE /\ blamed' = blamed \cup {p}
  /\ UNCHANGED <<world, phase, check>>

\* warnStarvedRepos: a slot of a fixed pool serves one repository for good.
starvedRepos ==
  /\ world.scope = "repos" /\ ~world.autoscale
  /\ \E p \in PoolNames : world.size[p] < Cardinality(Repos)
\* The pools are done; then the first phase under a deadline of its own.
PoolsChecked ==
  /\ phase = "pools" /\ pinged = PoolNames
  /\ allOK' = (allOK /\ ~starvedRepos)
  /\ phase' = Phases[1] /\ now' = 0
  /\ UNCHANGED <<world, pinged, blamed, check>>

-----------------------------------------------------------------------------
(* runRepoChecks. *)

Over(r) == check[r].at \in {"ok", "no", "failed"}
Running == {r \in Repos : check[r].at = "running"}
remote == phase \in {"checkActionsEnabled", "warnNoSelfHostedWorkflows"} /\ world.scope = "repos"

\* remoteCheckBudget: every wave of repositories is allowed its full time.
remoteCheckBudget ==
  LET waves == (Cardinality(Repos) + Concurrency - 1) \div Concurrency
  IN  IF waves * RepoTimeout > CheckTimeout THEN waves * RepoTimeout ELSE CheckTimeout

Latency(r) == CASE world.repo[r] = "late" -> RepoTimeout - 1 [] world.repo[r] = "lost" -> RepoTimeout [] OTHER -> 0
Answered(r) == world.repo[r] # "lost" /\ now >= check[r].since + Latency(r)
\* checkActionsEnabled: a repository with Actions switched off fails the phase.
actionsEnabled(r) == IF world.repo[r] = "off" THEN "no" ELSE "ok"
\* warnNoSelfHostedWorkflows: no workflow for us is only a note; a scan that is forbidden is
\* a note with the shared App and an error otherwise.
workflowsScanned(r) == IF world.repo[r] = "forbidden" /\ ~world.sharedApp THEN "failed" ELSE "ok"
Result(r) == IF phase = "checkActionsEnabled" THEN actionsEnabled(r) ELSE workflowsScanned(r)

\* A check takes a slot, or its phase is over before it gets one.
StartCheck(r) ==
  /\ remote /\ check[r].at = "waiting"
  /\ \E c \in (IF Cardinality(Running) < Concurrency THEN {[at |-> "running", since |-> now]} ELSE {})
          \cup (IF now >= remoteCheckBudget THEN {[at |-> "failed", since |-> now]} ELSE {}) :
       check' = [check EXCEPT ![r] = c]
  /\ UNCHANGED <<world, phase, now, allOK, pinged, blamed>>
Answer(r) ==
  /\ remote /\ check[r].at = "running" /\ Answered(r)
  /\ check' = [check EXCEPT ![r].at = Result(r)]
  /\ UNCHANGED <<world, phase, now, allOK, pinged, blamed>>
\* The deadlines of the repository and of the phase; which of two events of one moment comes first is open.
DeadlinePassed(r) == now >= check[r].since + RepoTimeout \/ now >= remoteCheckBudget
Expire(r) ==
  /\ remote /\ check[r].at = "running" /\ DeadlinePassed(r)
  /\ check' = [check EXCEPT ![r].at = "failed"]
  /\ UNCHANGED <<world, phase, now, allOK, pinged, blamed>>

\* Time passes when nothing is left to do at this moment.
Tick ==
  /\ remote /\ Running # {} /\ now < remoteCheckBudget
  /\ \A r \in Repos : /\ check[r].at = "waiting" => Cardinality(Running) = Concurrency
                      /\ check[r].at = "running" => ~Answered(r) /\ ~DeadlinePassed(r)
  /\ now' = now + 1
  /\ UNCHANGED <<world, phase, allOK, pinged, blamed, check>>

phaseOK ==
  IF phase = "checkRunnerAccess" THEN world.access
  ELSE ~remote \/ \A r \in Repos : check[r].at = "ok"
\* Mutant: the last phase decides.
LastPhaseWins ==
  /\ phase \in {Phases[i] : i \in 1..3} /\ (remote => \A r \in Repos : Over(r))
  /\ allOK' = phaseOK
  /\ phase' = (CASE phase = Phases[1] -> Phases[2] [] phase = Phases[2] -> Phases[3] [] OTHER -> "done")
  /\ now' = 0 /\ check' = [r \in Repos |-> Idle]
  /\ UNCHANGED <<world, pinged, blamed>>
\* A phase ends, the next one has a deadline of its own.
PhaseEnds ==
  /\ phase \in {Phases[i] : i \in 1..3} /\ (remote => \A r \in Repos : Over(r))
  /\ allOK' = (allOK /\ phaseOK)
  /\ phase' = (CASE phase = Phases[1] -> Phases[2] [] phase = Phases[2] -> Phases[3] [] OTHER -> "done")
  /\ now' = 0 /\ check' = [r \in Repos |-> Idle]
  /\ UNCHANGED <<world, pinged, blamed>>

RepoChecks == \E r \in Repos : StartCheck(r) \/ Answer(r) \/ Expire(r)
Next == CheckService \/ (\E p \in PoolNames : CheckPool(p)) \/ PoolsChecked \/ RepoChecks \/ Tick \/ PhaseEnds
Spec == Init /\ [][Next]_vars

-----------------------------------------------------------------------------
\* A repository whose answer comes in time is never reported as not checked, however many
\* repositories there are and however many others are slow or lost; only the missing permission fails it.
AnswersInTimeCount ==
  \A r \in Repos : check[r].at = "failed" => world.repo[r] = "lost" \/ (phase = Phases[3] /\ world.repo[r] = "forbidden")

\* A pool whose daemon is well is reported only because of another one that is slow, hung or gone:
\* the pings share a deadline, and one that used it up fails those after it.
BlameIsFair ==
  \A p \in blamed : Healthy(p) => \E q \in PoolNames \ {p} : world.daemon[q] # "up"

\* The doctor passes exactly when there is nothing to report and the pings fit into the deadline
\* they share: no phase hides what an earlier one found, and what the pings used up fails no phase
\* after them, nor does one phase use up the time of the next.
VerdictIsSound ==
  phase = "done" => (allOK <=>
    /\ serviceOK /\ \A p \in PoolNames : Healthy(p)
    /\ PingTime * Cardinality({p \in PoolNames : world.daemon[p] = "slow"}) < PoolTimeout
    /\ world.access /\ (world.scope = "repos" /\ ~world.autoscale => \A p \in PoolNames : world.size[p] >= Cardinality(Repos))
    /\ world.scope = "repos" => \A r \in Repos :
         world.repo[r] \in {"fine", "late"} \/ (world.repo[r] = "forbidden" /\ world.sharedApp))
=============================================================================
