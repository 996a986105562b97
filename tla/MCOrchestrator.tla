--------------------------- MODULE MCOrchestrator ---------------------------
(***************************************************************************)
(* Small setups of the orchestrator's components, and the fairness under   *)
(* which they make progress.                                               *)
(***************************************************************************)
EXTENDS Orchestrator

(* Pools: two of one slot, and one of two slots. *)
TwoClients == [i \in 0..1 |-> IF i = 0 THEN "repoA" ELSE "repoB"]
TwoPools ==
  [Pools |-> {"p1", "p2"}, Size |-> [p \in {"p1", "p2"} |-> 1], Workers |-> {<<"p1", 0>>, <<"p2", 0>>},
   RepoCount |-> 2, RepoOf |-> TwoClients, Targets |-> {"repoA", "repoB"}, NameCount |-> 3, FaultBudget |-> 2]
TwoSlots ==
  [TwoPools EXCEPT !.Pools = {"p1"}, !.Size = [p \in {"p1"} |-> 2], !.Workers = {<<"p1", 0>>, <<"p1", 1>>},
                   !.FaultBudget = 1]

(* The autoscaler: a pool bound to a workflow of repoA beside one for everything else, with
   deliveries; one pool for two repositories, a job of a repository that is not managed, and a
   stop; and, without deliveries, one token for the jobs of two repositories, beside a third
   that cannot be polled. *)
BoundPools ==
  [bound |-> [labels |-> {"x", "y"}, repo |-> "repoA", workflows |-> {"release"}],
   open  |-> [labels |-> {"x"}, repo |-> "any", workflows |-> {}]]
BoundJobs ==
  [a1 |-> [repo |-> "repoA", labels |-> {"x", "y"}, workflow |-> "release"],
   a2 |-> [repo |-> "repoA", labels |-> {"x"}, workflow |-> "test"]]
StrayJobs ==
  [a1 |-> [repo |-> "repoA", labels |-> {"x"}, workflow |-> "test"],
   c1 |-> [repo |-> "repoC", labels |-> {"x"}, workflow |-> "test"]]
Delivered ==
  [PoolSeq |-> <<"bound", "open">>, PoolSpec |-> BoundPools, Workers |-> {<<"bound", 0>>, <<"open", 0>>},
   JobSpec |-> BoundJobs, Targets |-> {"repoA", "repoB"} \X {"bound", "open"}, Repos |-> <<"repoA", "repoB">>,
   Down |-> {}, HookBudget |-> 1, Stops |-> FALSE, NameCount |-> 2, FaultBudget |-> 1]
Stopped ==
  [Delivered EXCEPT !.PoolSeq = <<"open">>, !.PoolSpec = [open |-> BoundPools.open], !.Workers = {<<"open", 0>>},
                    !.JobSpec = StrayJobs, !.Targets = {"repoA", "repoB"} \X {"open"}, !.Stops = TRUE]
Polled ==
  [Stopped EXCEPT !.JobSpec = [a1 |-> StrayJobs.a1, b1 |-> [StrayJobs.a1 EXCEPT !.repo = "repoB"]],
                  !.Repos = <<"repoA", "repoB", "repoC">>, !.Targets = {"repoA", "repoB", "repoC"} \X {"open"},
                  !.Down = {"repoC"}, !.HookBudget = 0, !.Stops = FALSE]

(* The poll of the GitHub client, with three pages of runs, and with one of runs and two of each
   run's jobs; sessions, and the service. *)
Paged == [RunCount |-> 3, JobCount |-> 1, PageSize |-> 1, FaultBudget |-> 1]
OnePage == [RunCount |-> 2, JobCount |-> 3, PageSize |-> 2, FaultBudget |-> 1]
TwoSessions == [Sessions |-> {"s1", "s2"}, FaultBudget |-> 2, Permanent |-> 1, Initial |-> 2, Maximum |-> 3]
LongService ==
  [CrashLoopFailureCount |-> 4, FailureWindow |-> 3, TimeBound |-> 4, FaultBudget |-> 1, StopBudget |-> 2]
ShortService ==
  [CrashLoopFailureCount |-> 2, FailureWindow |-> 2, TimeBound |-> 2, FaultBudget |-> 1, StopBudget |-> 2]

SafePools == [pools |-> TwoPools]
SafeScalers == [delivered |-> Delivered, stopped |-> Stopped]
SafePolls == [paged |-> Paged, onePage |-> OnePage]
AllSessions == [two |-> TwoSessions]
SafeServices == [long |-> LongService]
LivePools == [slots |-> TwoSlots]
LiveScalers == [polled |-> Polled]
LivePolls == <<>>
LiveServices == [short |-> ShortService]

ASSUME SmallSetups == OrchestratorAssumption

-----------------------------------------------------------------------------
\* Every goroutine of a pool, of the autoscaler and of a session goes on, since its calls return
\* or run into their timeouts; the ticker of the poll ticks, GitHub assigns jobs and they end,
\* and GitHub releases a session nobody holds. The service manager starts the host again
\* after its delay. Deliveries are not promised, and neither is a listener that returns
\* without being cancelled.
\* Only one component is at work, so the fairness of corresponding steps is one condition.
InPool == at = <<"pool", "slots">>
InScaler == at = <<"scaler", "polled">>
InSession == at = <<"session", "two">>
InService == at = <<"service", "short">>
Turn(ofSlots, ofScaler, ofSession, ofService) ==
  \/ InPool /\ ofSlots /\ UNCHANGED notPool
  \/ InScaler /\ ofScaler /\ UNCHANGED notScale
  \/ InSession /\ ofSession /\ UNCHANGED notSession
  \/ InService /\ ofService /\ UNCHANGED notService
Token == <<"open", 0>>
SlotAt(i) == <<"p1", i - 1>>
SessionAt(i) == IF i = 1 THEN "s1" ELSE "s2"
Fairness ==
  /\ WF_vars(Turn(Pool(TwoSlots)!ManagerRun,
                  \/ Scaler(Polled)!StartPoll \/ Scaler(Polled)!PollRepository \/ Scaler(Polled)!PollLaunch,
                  Session(TwoSessions)!RunSupervised, Service(ShortService)!Host))
  /\ WF_vars(Turn(Pool(TwoSlots)!EnsureImage("p1"), Scaler(Polled)!EnsureImages, FALSE, Service(ShortService)!Stopper))
  /\ WF_vars(Turn(Pool(TwoSlots)!ReportFailure("p1"), FALSE, FALSE,
                  mgr = "delay" /\ Service(ShortService)!ManagerStart))
  /\ \A i \in 1..2 :
       WF_vars(Turn(Pool(TwoSlots)!Slot(SlotAt(i)),
                    /\ i = 1
                    /\ \/ Scaler(Polled)!RunJob(Token) \/ Scaler(Polled)!RunJobStep(Token)
                       \/ Scaler(Polled)!Release(Token),
                    Session(TwoSessions)!Session(SessionAt(i)), FALSE))
  /\ \A n \in 1..2 :
       /\ WF_vars(Turn(FALSE, Scaler(Polled)!RunnerStep(n), Session(TwoSessions)!Expire(SessionAt(n)), FALSE))
       /\ WF_vars(Turn(FALSE, \E j \in {"a1", "b1"} : Scaler(Polled)!Assign(n, j),
                       stop /\ Session(TwoSessions)!Listen(SessionAt(n)), FALSE))

FairSpec == Spec /\ Fairness

-----------------------------------------------------------------------------
\* Nobody is stuck: until it is cancelled a pool's slot launches runner after runner, whatever
\* calls failed (runSlot), and a session that has not failed for good listens again and again,
\* whatever its siblings do (RunSupervised).
EachKeepsServing ==
  \A i \in 1..2 : []<>(CASE InPool -> Pool(TwoSlots)!Serving(SlotAt(i))
                         [] InSession -> Session(TwoSessions)!Serving(SessionAt(i))
                         [] OTHER -> TRUE)

\* A queued job an authorised pool could serve gets a runner, though its delivery is lost, other
\* repositories cannot be polled and the only token goes to another repository first (reconcile,
\* RepoPollError, the rotation of QueuedJobs); unless the token ends with a surplus runner, which
\* waits for a job of its own repository for good: reconcile launches from a list that may be out
\* of date, and no idle runner is ever taken back.
QueuedJobsAreServed ==
  \A j \in {"a1", "b1"} :
    (InScaler /\ Scaler(Polled)!Waiting(j)) ~>
    (InScaler => Scaler(Polled)!Settled(j) \/ []Scaler(Polled)!BehindSurplus(j))

\* A worker that failed is watched again, until the crash-loop budget is used up or a stop
\* comes, though nobody looks after the service (FailureExitCode, RecordFailure).
FailuresAreRetried ==
  (InService /\ Service(ShortService)!Failing) ~> (InService => Service(ShortService)!Recovered)

\* A stop ends, whatever was going on: Manager.Run, RunSupervised and the service return.
StopEnds ==
  (\/ InPool /\ Pool(TwoSlots)!Ending
   \/ InSession /\ Session(TwoSessions)!Ending
   \/ InService /\ Service(ShortService)!Ending) ~>
  (CASE InPool -> Pool(TwoSlots)!Ended
     [] InSession -> Session(TwoSessions)!Ended
     [] OTHER -> Service(ShortService)!Ended)
=============================================================================
