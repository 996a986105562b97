-------------------------- MODULE ServiceSupervisor --------------------------
(***************************************************************************)
(* multirunner as an OS service: the service manager starts the host       *)
(* process (program), which supervises one worker process that runs the    *)
(* orchestrator.  A worker that fails is recorded in a file, the host      *)
(* exits with a failure and the manager starts it again; the fourth        *)
(* failure within a window ends the recovery with a clean exit.            *)
(***************************************************************************)
EXTENDS Integers, FiniteSets

CONSTANTS
  CrashLoopFailureCount, \* the count of failures that exhausts recovery
  FailureWindow,         \* ticks for which a failure counts
  TimeBound,             \* bound: ticks of the run
  FaultBudget,           \* bound: external calls that fail, and crashes of the host
  StopBudget             \* bound: stops asked for

ServiceAssumption ==
  /\ CrashLoopFailureCount \in Nat \ {0} /\ FailureWindow \in Nat \ {0}
  /\ {TimeBound, FaultBudget, StopBudget} \subseteq Nat

VARIABLES
  mgr,      \* the service manager
  host,     \* where the run goroutine of the host is
  stopper,  \* where program.Stop is
  stopping, \* p.stopping
  ctx,      \* the context of the run is cancelled
  worker,   \* the worker process
  failures, \* the file: times of failures, numbered since they may coincide
  read,     \* what RecordFailure has read
  now,
  budget,
  starts    \* history: worker starts since the file was last cleared

vars == <<mgr, host, stopper, stopping, ctx, worker, failures, read, now, budget, starts>>

Init ==
  /\ mgr = "stopped" /\ host = "off" /\ stopper = "none" /\ stopping = FALSE /\ ctx = FALSE
  /\ worker = "none" /\ failures = {} /\ read = {} /\ now = 0
  /\ budget = [faults |-> FaultBudget, stops |-> StopBudget] /\ starts = {}

Fault == budget.faults > 0 /\ budget' = [budget EXCEPT !.faults = @ - 1]

\* One time more.
Another(times) == times \cup {<<now, CHOOSE k \in 0..Cardinality(times) : <<now, k>> \notin times>>}

-----------------------------------------------------------------------------
\* recentFailures.
recentFailures(times) == {t \in times : t[1] > now - FailureWindow /\ t[1] <= now}

\* Mutant: one failure more.
OneMore(count) == count > CrashLoopFailureCount
Exhausted(count) == count >= CrashLoopFailureCount

\* program.Start in a new process.
StartHost ==
  /\ mgr' = "running" /\ host' = "check" /\ stopper' = "none"
  /\ stopping' = FALSE /\ ctx' = FALSE /\ worker' = "none" /\ read' = {}

\* `service start` clears the budget first; at boot, and after a delay, nothing does.
OperatorStart ==
  /\ mgr = "stopped" /\ StartHost
  /\ failures' = {} /\ starts' = {} /\ UNCHANGED <<now, budget>>
ManagerStart ==
  /\ \/ mgr = "stopped" /\ budget.stops > 0 /\ budget' = [budget EXCEPT !.stops = @ - 1]
     \/ mgr = "delay" /\ UNCHANGED budget
  /\ StartHost /\ UNCHANGED <<failures, starts, now>>

-----------------------------------------------------------------------------
(* superviseServiceWorker. *)

Check ==
  /\ host = "check"
  /\ \/ ~Exhausted(Cardinality(recentFailures(failures))) /\ host' = "spawn" /\ UNCHANGED budget
     \/ Exhausted(Cardinality(recentFailures(failures))) /\ host' = "exhausted" /\ UNCHANGED budget
     \/ Fault /\ host' = "failed"
  /\ UNCHANGED <<mgr, stopper, stopping, ctx, worker, failures, read, now, starts>>

\* cmd.Start and the process group.
Spawn ==
  /\ host = "spawn"
  /\ \/ /\ host' = "watch" /\ worker' = "running" /\ UNCHANGED budget
     \/ Fault /\ host' = "failed" /\ UNCHANGED worker
  /\ starts' = Another(starts)
  /\ UNCHANGED <<mgr, stopper, stopping, ctx, failures, read, now>>

\* The worker ends, with any exit code, at any time.
WorkerExits ==
  /\ worker = "running" /\ worker' = "exited"
  /\ UNCHANGED <<mgr, host, stopper, stopping, ctx, failures, read, now, budget, starts>>

\* superviseProcess: the select. An exit that is there counts even when the context is over.
Watch ==
  /\ host = "watch"
  /\ \/ worker = "exited" /\ host' = "failed" /\ worker' = "none"
     \/ ctx /\ worker = "running" /\ host' = "stopWorker" /\ UNCHANGED worker
  /\ UNCHANGED <<mgr, stopper, stopping, ctx, failures, read, now, budget, starts>>

\* Mutant: a worker that does not end is waited for.
NeverForced == FALSE
\* timer.C.
Forced == TRUE

\* stopSupervisedProcess: stdin is closed; the exit, or 12 seconds, a kill and 1 second.
stopSupervisedProcess ==
  /\ host = "stopWorker"
  /\ \/ worker = "exited" /\ worker' = "none" /\ host' = "done" /\ UNCHANGED budget
     \/ Forced /\ worker' = "none" /\ host' = "killed" /\ UNCHANGED budget
     \/ Forced /\ Fault /\ host' = "killed" /\ UNCHANGED worker
  /\ UNCHANGED <<mgr, stopper, stopping, ctx, failures, read, now, starts>>

\* waitForServiceOutput: up to 2 seconds more.
waitForServiceOutput ==
  /\ host = "killed" /\ host' = "done"
  /\ UNCHANGED <<mgr, stopper, stopping, ctx, worker, failures, read, now, budget, starts>>

-----------------------------------------------------------------------------
(* program. *)

\* Mutant: a failure exits like a stop.
CleanExit == 0
FailureExitCode == 1

\* The process is gone; a manager that did not ask for it looks at the exit code.
Exits(code) ==
  /\ host' = "off" /\ stopper' = "none"
  /\ mgr' = IF mgr = "stopping" \/ code = 0 THEN "stopped" ELSE "delay"

\* A failure after a stop began, or after another one, is not a failure.
FailureCounts == ~stopping /\ ~ctx

fail ==
  /\ host = "failed"
  /\ IF FailureCounts THEN stopping' = TRUE /\ host' = "read" ELSE host' = "done" /\ UNCHANGED stopping
  /\ UNCHANGED <<mgr, stopper, ctx, worker, failures, read, now, budget, starts>>

\* RecordFailure reads the file, writes it anew, and the process exits; an error is only logged.
RecordRead ==
  /\ host = "read"
  /\ read' = recentFailures(failures) /\ host' = "write"
  /\ UNCHANGED <<mgr, stopper, stopping, ctx, worker, failures, now, budget, starts>>
RecordWrite ==
  /\ host = "write"
  /\ \/ failures' = Another(read) /\ UNCHANGED budget
     \/ Fault /\ UNCHANGED failures
  /\ Exits(FailureExitCode)
  /\ UNCHANGED <<stopping, ctx, worker, read, now, starts>>

stopCrashLoop ==
  /\ host = "exhausted"
  /\ IF stopping THEN host' = "done" /\ UNCHANGED <<stopping, mgr, stopper>>
                 ELSE stopping' = TRUE /\ Exits(0)
  /\ UNCHANGED <<ctx, worker, failures, read, now, budget, starts>>

\* program.Stop: the flag and the context,
Stop ==
  /\ mgr = "running" /\ stopper = "none" /\ budget.stops > 0
  /\ budget' = [budget EXCEPT !.stops = @ - 1]
  /\ mgr' = "stopping" /\ stopper' = "clear" /\ stopping' = TRUE /\ ctx' = TRUE
  /\ UNCHANGED <<host, worker, failures, read, now, starts>>

\* the file,
StopClear ==
  /\ stopper = "clear" /\ stopper' = "wait"
  /\ \/ failures' = {} /\ starts' = {} /\ UNCHANGED budget
     \/ Fault /\ UNCHANGED <<failures, starts>>
  /\ UNCHANGED <<mgr, host, stopping, ctx, worker, read, now>>

\* 15 seconds: 12 and 1 for the worker, 2 for its output.
TimeIsUp == host = "killed"

\* and the end of the run, or the timeout: the process exits.
StopReturns ==
  /\ stopper = "wait" /\ (host = "done" \/ TimeIsUp)
  /\ Exits(0)
  /\ UNCHANGED <<stopping, ctx, worker, failures, read, now, budget, starts>>

\* The host is killed, and what is left of its group by the manager.
HostCrash ==
  /\ host \notin {"off"} /\ Fault
  /\ Exits(1) /\ worker' = "none"
  /\ UNCHANGED <<stopping, ctx, failures, read, now, starts>>

Tick ==
  /\ now < TimeBound /\ now' = now + 1
  /\ UNCHANGED <<mgr, host, stopper, stopping, ctx, worker, failures, read, budget, starts>>

Host == \/ Check \/ Spawn \/ Watch \/ stopSupervisedProcess \/ waitForServiceOutput
        \/ fail \/ RecordRead \/ RecordWrite \/ stopCrashLoop
Stopper == StopClear \/ StopReturns

Next == OperatorStart \/ ManagerStart \/ Host \/ WorkerExits \/ Stop \/ Stopper \/ HostCrash \/ Tick

Spec == Init /\ [][Next]_vars

-----------------------------------------------------------------------------
Recent(times) == {t \in times : t[1] > now - FailureWindow}

\* The failures that left no record: a crash of the host, a write that failed, a start that a
\* stop ended.
Unrecorded == (FaultBudget - budget.faults) + (StopBudget - budget.stops)

\* A service that fails over and over is not started for ever: since the last time its budget
\* was cleared, within any window, the worker is started at most CrashLoopFailureCount times,
\* not counting the failures that left no record.
RecoveryIsBounded == Cardinality(Recent(starts)) <= CrashLoopFailureCount + Unrecorded

\* No worker runs without its host, unless it could not be killed: the nested deadlines let
\* the host outlive the worker it is stopping (stopSupervisedProcess, program.Stop).
ReturnedIsOver == host = "off" /\ budget.faults = FaultBudget => worker # "running"

\* A stop has been asked for, and is over.
Ending == mgr = "stopping"
Ended == mgr = "stopped"

\* The worker failed, and it is watched again, unless its budget is used up or a stop comes.
Failing == host = "failed" /\ ~stopping
Recovered == host = "watch" \/ Ending \/ Exhausted(Cardinality(recentFailures(failures)))
=============================================================================
