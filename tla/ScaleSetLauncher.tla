-------------------------- MODULE ScaleSetLauncher --------------------------
(***************************************************************************)
(* The runner launcher of one scale-set session (internal/scaleset):       *)
(* Launcher, its convergent cleanup, its reconciler, and the session that  *)
(* creates it, reconciles, listens and shuts it down.                      *)
(*                                                                         *)
(* The goroutines are the listener (HandleJobStarted, HandleJobCompleted,  *)
(* HandleDesiredRunnerCount), one awaitExit or partial-launch cleanup per  *)
(* runner, Shutdown's cleanups, and the reconciler.  They meet on l.mu     *)
(* (MuFree below: only the launch loop holds it across calls) and on one   *)
(* cleanupMu per runner (cpc).  GitHub, the message broker and the         *)
(* container backend are external: they are modelled from how the launcher *)
(* uses them, and every call to them may fail, with or without its effect. *)
(***************************************************************************)
EXTENDS Integers, FiniteSets

CONSTANTS
  Runners,        \* runner identities, numbered in the order launchLocked draws them
  MaxRunners,     \* Options.MaxRunners, 0 is "no cap"
  IDFromCreate,   \* a launch that fails after its create knows the resource's ID: TRUE for
                  \* docker, FALSE for containerd, whose one `run` call then knows the name only
  JobBudget,      \* bound: jobs GitHub ever assigns to the scale set
  FaultBudget,    \* bound: failures of external calls and abnormal exits
  LossBudget,     \* bound: clean exits whose completion event never arrives
  PassBudget,     \* bound: periodic reconcile passes
  EndBudget       \* bound: sessions ended by a cancellation, an error or a crash

ASSUME ConstantsAssumption ==
  /\ Runners \subseteq Nat /\ IsFiniteSet(Runners)
  /\ MaxRunners \in Nat
  /\ IDFromCreate \in BOOLEAN
  /\ JobBudget \in Nat
  /\ FaultBudget \in Nat
  /\ LossBudget \in Nat
  /\ PassBudget \in Nat
  /\ EndBudget \in Nat

VARIABLES
  running, st, pendingRegistrations, pendingExits, completions, desired, stopped,
  launch, fresh, left,
  lpc, ltodo, lperm,
  apc, outcome,
  cpc, cowner,
  spc, stodo,
  sess, rpc, rtodo, rcur, rerr,
  gauge,
  reg, res, job,
  assigned, evStarted, evCompleted, inbox,
  jobsLeft, faults, losses, passes, ends,
  unrecorded

launcherVars == <<running, pendingRegistrations, pendingExits, completions, desired, stopped>>
loopVars     == <<launch, fresh, left>>
listenerVars == <<lpc, ltodo, lperm>>
waiterVars   == <<apc, outcome>>
cleanupVars  == <<cpc, cowner>>
shutdownVars == <<spc, stodo>>
sessionVars  == <<sess, rpc, rtodo, rcur, rerr>>
brokerVars   == <<assigned, evStarted, evCompleted, jobsLeft>>
budgetVars   == <<faults, losses, passes, ends>>

memVars   == <<launcherVars, st, loopVars>>
procVars  == <<listenerVars, waiterVars, cleanupVars, shutdownVars, sessionVars>>
worldVars == <<gauge, reg, res, job, unrecorded>>
envVars   == <<brokerVars, inbox, budgetVars>>
progVars  == <<memVars, procVars, gauge, unrecorded>>
vars      == <<memVars, procVars, worldVars, envVars>>

-----------------------------------------------------------------------------
(* State of the program and of its environment.                            *)

RunnerState ==
  [busy : BOOLEAN, completionAccounted : BOOLEAN, occupiesCapacity : BOOLEAN,
   cleanupStarted : BOOLEAN, needsDeregistration : BOOLEAN, registrationRemoved : BOOLEAN,
   terminated : BOOLEAN, cleaned : BOOLEAN, stopReported : BOOLEAN]

\* The runnerState literal of a launch; a partial launch has already reported its stop.
NewState(stopReported) ==
  [busy |-> FALSE, completionAccounted |-> FALSE, occupiesCapacity |-> TRUE,
   cleanupStarted |-> FALSE, needsDeregistration |-> FALSE, registrationRemoved |-> FALSE,
   terminated |-> FALSE, cleaned |-> FALSE, stopReported |-> stopReported]

NoState == [NewState(FALSE) EXCEPT !.occupiesCapacity = FALSE]

Message == [full : BOOLEAN, started : SUBSET Runners, completed : SUBSET Runners, count : Int]
NoMessage == [full |-> FALSE, started |-> {}, completed |-> {}, count |-> 0]
\* What a freshly opened session reports: statistics, and no job events.
Statistics == [full |-> TRUE, started |-> {}, completed |-> {}, count |-> assigned]

\* A resource of the backend. "pending" is a create whose answer was lost and that
\* the daemon has not carried out yet.
Resources == {"none", "pending", "created", "alive", "exit0", "exit1", "gone"}
Listed(r) == res[r] \in {"created", "alive", "exit0", "exit1"}
Alive == {r \in Runners : res[r] = "alive"}

\* l.mu is held across calls only by the launch loop.
MuFree == launch = "none"

\* runningLocked: what counts against the capacity.
Occupying == {r \in running : st[r].occupiesCapacity}

Smaller(a, b) == IF a <= b THEN a ELSE b

\* The cap of allowedLocked.
Capped(start, have) ==
  IF MaxRunners = 0 THEN start
  ELSE IF MaxRunners <= have THEN 0
  ELSE Smaller(start, MaxRunners - have)

\* allowedLocked
Allowed(want) ==
  LET have == Cardinality(Occupying)
      due == Cardinality(pendingExits)
  IN  IF want <= have + due THEN 0 ELSE Capped(want - due - have, have)

Fault == faults > 0 /\ faults' = faults - 1 /\ UNCHANGED <<losses, passes, ends>>
Loss == losses > 0 /\ losses' = losses - 1 /\ UNCHANGED <<faults, passes, ends>>
NoFault == UNCHANGED budgetVars

-----------------------------------------------------------------------------
Init ==
  /\ running = {} /\ st = [r \in Runners |-> NoState]
  /\ pendingRegistrations = {} /\ pendingExits = {} /\ completions = {}
  /\ desired = 0 /\ stopped = FALSE
  /\ launch = "none" /\ fresh = {} /\ left = 0
  /\ lpc = "idle" /\ ltodo = {} /\ lperm = FALSE
  /\ apc = [r \in Runners |-> "none"] /\ outcome = [r \in Runners |-> "none"]
  /\ cpc = [r \in Runners |-> "free"] /\ cowner = [r \in Runners |-> "none"]
  /\ spc = "off" /\ stodo = {}
  /\ sess = "starting" /\ rpc = "idle" /\ rtodo = {} /\ rcur = {} /\ rerr = FALSE
  /\ gauge = 0
  /\ reg = [r \in Runners |-> "none"] /\ res = [r \in Runners |-> "none"]
  /\ job = [r \in Runners |-> "none"]
  /\ assigned = 0 /\ evStarted = {} /\ evCompleted = {} /\ inbox = NoMessage
  /\ jobsLeft = JobBudget /\ faults = FaultBudget /\ losses = LossBudget
  /\ passes = PassBudget /\ ends = EndBudget
  /\ unrecorded = {}

-----------------------------------------------------------------------------
(* The listener's callbacks.                                               *)

ListenerReady == lpc = "idle" /\ sess = "up"

HandleJobStarted(r) ==
  /\ ListenerReady /\ MuFree /\ r \in inbox.started
  /\ inbox' = [inbox EXCEPT !.started = @ \ {r}]
  /\ st' = IF r \in running THEN [st EXCEPT ![r].busy = TRUE] ELSE st
  /\ UNCHANGED <<launcherVars, loopVars, listenerVars, budgetVars, reg>>

HandleJobCompleted(r) ==
  /\ ListenerReady /\ MuFree /\ r \in inbox.completed
  /\ inbox' = [inbox EXCEPT !.completed = @ \ {r}]
  /\ completions' = IF r \in running \cup pendingExits THEN completions \cup {r} ELSE completions
  /\ UNCHANGED <<loopVars, listenerVars, budgetVars, reg, running, pendingRegistrations,
                 pendingExits, desired, stopped, st>>

\* First critical section of HandleDesiredRunnerCount: the completions of this message
\* stop being subtracted, then the new count is recorded.
ApplyStatistics(count) ==
  /\ ListenerReady /\ MuFree
  /\ IF stopped
     THEN UNCHANGED <<launcherVars, st, listenerVars>>
     ELSE /\ st' = [r \in Runners |->
                      IF r \in completions \cap running
                      THEN [st[r] EXCEPT !.completionAccounted = TRUE] ELSE st[r]]
          /\ pendingExits' = IF count = 0 THEN {} ELSE pendingExits \ completions
          /\ completions' = {}
          /\ desired' = count
          /\ lpc' = "regs" /\ ltodo' = pendingRegistrations /\ lperm' = FALSE
          /\ UNCHANGED <<running, pendingRegistrations, stopped>>
  /\ UNCHANGED <<loopVars, budgetVars, reg>>

\* The statistics of a message are handled after its job events.
HandleDesiredRunnerCount ==
  /\ inbox.full /\ inbox.started = {} /\ inbox.completed = {}
  /\ ApplyStatistics(inbox.count)
  /\ inbox' = NoMessage

\* A poll without a message repeats the last statistics.
Heartbeat ==
  /\ ~inbox.full
  /\ ApplyStatistics(desired)
  /\ UNCHANGED inbox

\* One removeRunner of retryPendingRegistrations; a failure may be permanent.
RetryRegistration(r) ==
  /\ lpc = "regs" /\ r \in ltodo /\ MuFree
  /\ ltodo' = ltodo \ {r}
  /\ \/ /\ NoFault
        /\ reg' = [reg EXCEPT ![r] = "gone"]
        /\ pendingRegistrations' = pendingRegistrations \ {r}
        /\ UNCHANGED lperm
     \/ /\ Fault
        /\ reg' \in {reg, [reg EXCEPT ![r] = "gone"]}
        /\ UNCHANGED lperm \/ lperm' = TRUE
        /\ UNCHANGED pendingRegistrations
  /\ UNCHANGED <<loopVars, running, pendingExits, completions, desired, stopped, st, lpc, inbox>>

\* Mutant: a failed cleanup is never retried.
NoPendingCleanup == {}
\* Snapshot of retryPendingCleanup: the runners whose cleanup already started.
PendingCleanup == {r \in running : st[r].cleanupStarted}

RetryCleanupBegin ==
  /\ lpc = "regs" /\ ltodo = {} /\ MuFree
  /\ IF lperm
     THEN lpc' = "dead" /\ UNCHANGED ltodo
     ELSE lpc' = "cleanup" /\ ltodo' = PendingCleanup
  /\ UNCHANGED <<memVars, budgetVars, reg, inbox, lperm>>

\* Second critical section of HandleDesiredRunnerCount, up to the first launch.
LaunchLoopBegin ==
  /\ lpc = "cleanup" /\ ltodo = {} /\ MuFree
  /\ LET n == Allowed(desired)
     IN  IF lperm THEN lpc' = "dead" /\ UNCHANGED loopVars
         ELSE IF stopped \/ n = 0 THEN lpc' = "idle" /\ UNCHANGED loopVars
         ELSE lpc' = "launching" /\ launch' = "next" /\ left' = n /\ UNCHANGED fresh
  /\ UNCHANGED <<launcherVars, budgetVars, reg, inbox, st, ltodo, lperm>>

-----------------------------------------------------------------------------
(* launchLocked, run with l.mu held by the listener or by a refill.        *)

\* The loop is over: its holder releases l.mu. A permanent error ends the listener;
\* a refill only logs it.
LoopEnd(permanent) ==
  /\ launch' = "none" /\ fresh' = {} /\ left' = 0
  /\ lpc' = IF lpc # "launching" THEN lpc ELSE IF permanent THEN "dead" ELSE "idle"
  /\ apc' = [q \in Runners |-> IF apc[q] = "launching" THEN "done" ELSE apc[q]]

\* After a launch that succeeded: next one, or release l.mu.
LoopNext(r) ==
  IF left = 1
  THEN /\ launch' = "none" /\ fresh' = {} /\ left' = 0
       /\ lpc' = IF lpc = "launching" THEN "idle" ELSE lpc
       /\ apc' = [q \in Runners |-> IF q = r THEN "wait"
                                    ELSE IF apc[q] = "launching" THEN "done" ELSE apc[q]]
  ELSE /\ launch' = "next" /\ fresh' = {} /\ left' = left - 1
       /\ UNCHANGED lpc
       /\ apc' = [apc EXCEPT ![r] = "wait"]

\* OnStart, then GenerateJitRunnerConfig. On error the deferred OnStop undoes the gauge;
\* an answer that is lost leaves a registration nobody knows. The names are random and
\* interchangeable: here, drawn in order.
GenerateJIT(r) ==
  /\ launch = "next" /\ reg[r] = "none" /\ \A q \in Runners : reg[q] = "none" => r <= q
  /\ \/ /\ NoFault
        /\ reg' = [reg EXCEPT ![r] = "live"]
        /\ gauge' = gauge + 1
        /\ launch' = "create" /\ fresh' = {r}
        /\ UNCHANGED <<left, lpc, apc, unrecorded>>
     \/ /\ Fault
        /\ \E lost, permanent \in BOOLEAN :
             /\ reg' = IF lost THEN [reg EXCEPT ![r] = "live"] ELSE reg
             /\ unrecorded' = IF lost THEN unrecorded \cup {r} ELSE unrecorded
             /\ LoopEnd(permanent)
        /\ UNCHANGED gauge
  /\ UNCHANGED <<running, pendingRegistrations, st, outcome, res>>

\* No runner name could be generated: here, the model has used up Runners.
NameFailure ==
  /\ launch = "next" /\ \A r \in Runners : reg[r] # "none"
  /\ LoopEnd(FALSE)
  /\ UNCHANGED <<budgetVars, gauge, reg, res, unrecorded, running, pendingRegistrations, st,
                 outcome>>

\* be.Launch failed and returned a handle: the runner counts until cleanup confirms its end.
\* The handle has the resource's ID ("partial") or only its name ("named").
PartialLaunch(r, kind) ==
  /\ running' = running \cup {r}
  /\ st' = [st EXCEPT ![r] = NewState(TRUE)]
  /\ gauge' = gauge - 1
  /\ outcome' = [outcome EXCEPT ![r] = kind]
  /\ launch' = "none" /\ fresh' = {} /\ left' = 0
  /\ lpc' = IF lpc = "launching" THEN "idle" ELSE lpc
  /\ apc' = [q \in Runners |-> IF q = r THEN "finish"
                               ELSE IF apc[q] = "launching" THEN "done" ELSE apc[q]]

\* The create request of be.Launch.
BackendCreate(r) ==
  /\ launch = "create" /\ r \in fresh
  /\ \/ /\ NoFault
        /\ res' = [res EXCEPT ![r] = "created"] /\ launch' = "start"
        /\ UNCHANGED <<running, st, gauge, outcome, fresh, left, lpc, apc>>
     \/ /\ Fault    \* no resource and no handle: the registration is unused
        /\ launch' = "unregister"
        /\ UNCHANGED <<res, running, st, gauge, outcome, fresh, left, lpc, apc>>
     \/ /\ Fault    \* the answer is lost: created, not created yet, or never
        /\ \E s \in {"none", "pending", "created"} : res' = [res EXCEPT ![r] = s]
        /\ PartialLaunch(r, "named")
  /\ UNCHANGED <<pendingRegistrations, reg, unrecorded>>

\* The start request of be.Launch, and the bookkeeping after be.Launch returned.
BackendStart(r) ==
  /\ launch = "start" /\ r \in fresh
  /\ \/ /\ NoFault
        /\ res' = [res EXCEPT ![r] = "alive"]
        /\ running' = running \cup {r}
        /\ st' = [st EXCEPT ![r] = NewState(FALSE)]
        /\ LoopNext(r)
        /\ UNCHANGED <<gauge, outcome>>
     \/ /\ Fault
        /\ \E s \in {"created", "alive"} : res' = [res EXCEPT ![r] = s]
        /\ PartialLaunch(r, IF IDFromCreate THEN "partial" ELSE "named")
  /\ UNCHANGED <<pendingRegistrations, reg, unrecorded>>

\* Mutant: a registration that could not be removed is forgotten.
Forgotten(r) == pendingRegistrations
Remembered(r) == pendingRegistrations \cup {r}

\* be.Launch failed without a handle: remove the unused registration or remember it.
RemoveUnused(r) ==
  /\ launch = "unregister" /\ r \in fresh
  /\ gauge' = gauge - 1
  /\ \/ /\ NoFault
        /\ reg' = [reg EXCEPT ![r] = "gone"]
        /\ UNCHANGED pendingRegistrations
        /\ LoopEnd(FALSE)
     \/ /\ Fault
        /\ reg' \in {reg, [reg EXCEPT ![r] = "gone"]}
        /\ pendingRegistrations' = Remembered(r)
        /\ \E permanent \in BOOLEAN : LoopEnd(permanent)
  /\ UNCHANGED <<running, st, outcome, res, unrecorded>>

-----------------------------------------------------------------------------
(* awaitExit                                                               *)

\* Mutants: the exit is never held back; it is although its completion was accounted.
NeverHeldBack(r) == FALSE
AlwaysHeldBack(r) == desired > 0
\* A clean exit stays in the broker's count until its completion is accounted.
HeldBack(r) == ~st[r].completionAccounted /\ desired > 0

\* Wait returned 0.
AwaitCleanExit(r) ==
  /\ apc[r] = "wait" /\ res[r] = "exit0" /\ MuFree
  /\ pendingExits' = IF HeldBack(r) THEN pendingExits \cup {r} ELSE pendingExits
  /\ apc' = [apc EXCEPT ![r] = "finish"]
  /\ outcome' = [outcome EXCEPT ![r] = "ok"]
  /\ UNCHANGED <<loopVars, budgetVars>>

\* Wait returned a non-zero code, or an error (the resource is gone, or the call failed).
AwaitFailure(r) ==
  /\ apc[r] = "wait"
  /\ \/ res[r] = "exit1" /\ outcome' = [outcome EXCEPT ![r] = "code"] /\ NoFault
     \/ res[r] = "gone" /\ NoFault
        /\ \E o \in {"code", "err"} : outcome' = [outcome EXCEPT ![r] = o]
     \/ res[r] = "alive" /\ outcome' = [outcome EXCEPT ![r] = "err"] /\ Fault
  /\ apc' = [apc EXCEPT ![r] = "finish"]
  /\ UNCHANGED <<loopVars, pendingExits>>

\* Mutant: refill does not look at l.stopped.
RefillAfterStop == TRUE
\* The early return of refill.
MayRefill == ~stopped

\* refill, after a clean exit.
Refill(r) ==
  /\ apc[r] = "refill" /\ MuFree
  /\ LET n == Allowed(desired)
     IN  IF ~MayRefill \/ n = 0
         THEN apc' = [apc EXCEPT ![r] = "done"] /\ UNCHANGED loopVars
         ELSE apc' = [apc EXCEPT ![r] = "launching"] /\ launch' = "next" /\ left' = n
              /\ UNCHANGED fresh
  /\ UNCHANGED <<budgetVars, pendingExits, outcome>>

-----------------------------------------------------------------------------
(* finishRunner, run by a runner's own goroutine ("await"), by the         *)
(* listener's retryPendingCleanup ("retry") or by Shutdown ("shutdown").   *)

Wants(r, owner) ==
  \/ owner = "await" /\ apc[r] = "finish"
  \/ owner = "retry" /\ lpc = "cleanup" /\ r \in ltodo /\ \A q \in Runners : cowner[q] # "retry"
  \/ owner = "shutdown" /\ spc = "finish" /\ r \in stodo

Terminates(r, owner) == owner # "await" \/ outcome[r] \in {"err", "partial", "named"}

\* Mutant: a cleanup of Shutdown forgets its wg.Done.
NotDone(r, owner) == stodo
\* wg.Done of a cleanup run by Shutdown.
Done(r, owner) == IF owner = "shutdown" THEN stodo \ {r} ELSE stodo

\* finishRunner returns: its caller goes on.
Return(r, owner) ==
  /\ apc' = IF owner = "await"
            THEN [apc EXCEPT ![r] = IF outcome[r] = "ok" THEN "refill" ELSE "done"] ELSE apc
  /\ ltodo' = IF owner = "retry" THEN ltodo \ {r} ELSE ltodo
  /\ stodo' = Done(r, owner)

\* The same, from inside the critical section of cleanupMu.
Release(r) ==
  /\ Return(r, cowner[r])
  /\ cpc' = [cpc EXCEPT ![r] = "free"]
  /\ cowner' = [cowner EXCEPT ![r] = "none"]

\* The phase after termination: deregister only when still needed.
AfterTermination(s) ==
  IF s.needsDeregistration /\ ~s.registrationRemoved THEN "dereg" ELSE "remove"

FinishBegin(r, owner) ==
  /\ cpc[r] = "free" /\ cowner[r] = "none" /\ Wants(r, owner) /\ MuFree
  /\ IF st[r].cleaned
     THEN Return(r, owner) /\ UNCHANGED <<st, cleanupVars>>
     ELSE LET terminate == Terminates(r, owner)
              s == IF st[r].cleanupStarted THEN st[r]
                   ELSE [st[r] EXCEPT !.cleanupStarted = TRUE,
                                      !.needsDeregistration = terminate \/ ~st[r].busy]
          IN  /\ st' = [st EXCEPT ![r] = s]
              /\ cowner' = [cowner EXCEPT ![r] = owner]
              /\ cpc' = [cpc EXCEPT ![r] = IF s.terminated THEN AfterTermination(s)
                                           ELSE IF terminate THEN "kill" ELSE "mark"]
              /\ UNCHANGED <<apc, ltodo, stodo>>
  /\ UNCHANGED <<budgetVars, gauge, reg, res, running, lperm>>

Killed(r) == [res EXCEPT ![r] = IF @ = "alive" THEN "exit1" ELSE @]

\* Mutant: the error of Kill is ignored.
KillErrorIgnored(r) == cpc' = [cpc EXCEPT ![r] = "mark"] /\ UNCHANGED <<apc, ltodo, stodo, cowner>>
\* Kill failed: the runner may be alive, so it keeps its slot and its registration.
KillError(r) == Release(r)

FinishKill(r) ==
  /\ cpc[r] = "kill"
  /\ \/ /\ NoFault
        /\ res' = Killed(r)
        /\ cpc' = [cpc EXCEPT ![r] = "mark"]
        /\ UNCHANGED <<apc, ltodo, stodo, cowner>>
     \/ /\ Fault
        /\ res' \in {res, Killed(r)}
        /\ KillError(r)
  /\ UNCHANGED <<running, st, lperm, gauge, reg>>

\* Mutant: OnStop is reported without looking at stopReported.
AlwaysReportStop(r) == TRUE
ReportStop(r) == ~st[r].stopReported

\* The slot is free from here on; OnStop is reported once.
FinishMark(r) ==
  /\ cpc[r] = "mark" /\ MuFree
  /\ st' = [st EXCEPT ![r].terminated = TRUE, ![r].occupiesCapacity = FALSE,
                      ![r].stopReported = TRUE]
  /\ gauge' = IF ReportStop(r) THEN gauge - 1 ELSE gauge
  /\ cpc' = [cpc EXCEPT ![r] = AfterTermination(st[r])]
  /\ UNCHANGED <<budgetVars, running, ltodo, lperm, apc, stodo, cowner, reg, res>>

\* removeRunner: a registration that is already gone is a success.
FinishDeregister(r) ==
  /\ cpc[r] = "dereg"
  /\ \/ /\ NoFault
        /\ reg' = [reg EXCEPT ![r] = "gone"]
        /\ st' = [st EXCEPT ![r].registrationRemoved = TRUE]
        /\ cpc' = [cpc EXCEPT ![r] = "remove"]
        /\ UNCHANGED <<apc, ltodo, stodo, cowner, lperm>>
     \/ /\ Fault
        /\ reg' \in {reg, [reg EXCEPT ![r] = "gone"]}
        /\ UNCHANGED lperm \/ (cowner[r] = "retry" /\ lperm' = TRUE)
        /\ Release(r)
        /\ UNCHANGED st
  /\ UNCHANGED <<running, gauge, res>>

Removed(r) == [res EXCEPT ![r] = IF Listed(r) THEN "gone" ELSE @]

\* RemoveOwnedRunner: forced, and a resource that is absent is a success.
FinishRemove(r) ==
  /\ cpc[r] = "remove"
  /\ \/ /\ NoFault
        /\ res' = Removed(r)
        /\ cpc' = [cpc EXCEPT ![r] = "settle"]
        /\ UNCHANGED <<apc, ltodo, stodo, cowner>>
     \/ /\ Fault
        /\ res' \in {res, Removed(r)}
        /\ Release(r)
  /\ UNCHANGED <<running, st, lperm, gauge, reg>>

FinishSettle(r) ==
  /\ cpc[r] = "settle" /\ MuFree
  /\ st' = [st EXCEPT ![r].cleaned = TRUE]
  /\ running' = running \ {r}
  /\ Release(r)
  /\ UNCHANGED <<budgetVars, gauge, reg, res, lperm>>

-----------------------------------------------------------------------------
(* Shutdown                                                                *)

\* Mutant: a runner that gave its slot back is left out.
OccupyingToStop == Occupying
\* The runners Shutdown cleans up: all of l.running.
ToStop == running

ShutdownBegin ==
  /\ (sess = "up" \/ lpc = "dead") /\ spc = "off" /\ MuFree
  /\ IF lpc = "dead" THEN UNCHANGED ends ELSE ends > 0 /\ ends' = ends - 1
  /\ stopped' = TRUE
  /\ spc' = "finish" /\ stodo' = ToStop
  /\ UNCHANGED <<reg, pendingRegistrations, faults, losses, passes>>

ShutdownRegistrations ==
  /\ spc = "finish" /\ stodo = {} /\ MuFree
  /\ spc' = "regs" /\ stodo' = pendingRegistrations
  /\ UNCHANGED <<budgetVars, pendingRegistrations, stopped, reg>>

ShutdownRemove(r) ==
  /\ spc = "regs" /\ r \in stodo /\ MuFree
  /\ stodo' = stodo \ {r}
  /\ \/ /\ NoFault
        /\ reg' = [reg EXCEPT ![r] = "gone"]
        /\ pendingRegistrations' = pendingRegistrations \ {r}
     \/ /\ Fault
        /\ reg' \in {reg, [reg EXCEPT ![r] = "gone"]}
        /\ UNCHANGED pendingRegistrations
  /\ UNCHANGED <<stopped, spc>>

ShutdownEnd ==
  /\ spc = "regs" /\ stodo = {}
  /\ spc' = "done"
  /\ UNCHANGED <<budgetVars, pendingRegistrations, stopped, reg, stodo>>

-----------------------------------------------------------------------------
(* Reconcile: at session start, then periodically.                         *)

\* ListOwnedRunners, before the active resources are read. An error ends the pass.
ReconcileList ==
  /\ rpc = "idle"
  /\ \/ sess = "starting" /\ lpc # "dead" /\ UNCHANGED passes
     \/ sess = "up" /\ spc # "done" /\ passes > 0 /\ passes' = passes - 1
  /\ rpc' = "listed" /\ rtodo' = {r \in Runners : Listed(r)} /\ rerr' = FALSE
  /\ UNCHANGED <<reg, res, sess, rcur, inbox, lpc, faults, losses, ends>>

\* The tracked runners whose handle has the ID that the backend lists.
Identified == {r \in running : outcome[r] # "named"}
\* Mutant: a runner that gave its slot back is not active.
OccupyingActive == Occupying \cap Identified
\* What is in l.running is active, whatever its state, if its ID is the listed one.
Active == Identified

ReconcileSnapshot ==
  /\ rpc = "listed" /\ MuFree
  /\ rpc' = "scan" /\ rtodo' = rtodo \ Active
  /\ UNCHANGED <<budgetVars, reg, res, inbox, lpc, sess, rcur, rerr>>

\* Registration first: a failure leaves the resource as the record to retry from.
ReconcileDeregister(r) ==
  /\ rpc = "scan" /\ rcur = {} /\ r \in rtodo
  /\ rtodo' = rtodo \ {r}
  /\ \/ NoFault /\ reg' = [reg EXCEPT ![r] = "gone"] /\ rcur' = {r} /\ UNCHANGED rerr
     \/ Fault /\ reg' \in {reg, [reg EXCEPT ![r] = "gone"]} /\ rerr' = TRUE /\ UNCHANGED rcur
  /\ UNCHANGED <<sess, rpc, res, inbox, lpc>>

ReconcileRemove(r) ==
  /\ rpc = "scan" /\ r \in rcur
  /\ rcur' = rcur \ {r}
  /\ \/ NoFault /\ res' = Removed(r) /\ UNCHANGED rerr
     \/ Fault /\ res' \in {res, Removed(r)} /\ rerr' = TRUE
  /\ UNCHANGED <<sess, rpc, rtodo, reg, inbox, lpc>>

\* Mutant: the session opens although the first pass failed.
AnyPassOpens == TRUE
PassOpens == ~rerr

\* The first pass gates the session: success opens the listener, whose session starts from
\* the current statistics; an error retries the pass, or ends the session when permanent.
ReconcileEnd ==
  /\ rpc = "scan" /\ rtodo = {} /\ rcur = {}
  /\ rpc' = "idle"
  /\ sess' = IF PassOpens THEN "up" ELSE sess
  /\ inbox' = IF sess = "starting" /\ PassOpens THEN Statistics ELSE inbox
  /\ \/ UNCHANGED lpc
     \/ sess = "starting" /\ ~PassOpens /\ lpc' = "dead"
  /\ UNCHANGED <<budgetVars, reg, res, rtodo, rcur, rerr>>

-----------------------------------------------------------------------------
(* Restart of the process, after a drain or after a crash.                 *)

\* Registrations that only this memory knew.
OnlyInMemory == {r \in Runners : reg[r] = "live" /\ ~Listed(r) /\ job[r] # "running"}

\* New, called by Run before the first reconcile pass.
FreshLauncher ==
  /\ running' = {} /\ pendingRegistrations' = {} /\ pendingExits' = {} /\ completions' = {}
  /\ desired' = 0 /\ stopped' = FALSE
  /\ launch' = "none" /\ fresh' = {} /\ left' = 0
  /\ lpc' = "idle" /\ ltodo' = {} /\ lperm' = FALSE
  /\ spc' = "off" /\ stodo' = {}
  /\ sess' = "starting" /\ rpc' = "idle" /\ rtodo' = {} /\ rcur' = {} /\ rerr' = FALSE
  /\ inbox' = NoMessage /\ evStarted' = {} /\ evCompleted' = {}
  /\ unrecorded' = unrecorded \cup OnlyInMemory

\* A process starts with the launcher, its goroutines and the gauge in their first state.
FreshProcess ==
  /\ FreshLauncher
  /\ st' = [r \in Runners |-> NoState]
  /\ apc' = [r \in Runners |-> "none"] /\ outcome' = [r \in Runners |-> "none"]
  /\ cpc' = [r \in Runners |-> "free"] /\ cowner' = [r \in Runners |-> "none"]
  /\ gauge' = 0
  /\ UNCHANGED <<reg, job, assigned, jobsLeft>>

\* The process was cancelled and drained, and the service manager starts it again.
Restart ==
  /\ spc = "done" /\ lpc # "dead" /\ MuFree
  /\ FreshProcess
  /\ UNCHANGED <<budgetVars, res>>

\* The process dies at any step; the daemon may still carry out a request it was sent.
Crash ==
  /\ ends > 0 /\ ends' = ends - 1 /\ UNCHANGED <<faults, losses, passes>>
  /\ FreshProcess
  /\ \/ UNCHANGED res
     \/ \E r \in fresh : launch = "create" /\ res' = [res EXCEPT ![r] = "pending"]
     \/ \E r \in fresh : launch = "start" /\ res' = [res EXCEPT ![r] = "alive"]

-----------------------------------------------------------------------------
(* The environment: GitHub, its broker, and the runner processes.          *)

JobAssigned ==
  /\ jobsLeft > 0
  /\ jobsLeft' = jobsLeft - 1 /\ assigned' = assigned + 1
  /\ UNCHANGED <<budgetVars, reg, res, job, evStarted, evCompleted, inbox>>

JobStarted(r) ==
  /\ reg[r] = "live" /\ res[r] = "alive" /\ job[r] = "none"
  /\ Cardinality({q \in Runners : job[q] = "running"}) < assigned
  /\ job' = [job EXCEPT ![r] = "running"]
  /\ evStarted' = evStarted \cup {r}
  /\ UNCHANGED <<budgetVars, reg, res, assigned, evCompleted, inbox, jobsLeft>>

\* The job ends on its runner, or GitHub gives up on a dead one; an ephemeral runner's
\* registration goes with its job.
JobCompleted(r) ==
  /\ job[r] = "running"
  /\ job' = [job EXCEPT ![r] = "done"] /\ reg' = [reg EXCEPT ![r] = "gone"]
  /\ assigned' = assigned - 1
  /\ evCompleted' = evCompleted \cup {r}
  /\ UNCHANGED <<budgetVars, res, evStarted, inbox, jobsLeft>>

\* A message carries the events so far and the statistics of this moment.
SendMessage ==
  /\ sess = "up" /\ ~inbox.full
  /\ \/ evStarted \cup evCompleted # {}
     \/ assigned # desired
  /\ inbox' = [full |-> TRUE, started |-> evStarted, completed |-> evCompleted, count |-> assigned]
  /\ evStarted' = {} /\ evCompleted' = {}
  /\ UNCHANGED <<budgetVars, reg, res, job, assigned, jobsLeft>>

\* The listener acknowledges a message before its callbacks: when the answer to that is
\* lost, the message is too, and the reopened session starts from statistics.
LoseMessage ==
  /\ ListenerReady /\ inbox.full /\ inbox.started \cup inbox.completed # {}
  /\ Loss
  /\ inbox' = Statistics
  /\ UNCHANGED <<brokerVars, reg, res, job>>

\* An ephemeral runner exits after its job; it may also die, or give up without a job.
RunnerExit(r) ==
  /\ res[r] = "alive"
  /\ \/ job[r] = "done" /\ NoFault /\ res' = [res EXCEPT ![r] = "exit0"]
     \/ job[r] = "none" /\ Loss /\ res' = [res EXCEPT ![r] = "exit0"]
     \/ Fault /\ res' = [res EXCEPT ![r] = "exit1"]
  /\ UNCHANGED <<brokerVars, reg, job, inbox>>

\* The daemon carries out a create whose answer was lost.
LateCreate(r) ==
  /\ res[r] = "pending"
  /\ res' = [res EXCEPT ![r] = "created"]
  /\ UNCHANGED <<envVars, reg, job>>

-----------------------------------------------------------------------------
(* The goroutines, each with what it never touches.                       *)

Owners == {"await", "retry", "shutdown"}

Listener ==
  /\ \/ \E r \in Runners : HandleJobStarted(r) \/ HandleJobCompleted(r) \/ RetryRegistration(r)
     \/ HandleDesiredRunnerCount \/ Heartbeat \/ RetryCleanupBegin \/ LaunchLoopBegin
  /\ UNCHANGED <<waiterVars, cleanupVars, shutdownVars, sessionVars, brokerVars, gauge, res, job,
                 unrecorded>>

LaunchLoop ==
  /\ \/ NameFailure
     \/ \E r \in Runners : GenerateJIT(r) \/ BackendCreate(r) \/ BackendStart(r) \/ RemoveUnused(r)
  /\ UNCHANGED <<cleanupVars, shutdownVars, sessionVars, brokerVars, pendingExits, completions,
                 desired, stopped, ltodo, lperm, job, inbox>>

AwaitExit(r) ==
  /\ AwaitCleanExit(r) \/ AwaitFailure(r) \/ Refill(r)
  /\ UNCHANGED <<worldVars, listenerVars, cleanupVars, shutdownVars, sessionVars, brokerVars,
                 running, pendingRegistrations, completions, desired, stopped, st, inbox>>

FinishRunner(r) ==
  /\ \/ \E owner \in Owners : FinishBegin(r, owner)
     \/ FinishKill(r) \/ FinishMark(r) \/ FinishDeregister(r) \/ FinishRemove(r) \/ FinishSettle(r)
  /\ UNCHANGED <<loopVars, sessionVars, brokerVars, pendingRegistrations, pendingExits,
                 completions, desired, stopped, lpc, outcome, spc, job, unrecorded, inbox>>

Shutdown ==
  /\ ShutdownBegin \/ ShutdownRegistrations \/ ShutdownEnd \/ \E r \in Runners : ShutdownRemove(r)
  /\ UNCHANGED <<loopVars, listenerVars, waiterVars, cleanupVars, sessionVars, brokerVars, running,
                 pendingExits, completions, desired, st, gauge, res, job, unrecorded, inbox>>

Reconcile ==
  /\ \/ ReconcileList \/ ReconcileSnapshot \/ ReconcileEnd
     \/ \E r \in Runners : ReconcileDeregister(r) \/ ReconcileRemove(r)
  /\ UNCHANGED <<memVars, ltodo, lperm, waiterVars, cleanupVars, shutdownVars, brokerVars, gauge,
                 job, unrecorded>>

GitHub ==
  /\ JobAssigned \/ SendMessage \/ LoseMessage \/ \E r \in Runners : JobStarted(r) \/ JobCompleted(r)
  /\ UNCHANGED progVars

Host ==
  /\ \E r \in Runners : RunnerExit(r) \/ LateCreate(r)
  /\ UNCHANGED progVars

\* A permanent error ends the session for good.
Ended == lpc = "dead" /\ spc = "done" /\ UNCHANGED vars

Next ==
  \/ Listener \/ LaunchLoop \/ Shutdown \/ Reconcile \/ Restart \/ Crash \/ Ended
  \/ GitHub \/ Host
  \/ \E r \in Runners : AwaitExit(r) \/ FinishRunner(r)

Spec == Init /\ [][Next]_vars

\* Goroutines are scheduled and the polls of the listener go on; jobs end, their runners
\* exit and the broker delivers. Faults, losses and the end of a session never have to
\* happen, except that a permanent error does end it.
Fairness ==
  /\ WF_vars(Listener) /\ WF_vars(LaunchLoop) /\ WF_vars(Reconcile)
  /\ WF_vars(Shutdown /\ (lpc = "dead" \/ spc # "off"))
  /\ \A r \in Runners : WF_vars(AwaitExit(r)) /\ WF_vars(FinishRunner(r))
  /\ WF_vars(GitHub /\ ~UNCHANGED inbox)
  /\ \A r \in Runners : WF_vars(GitHub /\ job'[r] # job[r])
  /\ \A r \in Runners : WF_vars(Host /\ res[r] # res'[r])

FairSpec == Spec /\ Fairness

-----------------------------------------------------------------------------
(* Properties                                                              *)

LauncherTypeOK ==
  /\ running \subseteq Runners /\ st \in [Runners -> RunnerState]
  /\ pendingRegistrations \subseteq Runners /\ pendingExits \subseteq Runners
  /\ completions \subseteq Runners /\ desired \in Int /\ stopped \in BOOLEAN
  /\ launch \in {"none", "next", "create", "start", "unregister"}
  /\ fresh \subseteq Runners /\ left \in Nat

GoroutinesTypeOK ==
  /\ lpc \in {"idle", "regs", "cleanup", "launching", "dead"}
  /\ ltodo \subseteq Runners /\ lperm \in BOOLEAN
  /\ apc \in [Runners -> {"none", "wait", "finish", "refill", "launching", "done"}]
  /\ outcome \in [Runners -> {"none", "ok", "code", "err", "partial", "named"}]
  /\ cpc \in [Runners -> {"free", "kill", "mark", "dereg", "remove", "settle"}]
  /\ cowner \in [Runners -> {"none"} \cup Owners]
  /\ spc \in {"off", "finish", "regs", "done"} /\ stodo \subseteq Runners
  /\ sess \in {"starting", "up"} /\ rpc \in {"idle", "listed", "scan"}
  /\ rtodo \subseteq Runners /\ rcur \subseteq Runners /\ rerr \in BOOLEAN

WorldTypeOK ==
  /\ gauge \in Int /\ unrecorded \subseteq Runners
  /\ reg \in [Runners -> {"none", "live", "gone"}] /\ res \in [Runners -> Resources]
  /\ job \in [Runners -> {"none", "running", "done"}]
  /\ assigned \in Int /\ evStarted \subseteq Runners /\ evCompleted \subseteq Runners
  /\ inbox \in Message

BudgetsTypeOK ==
  /\ jobsLeft \in Nat /\ faults \in Nat /\ losses \in Nat /\ passes \in Nat /\ ends \in Nat

\* Every variable has its type; in particular the launches left are never negative, however
\* many exits and runners allowedLocked subtracts from the demand.
TypeOK == LauncherTypeOK /\ GoroutinesTypeOK /\ WorldTypeOK /\ BudgetsTypeOK

\* MaxRunners bounds the runner processes really alive on the host: through failed kills,
\* partial launches, refills racing the listener, and restarts (allowedLocked, reconcile).
CapacityRespected == MaxRunners > 0 => Cardinality(Alive) <= MaxRunners

\* The reconciler never holds a runner that the launcher is launching or tracks by its ID
\* (reconcile lists before it reads l.running, and reads it under l.mu).
ReconcileSparesTracked == rpc = "scan" => (rtodo \cup rcur) \cap (Identified \cup fresh) = {}

\* A live registration can always be found again: the launcher tracks it, a backend record
\* names it, or GitHub still has its job (reconcile, finishRunner: registration first).
Found(r) ==
  \/ r \in running \cup pendingRegistrations \cup fresh
  \/ Listed(r) \/ job[r] = "running" \/ r \in unrecorded
RegistrationsDiscoverable == \A r \in Runners : reg[r] = "live" => Found(r)

\* A fault-free Shutdown leaves no resource and no registration behind, whatever the exits,
\* refills and retries it overlapped. Only the launch that a crash of an earlier process
\* interrupted can be left, before its request was carried out and a pass could list it.
ShutdownLeavesNothing ==
  spc = "done" /\ faults = FaultBudget =>
    \A r \in Runners \ unrecorded : res[r] \in {"none", "gone"} /\ reg[r] # "live"

\* The active-runner gauge is back at zero whenever nothing is left to stop, and never
\* below the runners alive in this process (OnStart and OnStop pair up).
Tracked == {r \in Runners : apc[r] # "none" /\ ~st[r].stopReported}
GaugeExact == gauge = Cardinality(Tracked) + Cardinality(fresh)

\* Without faults, no runner is started for a job that is already over: the runners not
\* done with a job never outnumber the jobs GitHub holds (pendingExits, completions).
Unspent == {r \in Occupying : job[r] # "done"}
NoIdleSurplus ==
  faults = FaultBudget /\ ends = EndBudget => Cardinality(Unspent) <= assigned

\* Nothing is created once Shutdown has begun, by the listener, by a refill or by a request
\* still under way (refill, HandleDesiredRunnerCount: l.stopped).
CreatesNothing == stopped => \A r \in Runners : res[r] = "none" => res'[r] = "none"
StoppedCreatesNothing == [][CreatesNothing]_vars

\* A tracked runner loses its registration only after its process ended, or with its job
\* (Backend.Launch: terminate the handle before releasing the registration).
ReleasesEnded ==
  \A r \in running : reg[r] = "live" /\ reg'[r] = "gone" => res[r] # "alive" \/ job'[r] = "done"
TerminateBeforeRelease == [][ReleasesEnded]_vars

\* A Shutdown ends, whatever it waits for.
ShutdownCompletes == stopped ~> (spc = "done" \/ ~stopped)

\* A cleanup that started converges, by retries if it has to, unless Shutdown gave up on it.
CleanupConverges ==
  \A r \in Runners : (r \in running /\ st[r].cleanupStarted) ~> (r \notin running \/ spc = "done")

\* "HandleDesiredRunnerCount starts runners until the desired count is met": demand is served.
DemandServed == assigned > 0 ~> (assigned = 0 \/ stopped)
=============================================================================
