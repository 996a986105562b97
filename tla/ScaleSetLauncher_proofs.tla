---------------------- MODULE ScaleSetLauncher_proofs ----------------------
(***************************************************************************)
(* Proofs about the scale-set launcher, for any number of runners, any cap *)
(* and any number of faults, losses, passes and restarts.  One inductive   *)
(* invariant, Inv, carries every theorem; its parts are named for the code *)
(* that relies on them.                                                    *)
(***************************************************************************)
EXTENDS ScaleSetLauncher, FiniteSetTheorems, TLAPS

\* What l.mu protects while a launch is under way: the loop runs in an open session that
\* has not been stopped, has a launch left, and holds at most one registration not yet
\* in l.running.
LoopInv ==
  /\ launch = "none" => fresh = {} /\ left = 0
  /\ launch # "none" => left >= 1 /\ sess = "up" /\ ~stopped
  /\ launch = "next" => fresh = {}
  /\ launch # "none" /\ launch # "next" => \E r \in Runners : fresh = {r}

\* Between the start of a process and the end of its first reconcile pass there is no
\* runner and no goroutine, and a pass without an error has what is alive in its hands.
StartInv ==
  /\ sess = "starting" =>
       /\ running = {} /\ ltodo = {} /\ stodo = {} /\ pendingRegistrations = {}
       /\ \A r \in Runners : apc[r] = "none" /\ cpc[r] = "free"
       /\ lpc \in {"idle", "dead"}
  /\ sess = "starting" /\ rpc # "idle" /\ ~rerr => Alive \subseteq rtodo \cup rcur

\* A name that is not drawn yet, or only just registered, is in nobody's hands.
UnusedInv ==
  \A r \in Runners :
    /\ r \in fresh => reg[r] # "none"
    /\ reg[r] = "none" \/ r \in fresh =>
         /\ apc[r] = "none" /\ cpc[r] = "free"
         /\ r \notin running \cup pendingRegistrations \cup ltodo \cup stodo
    /\ res[r] # "none" => reg[r] # "none"

\* finishRunner gives the slot back, and touches the registration, only when the process
\* has ended: it exited by itself, or a kill was confirmed. A handle that has only a name
\* is the handle of a failed launch, which docker never started.
CleanupInv ==
  \A r \in Runners :
    /\ apc[r] = "finish" => outcome[r] \in {"err", "partial", "named"} \/ res[r] # "alive"
    /\ cpc[r] = "mark" => res[r] # "alive"
    /\ cpc[r] \in {"dereg", "remove", "settle"} => ~st[r].occupiesCapacity
    /\ st[r].terminated => ~st[r].occupiesCapacity
    /\ outcome[r] = "named" => apc[r] \notin {"none", "wait"} /\ (IDFromCreate => res[r] # "alive")

\* What is alive has a slot, and slots with the launches to come stay within the cap.
SlotInv ==
  /\ sess = "up" => Alive \subseteq Occupying
  /\ MaxRunners > 0 => Cardinality(Occupying) + left <= MaxRunners
  /\ MaxRunners > 0 => Cardinality(Alive) <= MaxRunners

\* What a pass listed was registered, and after its snapshot nothing of it is tracked.
ReconcileInv ==
  /\ \A r \in rtodo \cup rcur : reg[r] # "none"
  /\ ReconcileSparesTracked
  /\ rpc # "scan" => rcur = {}

\* The registrations that are removed without a cleanup belong to no tracked runner.
RegistrationInv ==
  /\ pendingRegistrations \cap running = {}
  /\ lpc = "regs" => ltodo \cap running = {}
  /\ spc = "regs" => stodo \cap running = {}

Inv ==
  /\ TypeOK /\ LoopInv /\ StartInv /\ UnusedInv /\ CleanupInv /\ SlotInv /\ ReconcileInv
  /\ RegistrationInv

-----------------------------------------------------------------------------
(* Types                                                                   *)

LEMMA OccupyingFinite ==
  ASSUME LauncherTypeOK
  PROVE  /\ IsFiniteSet(Occupying) /\ Cardinality(Occupying) \in Nat
         /\ IsFiniteSet(Alive) /\ Cardinality(Alive) \in Nat
         /\ Cardinality(pendingExits) \in Nat
<1>1. IsFiniteSet(Runners)
  BY ConstantsAssumption
<1>2. Occupying \subseteq Runners /\ Alive \subseteq Runners /\ pendingExits \subseteq Runners
  BY DEF LauncherTypeOK, Occupying, Alive
<1> QED
  BY <1>1, <1>2, FS_Subset, FS_CardinalityType

\* allowedLocked never answers a negative number, nor more than the cap leaves.
LEMMA AllowedBound ==
  ASSUME LauncherTypeOK, NEW want \in Int
  PROVE  /\ Allowed(want) \in Nat
         /\ Allowed(want) > 0 /\ MaxRunners > 0 =>
              Cardinality(Occupying) + Allowed(want) <= MaxRunners
<1>1. Cardinality(Occupying) \in Nat /\ Cardinality(pendingExits) \in Nat
  BY OccupyingFinite
<1>2. MaxRunners \in Nat
  BY ConstantsAssumption
<1> QED
  BY <1>1, <1>2 DEF Allowed, Capped, Smaller

LEMMA NewStateType ==
  ASSUME NEW stopReported \in BOOLEAN
  PROVE  NewState(stopReported) \in RunnerState
  BY DEF NewState, RunnerState

LEMMA NoStateType == NoState \in RunnerState
  BY DEF NoState, NewState, RunnerState

LEMMA NoMessageType == NoMessage \in Message
  BY DEF NoMessage, Message

LEMMA BudgetType ==
  ASSUME BudgetsTypeOK, Fault \/ Loss \/ NoFault, UNCHANGED jobsLeft
  PROVE  BudgetsTypeOK'
  BY DEF BudgetsTypeOK, Fault, Loss, NoFault, budgetVars

LEMMA InitType == Init => TypeOK
<1> SUFFICES ASSUME Init PROVE TypeOK
  OBVIOUS
<1>1. LauncherTypeOK
  <2>1. st \in [Runners -> RunnerState]
    BY NoStateType DEF Init
  <2>2. stopped \in BOOLEAN
    BY DEF Init
  <2> QED BY <2>1, <2>2 DEF Init, LauncherTypeOK
<1>2. GoroutinesTypeOK
  BY DEF Init, GoroutinesTypeOK, Owners
<1>3. WorldTypeOK
  BY NoMessageType DEF Init, WorldTypeOK, Resources
<1>4. BudgetsTypeOK
  BY ConstantsAssumption DEF Init, BudgetsTypeOK
<1> QED
  BY <1>1, <1>2, <1>3, <1>4 DEF TypeOK

LEMMA ListenerType ==
  ASSUME TypeOK, Listener
  PROVE  TypeOK'
<1> USE DEF memVars, procVars, launcherVars, loopVars, listenerVars, waiterVars, cleanupVars,
            shutdownVars, sessionVars, brokerVars, budgetVars, TypeOK
<1>a. st \in [Runners -> RunnerState] /\ inbox \in Message
  BY DEF LauncherTypeOK, WorldTypeOK
<1>1. ASSUME NEW r \in Runners, HandleJobStarted(r)
      PROVE  TypeOK'
  <2>1. [st[r] EXCEPT !.busy = TRUE] \in RunnerState
    BY <1>a DEF RunnerState
  <2>2. [inbox EXCEPT !.started = @ \ {r}] \in Message
    BY <1>a DEF Message
  <2>3. LauncherTypeOK'
    BY <1>1, <2>1 DEF LauncherTypeOK, HandleJobStarted
  <2>4. GoroutinesTypeOK' /\ BudgetsTypeOK'
    BY <1>1 DEF Listener, GoroutinesTypeOK, BudgetsTypeOK, HandleJobStarted
  <2>5. WorldTypeOK'
    BY <1>1, <2>2 DEF Listener, WorldTypeOK, HandleJobStarted
  <2> QED BY <2>3, <2>4, <2>5
<1>2. ASSUME NEW r \in Runners, HandleJobCompleted(r)
      PROVE  TypeOK'
  <2>1. [inbox EXCEPT !.completed = @ \ {r}] \in Message
    BY <1>a DEF Message
  <2>2. LauncherTypeOK'
    BY <1>2 DEF LauncherTypeOK, HandleJobCompleted
  <2>3. GoroutinesTypeOK' /\ BudgetsTypeOK'
    BY <1>2 DEF Listener, GoroutinesTypeOK, BudgetsTypeOK, HandleJobCompleted
  <2>4. WorldTypeOK'
    BY <1>2, <2>1 DEF Listener, WorldTypeOK, HandleJobCompleted
  <2> QED BY <2>2, <2>3, <2>4
<1>3. ASSUME NEW r \in Runners, RetryRegistration(r)
      PROVE  TypeOK'
  <2>1. LauncherTypeOK'
    BY <1>3 DEF LauncherTypeOK, RetryRegistration
  <2>2. GoroutinesTypeOK'
    BY <1>3 DEF Listener, GoroutinesTypeOK, RetryRegistration
  <2>3. WorldTypeOK'
    BY <1>3 DEF Listener, WorldTypeOK, RetryRegistration
  <2>4. BudgetsTypeOK'
    BY <1>3, BudgetType DEF Listener, RetryRegistration
  <2> QED BY <2>1, <2>2, <2>3, <2>4
<1>b. ASSUME NEW count \in Int, ApplyStatistics(count), inbox' \in Message
      PROVE  TypeOK'
  <2>1. \A r \in Runners : [st[r] EXCEPT !.completionAccounted = TRUE] \in RunnerState
    BY <1>a DEF RunnerState
  <2>2. LauncherTypeOK'
    BY <1>b, <2>1 DEF LauncherTypeOK, ApplyStatistics
  <2>3. GoroutinesTypeOK' /\ BudgetsTypeOK'
    BY <1>b DEF Listener, GoroutinesTypeOK, BudgetsTypeOK, LauncherTypeOK, ApplyStatistics
  <2>4. WorldTypeOK'
    BY <1>b DEF Listener, WorldTypeOK, ApplyStatistics
  <2> QED BY <2>2, <2>3, <2>4
<1>4. CASE HandleDesiredRunnerCount
  <2>1. inbox.count \in Int
    BY <1>a DEF Message
  <2> QED BY <1>4, <1>b, <2>1, NoMessageType DEF HandleDesiredRunnerCount
<1>5. CASE Heartbeat
  <2>1. desired \in Int
    BY DEF LauncherTypeOK
  <2> QED BY <1>5, <1>a, <1>b, <2>1 DEF Heartbeat
<1>6. CASE RetryCleanupBegin
  <2>1. PendingCleanup \subseteq Runners
    BY DEF LauncherTypeOK, PendingCleanup
  <2>2. LauncherTypeOK' /\ BudgetsTypeOK'
    BY <1>6 DEF Listener, LauncherTypeOK, BudgetsTypeOK, RetryCleanupBegin
  <2>3. GoroutinesTypeOK'
    BY <1>6, <2>1 DEF Listener, GoroutinesTypeOK, RetryCleanupBegin
  <2>4. WorldTypeOK'
    BY <1>6 DEF Listener, WorldTypeOK, RetryCleanupBegin
  <2> QED BY <2>2, <2>3, <2>4
<1>7. CASE LaunchLoopBegin
  <2>1. Allowed(desired) \in Nat
    BY AllowedBound DEF LauncherTypeOK
  <2>2. LauncherTypeOK' /\ BudgetsTypeOK'
    BY <1>7, <2>1 DEF Listener, LauncherTypeOK, BudgetsTypeOK, LaunchLoopBegin
  <2>3. GoroutinesTypeOK'
    BY <1>7 DEF Listener, GoroutinesTypeOK, LaunchLoopBegin
  <2>4. WorldTypeOK'
    BY <1>7 DEF Listener, WorldTypeOK, LaunchLoopBegin
  <2> QED BY <2>2, <2>3, <2>4
<1> QED
  BY <1>1, <1>2, <1>3, <1>4, <1>5, <1>6, <1>7 DEF Listener

LEMMA LoopEndType ==
  ASSUME LauncherTypeOK, GoroutinesTypeOK, NEW permanent \in BOOLEAN, LoopEnd(permanent)
  PROVE  /\ launch' = "none" /\ fresh' = {} /\ left' = 0
         /\ lpc' \in {"idle", "regs", "cleanup", "launching", "dead"}
         /\ apc' \in [Runners -> {"none", "wait", "finish", "refill", "launching", "done"}]
  BY DEF LoopEnd, GoroutinesTypeOK

LEMMA LoopNextType ==
  ASSUME LauncherTypeOK, GoroutinesTypeOK, left >= 1, NEW r \in Runners, LoopNext(r)
  PROVE  /\ launch' \in {"none", "next"} /\ fresh' = {} /\ left' = left - 1 /\ left' \in Nat
         /\ lpc' \in {"idle", "regs", "cleanup", "launching", "dead"}
         /\ apc' \in [Runners -> {"none", "wait", "finish", "refill", "launching", "done"}]
<1>1. left \in Nat /\ left # 0
  BY DEF LauncherTypeOK
<1>2. CASE left = 1
  BY <1>2 DEF LoopNext, GoroutinesTypeOK
<1>3. CASE left # 1
  BY <1>1, <1>3 DEF LoopNext, GoroutinesTypeOK
<1> QED BY <1>2, <1>3

LEMMA PartialLaunchType ==
  ASSUME LauncherTypeOK, GoroutinesTypeOK, gauge \in Int, NEW r \in Runners, 
         NEW kind \in {"partial", "named"}, PartialLaunch(r, kind)
  PROVE  /\ launch' = "none" /\ fresh' = {} /\ left' = 0
         /\ running' = running \cup {r} /\ st' \in [Runners -> RunnerState] /\ gauge' \in Int
         /\ lpc' \in {"idle", "regs", "cleanup", "launching", "dead"}
         /\ apc' \in [Runners -> {"none", "wait", "finish", "refill", "launching", "done"}]
         /\ outcome' \in [Runners -> {"none", "ok", "code", "err", "partial", "named"}]
<1>1. NewState(TRUE) \in RunnerState
  BY NewStateType
<1>2. st' \in [Runners -> RunnerState]
  BY <1>1 DEF PartialLaunch, LauncherTypeOK
<1>3. gauge' \in Int /\ launch' = "none" /\ fresh' = {} /\ left' = 0 /\ running' = running \cup {r}
  BY DEF PartialLaunch
<1>4. /\ lpc' \in {"idle", "regs", "cleanup", "launching", "dead"}
      /\ apc' \in [Runners -> {"none", "wait", "finish", "refill", "launching", "done"}]
      /\ outcome' \in [Runners -> {"none", "ok", "code", "err", "partial", "named"}]
  BY DEF PartialLaunch, GoroutinesTypeOK
<1> QED BY <1>2, <1>3, <1>4

LEMMA LaunchLoopType ==
  ASSUME TypeOK, LoopInv, LaunchLoop
  PROVE  TypeOK'
<1> USE DEF memVars, procVars, launcherVars, loopVars, listenerVars, waiterVars, cleanupVars,
            shutdownVars, sessionVars, brokerVars, budgetVars, TypeOK
<1>1. CASE NameFailure
  <2>1. LoopEnd(FALSE)
    BY <1>1 DEF NameFailure
  <2>a. launch' = "none" /\ fresh' = {} /\ left' = 0
    BY <2>1 DEF LoopEnd
  <2>2. LauncherTypeOK' /\ BudgetsTypeOK'
    BY <1>1, <2>a DEF LaunchLoop, NameFailure, LauncherTypeOK, BudgetsTypeOK
  <2>3. GoroutinesTypeOK'
    BY <1>1, <2>1, LoopEndType DEF LaunchLoop, NameFailure, GoroutinesTypeOK
  <2>4. WorldTypeOK'
    BY <1>1 DEF LaunchLoop, NameFailure, WorldTypeOK
  <2> QED BY <2>2, <2>3, <2>4
<1>2. ASSUME NEW r \in Runners, GenerateJIT(r)
      PROVE  TypeOK'
  <2>1. BudgetsTypeOK'
    BY <1>2, BudgetType DEF LaunchLoop, GenerateJIT
  <2>2. CASE launch' = "create" /\ fresh' = {r} /\ UNCHANGED <<left, lpc, apc, unrecorded>>
             /\ gauge' = gauge + 1 /\ reg' = [reg EXCEPT ![r] = "live"]
    <3>1. LauncherTypeOK'
      BY <1>2, <2>2 DEF LaunchLoop, GenerateJIT, LauncherTypeOK
    <3>2. GoroutinesTypeOK'
      BY <1>2, <2>2 DEF LaunchLoop, GenerateJIT, GoroutinesTypeOK
    <3>3. WorldTypeOK'
      BY <1>2, <2>2 DEF LaunchLoop, GenerateJIT, WorldTypeOK
    <3> QED BY <2>1, <3>1, <3>2, <3>3
  <2>3. ASSUME NEW lost \in BOOLEAN, NEW permanent \in BOOLEAN, LoopEnd(permanent),
               reg' = IF lost THEN [reg EXCEPT ![r] = "live"] ELSE reg,
               unrecorded' = IF lost THEN unrecorded \cup {r} ELSE unrecorded, UNCHANGED gauge
        PROVE  TypeOK'
    <3>1. LauncherTypeOK'
      BY <1>2, <2>3, LoopEndType DEF LaunchLoop, GenerateJIT, LauncherTypeOK
    <3>2. GoroutinesTypeOK'
      BY <1>2, <2>3, LoopEndType DEF LaunchLoop, GenerateJIT, GoroutinesTypeOK
    <3>3. WorldTypeOK'
      BY <1>2, <2>3 DEF LaunchLoop, GenerateJIT, WorldTypeOK
    <3> QED BY <2>1, <3>1, <3>2, <3>3
  <2> QED BY <1>2, <2>2, <2>3 DEF GenerateJIT
<1>3. ASSUME NEW r \in Runners, BackendCreate(r)
      PROVE  TypeOK'
  <2>1. BudgetsTypeOK'
    BY <1>3, BudgetType DEF LaunchLoop, BackendCreate
  <2>a. res' \in [Runners -> Resources]
    BY <1>3 DEF BackendCreate, WorldTypeOK, Resources
  <2>b. gauge' \in Int
    <3>1. gauge' = gauge \/ gauge' = gauge - 1
      BY <1>3, Zenon DEF BackendCreate, PartialLaunch
    <3> QED BY <3>1 DEF WorldTypeOK
  <2>2. WorldTypeOK'
    BY <1>3, <2>a, <2>b DEF LaunchLoop, BackendCreate, WorldTypeOK
  <2>3. CASE PartialLaunch(r, "named")
    <3>1. LauncherTypeOK'
      BY <1>3, <2>3, PartialLaunchType DEF LaunchLoop, BackendCreate, LauncherTypeOK, WorldTypeOK
    <3>2. GoroutinesTypeOK'
      BY <1>3, <2>3, PartialLaunchType DEF LaunchLoop, BackendCreate, GoroutinesTypeOK, WorldTypeOK
    <3> QED BY <2>1, <2>2, <3>1, <3>2
  <2>4. CASE UNCHANGED <<running, st, gauge, outcome, fresh, left, lpc, apc>>
             /\ launch' \in {"start", "unregister"}
    <3>1. LauncherTypeOK'
      BY <1>3, <2>4 DEF LaunchLoop, BackendCreate, LauncherTypeOK
    <3>2. GoroutinesTypeOK'
      BY <1>3, <2>4 DEF LaunchLoop, BackendCreate, GoroutinesTypeOK
    <3> QED BY <2>1, <2>2, <3>1, <3>2
  <2> QED BY <1>3, <2>3, <2>4 DEF BackendCreate
<1>4. ASSUME NEW r \in Runners, BackendStart(r)
      PROVE  TypeOK'
  <2>1. BudgetsTypeOK'
    BY <1>4, BudgetType DEF LaunchLoop, BackendStart
  <2>a. res' \in [Runners -> Resources]
    BY <1>4 DEF BackendStart, WorldTypeOK, Resources
  <2>b. gauge' \in Int
    <3>1. gauge' = gauge \/ gauge' = gauge - 1
      BY <1>4, Zenon DEF BackendStart, PartialLaunch
    <3> QED BY <3>1 DEF WorldTypeOK
  <2>2. WorldTypeOK'
    BY <1>4, <2>a, <2>b DEF LaunchLoop, BackendStart, WorldTypeOK
  <2>3. CASE PartialLaunch(r, IF IDFromCreate THEN "partial" ELSE "named")
    <3>1. LauncherTypeOK'
      BY <1>4, <2>3, PartialLaunchType DEF LaunchLoop, BackendStart, LauncherTypeOK, WorldTypeOK
    <3>2. GoroutinesTypeOK'
      BY <1>4, <2>3, PartialLaunchType DEF LaunchLoop, BackendStart, GoroutinesTypeOK, WorldTypeOK
    <3> QED BY <2>1, <2>2, <3>1, <3>2
  <2>4. CASE LoopNext(r) /\ running' = running \cup {r} /\ UNCHANGED outcome
             /\ st' = [st EXCEPT ![r] = NewState(FALSE)]
    <3>1. left >= 1
      BY <1>4 DEF BackendStart, LoopInv
    <3>2. NewState(FALSE) \in RunnerState
      BY NewStateType
    <3>3. LauncherTypeOK'
      BY <1>4, <2>4, <3>1, <3>2, LoopNextType DEF LaunchLoop, BackendStart, LauncherTypeOK
    <3>4. GoroutinesTypeOK'
      BY <1>4, <2>4, <3>1, LoopNextType DEF LaunchLoop, BackendStart, GoroutinesTypeOK
    <3> QED BY <2>1, <2>2, <3>3, <3>4
  <2> QED BY <1>4, <2>3, <2>4 DEF BackendStart
<1>5. ASSUME NEW r \in Runners, RemoveUnused(r)
      PROVE  TypeOK'
  <2>1. BudgetsTypeOK'
    BY <1>5, BudgetType DEF LaunchLoop, RemoveUnused
  <2>a. reg' \in [Runners -> {"none", "live", "gone"}]
    BY <1>5 DEF RemoveUnused, WorldTypeOK
  <2>b. gauge' \in Int
    BY <1>5 DEF RemoveUnused, WorldTypeOK
  <2>2. WorldTypeOK'
    BY <1>5, <2>a, <2>b DEF LaunchLoop, RemoveUnused, WorldTypeOK
  <2>3. PICK permanent \in BOOLEAN : LoopEnd(permanent)
    BY <1>5 DEF RemoveUnused
  <2>c. launch' = "none" /\ fresh' = {} /\ left' = 0
    BY <2>3 DEF LoopEnd
  <2>d. pendingRegistrations' \subseteq Runners
    BY <1>5 DEF RemoveUnused, Remembered, LauncherTypeOK
  <2>4. LauncherTypeOK'
    BY <1>5, <2>c, <2>d DEF LaunchLoop, RemoveUnused, LauncherTypeOK
  <2>5. GoroutinesTypeOK'
    BY <1>5, <2>3, LoopEndType DEF LaunchLoop, RemoveUnused, GoroutinesTypeOK
  <2> QED BY <2>1, <2>2, <2>4, <2>5
<1> QED
  BY <1>1, <1>2, <1>3, <1>4, <1>5 DEF LaunchLoop

LEMMA AwaitExitType ==
  ASSUME TypeOK, NEW r \in Runners, AwaitExit(r)
  PROVE  TypeOK'
<1> USE DEF worldVars, launcherVars, loopVars, listenerVars, waiterVars, cleanupVars,
            shutdownVars, sessionVars, brokerVars, budgetVars, TypeOK
<1>1. WorldTypeOK'
  BY DEF AwaitExit, WorldTypeOK
<1>2. BudgetsTypeOK'
  BY BudgetType DEF AwaitExit, AwaitCleanExit, AwaitFailure, Refill, NoFault
<1>3. CASE AwaitCleanExit(r)
  <2>1. LauncherTypeOK'
    BY <1>3 DEF AwaitExit, AwaitCleanExit, LauncherTypeOK
  <2>2. GoroutinesTypeOK'
    BY <1>3 DEF AwaitExit, AwaitCleanExit, GoroutinesTypeOK
  <2> QED BY <1>1, <1>2, <2>1, <2>2
<1>4. CASE AwaitFailure(r)
  <2>1. LauncherTypeOK'
    BY <1>4 DEF AwaitExit, AwaitFailure, LauncherTypeOK
  <2>2. GoroutinesTypeOK'
    BY <1>4 DEF AwaitExit, AwaitFailure, GoroutinesTypeOK
  <2> QED BY <1>1, <1>2, <2>1, <2>2
<1>5. CASE Refill(r)
  <2>1. Allowed(desired) \in Nat
    BY AllowedBound DEF LauncherTypeOK
  <2>2. LauncherTypeOK'
    BY <1>5, <2>1 DEF AwaitExit, Refill, LauncherTypeOK
  <2>3. GoroutinesTypeOK'
    BY <1>5 DEF AwaitExit, Refill, GoroutinesTypeOK
  <2> QED BY <1>1, <1>2, <2>2, <2>3
<1> QED
  BY <1>3, <1>4, <1>5 DEF AwaitExit

LEMMA ReleaseType ==
  ASSUME GoroutinesTypeOK, NEW r \in Runners, NEW owner, Return(r, owner)
  PROVE  /\ apc' \in [Runners -> {"none", "wait", "finish", "refill", "launching", "done"}]
         /\ ltodo' \subseteq ltodo /\ stodo' \subseteq stodo
  BY DEF Return, Done, GoroutinesTypeOK

LEMMA FinishRunnerType ==
  ASSUME TypeOK, NEW r \in Runners, FinishRunner(r)
  PROVE  TypeOK'
<1> USE DEF loopVars, cleanupVars, sessionVars, brokerVars, budgetVars, TypeOK
<1>a. st \in [Runners -> RunnerState]
  BY DEF LauncherTypeOK
<1>1. ASSUME NEW owner \in Owners, FinishBegin(r, owner)
      PROVE  TypeOK'
  <2>1. BudgetsTypeOK' /\ WorldTypeOK'
    BY <1>1 DEF FinishRunner, FinishBegin, BudgetsTypeOK, WorldTypeOK
  <2>2. CASE st[r].cleaned
    <3>1. Return(r, owner) /\ UNCHANGED <<st, cpc, cowner, running, lperm>>
      BY <1>1, <2>2 DEF FinishBegin
    <3>2. LauncherTypeOK'
      BY <3>1 DEF FinishRunner, LauncherTypeOK
    <3>3. GoroutinesTypeOK'
      BY <3>1, ReleaseType DEF FinishRunner, GoroutinesTypeOK
    <3> QED BY <2>1, <3>2, <3>3
  <2>3. CASE ~st[r].cleaned
    <3> DEFINE terminate == Terminates(r, owner)
               s == IF st[r].cleanupStarted THEN st[r]
                    ELSE [st[r] EXCEPT !.cleanupStarted = TRUE,
                                       !.needsDeregistration = terminate \/ ~st[r].busy]
    <3>1. s \in RunnerState
      BY <1>a DEF RunnerState
    <3>2. /\ st' = [st EXCEPT ![r] = s] /\ cowner' = [cowner EXCEPT ![r] = owner]
          /\ cpc' = [cpc EXCEPT ![r] = IF s.terminated THEN AfterTermination(s)
                                       ELSE IF terminate THEN "kill" ELSE "mark"]
          /\ UNCHANGED <<apc, ltodo, stodo, running, lperm>>
      BY <1>1, <2>3 DEF FinishBegin
    <3>3. LauncherTypeOK'
      <4> HIDE DEF s
      <4> QED BY <1>a, <3>1, <3>2 DEF FinishRunner, LauncherTypeOK
    <3>4. GoroutinesTypeOK'
      <4> HIDE DEF s, terminate
      <4>1. AfterTermination(s) \in {"dereg", "remove"}
        BY DEF AfterTermination
      <4> QED BY <3>2, <4>1 DEF FinishRunner, GoroutinesTypeOK
    <3> QED BY <2>1, <3>3, <3>4
  <2> QED BY <2>2, <2>3
<1>2. CASE FinishKill(r)
  <2>1. BudgetsTypeOK'
    BY <1>2, BudgetType DEF FinishRunner, FinishKill
  <2>2. LauncherTypeOK'
    BY <1>2 DEF FinishRunner, FinishKill, LauncherTypeOK
  <2>3. Killed(r) \in [Runners -> Resources]
    BY DEF Killed, WorldTypeOK, Resources
  <2>4. WorldTypeOK'
    BY <1>2, <2>3 DEF FinishRunner, FinishKill, WorldTypeOK
  <2>5. GoroutinesTypeOK'
    BY <1>2, ReleaseType DEF FinishRunner, FinishKill, KillError, Release, GoroutinesTypeOK
  <2> QED BY <2>1, <2>2, <2>4, <2>5
<1>3. CASE FinishMark(r)
  <2>1. [st[r] EXCEPT !.terminated = TRUE, !.occupiesCapacity = FALSE, !.stopReported = TRUE]
          \in RunnerState
    BY <1>a DEF RunnerState
  <2>2. LauncherTypeOK'
    BY <1>3, <1>a, <2>1 DEF FinishRunner, FinishMark, LauncherTypeOK
  <2>3. AfterTermination(st[r]) \in {"dereg", "remove"}
    BY DEF AfterTermination
  <2>4. GoroutinesTypeOK'
    BY <1>3, <2>3 DEF FinishRunner, FinishMark, GoroutinesTypeOK
  <2>5. WorldTypeOK' /\ BudgetsTypeOK'
    BY <1>3 DEF FinishRunner, FinishMark, WorldTypeOK, BudgetsTypeOK
  <2> QED BY <2>2, <2>4, <2>5
<1>4. CASE FinishDeregister(r)
  <2>1. BudgetsTypeOK'
    BY <1>4, BudgetType DEF FinishRunner, FinishDeregister
  <2>2. [st[r] EXCEPT !.registrationRemoved = TRUE] \in RunnerState
    BY <1>a DEF RunnerState
  <2>3. LauncherTypeOK'
    BY <1>4, <1>a, <2>2 DEF FinishRunner, FinishDeregister, LauncherTypeOK
  <2>4. WorldTypeOK'
    BY <1>4 DEF FinishRunner, FinishDeregister, WorldTypeOK
  <2>5. GoroutinesTypeOK'
    BY <1>4, ReleaseType DEF FinishRunner, FinishDeregister, Release, GoroutinesTypeOK
  <2> QED BY <2>1, <2>3, <2>4, <2>5
<1>5. CASE FinishRemove(r)
  <2>1. BudgetsTypeOK'
    BY <1>5, BudgetType DEF FinishRunner, FinishRemove
  <2>2. LauncherTypeOK'
    BY <1>5 DEF FinishRunner, FinishRemove, LauncherTypeOK
  <2>3. Removed(r) \in [Runners -> Resources]
    BY DEF Removed, WorldTypeOK, Resources
  <2>4. WorldTypeOK'
    BY <1>5, <2>3 DEF FinishRunner, FinishRemove, WorldTypeOK
  <2>5. GoroutinesTypeOK'
    BY <1>5, ReleaseType DEF FinishRunner, FinishRemove, Release, GoroutinesTypeOK
  <2> QED BY <2>1, <2>2, <2>4, <2>5
<1>6. CASE FinishSettle(r)
  <2>1. [st[r] EXCEPT !.cleaned = TRUE] \in RunnerState
    BY <1>a DEF RunnerState
  <2>2. LauncherTypeOK'
    BY <1>6, <1>a, <2>1 DEF FinishRunner, FinishSettle, LauncherTypeOK
  <2>3. GoroutinesTypeOK'
    BY <1>6, ReleaseType DEF FinishRunner, FinishSettle, Release, GoroutinesTypeOK
  <2>4. WorldTypeOK' /\ BudgetsTypeOK'
    BY <1>6 DEF FinishRunner, FinishSettle, WorldTypeOK, BudgetsTypeOK
  <2> QED BY <2>2, <2>3, <2>4
<1> QED
  BY <1>1, <1>2, <1>3, <1>4, <1>5, <1>6 DEF FinishRunner

LEMMA ShutdownType ==
  ASSUME TypeOK, Shutdown
  PROVE  TypeOK'
<1> USE DEF loopVars, listenerVars, waiterVars, cleanupVars, sessionVars, brokerVars, budgetVars,
            TypeOK
<1>1. CASE ShutdownBegin
  <2>1. LauncherTypeOK'
    <3>1. stopped' \in BOOLEAN
      BY <1>1 DEF ShutdownBegin
    <3> QED BY <1>1, <3>1 DEF Shutdown, ShutdownBegin, LauncherTypeOK
  <2>2. GoroutinesTypeOK'
    BY <1>1 DEF Shutdown, ShutdownBegin, ToStop, GoroutinesTypeOK, LauncherTypeOK
  <2>3. WorldTypeOK' /\ BudgetsTypeOK'
    BY <1>1 DEF Shutdown, ShutdownBegin, WorldTypeOK, BudgetsTypeOK
  <2> QED BY <2>1, <2>2, <2>3
<1>2. CASE ShutdownRegistrations
  <2>1. LauncherTypeOK' /\ WorldTypeOK' /\ BudgetsTypeOK'
    BY <1>2 DEF Shutdown, ShutdownRegistrations, LauncherTypeOK, WorldTypeOK, BudgetsTypeOK
  <2>2. GoroutinesTypeOK'
    BY <1>2 DEF Shutdown, ShutdownRegistrations, GoroutinesTypeOK, LauncherTypeOK
  <2> QED BY <2>1, <2>2
<1>3. ASSUME NEW r \in Runners, ShutdownRemove(r)
      PROVE  TypeOK'
  <2>1. LauncherTypeOK'
    BY <1>3 DEF Shutdown, ShutdownRemove, LauncherTypeOK
  <2>2. GoroutinesTypeOK'
    BY <1>3 DEF Shutdown, ShutdownRemove, GoroutinesTypeOK
  <2>3. WorldTypeOK'
    BY <1>3 DEF Shutdown, ShutdownRemove, WorldTypeOK
  <2>4. BudgetsTypeOK'
    BY <1>3, BudgetType DEF Shutdown, ShutdownRemove
  <2> QED BY <2>1, <2>2, <2>3, <2>4
<1>4. CASE ShutdownEnd
  <2>1. LauncherTypeOK' /\ WorldTypeOK' /\ BudgetsTypeOK'
    BY <1>4 DEF Shutdown, ShutdownEnd, LauncherTypeOK, WorldTypeOK, BudgetsTypeOK
  <2>2. GoroutinesTypeOK'
    BY <1>4 DEF Shutdown, ShutdownEnd, GoroutinesTypeOK
  <2> QED BY <2>1, <2>2
<1> QED
  BY <1>1, <1>2, <1>3, <1>4 DEF Shutdown

LEMMA ReconcileType ==
  ASSUME TypeOK, Reconcile
  PROVE  TypeOK'
<1> USE DEF memVars, launcherVars, loopVars, waiterVars, cleanupVars, shutdownVars, sessionVars,
            brokerVars, budgetVars, TypeOK
<1>a. LauncherTypeOK'
  BY DEF Reconcile, LauncherTypeOK
<1>1. CASE ReconcileList
  <2>1. rerr' \in BOOLEAN
    BY <1>1 DEF ReconcileList
  <2>2. GoroutinesTypeOK'
    BY <1>1, <2>1 DEF Reconcile, ReconcileList, GoroutinesTypeOK
  <2>3. WorldTypeOK' /\ BudgetsTypeOK'
    BY <1>1 DEF Reconcile, ReconcileList, WorldTypeOK, BudgetsTypeOK
  <2> QED BY <1>a, <2>2, <2>3
<1>2. CASE ReconcileSnapshot
  <2>1. GoroutinesTypeOK'
    BY <1>2 DEF Reconcile, ReconcileSnapshot, GoroutinesTypeOK
  <2>2. WorldTypeOK' /\ BudgetsTypeOK'
    BY <1>2 DEF Reconcile, ReconcileSnapshot, WorldTypeOK, BudgetsTypeOK
  <2> QED BY <1>a, <2>1, <2>2
<1>3. ASSUME NEW r \in Runners, ReconcileDeregister(r)
      PROVE  TypeOK'
  <2>1. GoroutinesTypeOK'
    BY <1>3 DEF Reconcile, ReconcileDeregister, GoroutinesTypeOK
  <2>2. WorldTypeOK'
    BY <1>3 DEF Reconcile, ReconcileDeregister, WorldTypeOK
  <2>3. BudgetsTypeOK'
    BY <1>3, BudgetType DEF Reconcile, ReconcileDeregister
  <2> QED BY <1>a, <2>1, <2>2, <2>3
<1>4. ASSUME NEW r \in Runners, ReconcileRemove(r)
      PROVE  TypeOK'
  <2>1. GoroutinesTypeOK'
    BY <1>4 DEF Reconcile, ReconcileRemove, GoroutinesTypeOK
  <2>2. Removed(r) \in [Runners -> Resources]
    BY DEF Removed, WorldTypeOK, Resources
  <2>3. WorldTypeOK'
    BY <1>4, <2>2 DEF Reconcile, ReconcileRemove, WorldTypeOK
  <2>4. BudgetsTypeOK'
    BY <1>4, BudgetType DEF Reconcile, ReconcileRemove
  <2> QED BY <1>a, <2>1, <2>3, <2>4
<1>5. CASE ReconcileEnd
  <2>1. GoroutinesTypeOK'
    BY <1>5 DEF Reconcile, ReconcileEnd, GoroutinesTypeOK
  <2>2. Statistics \in Message
    BY DEF Statistics, Message, WorldTypeOK
  <2>3. inbox' \in Message
    BY <1>5, <2>2 DEF ReconcileEnd, WorldTypeOK
  <2>4. WorldTypeOK' /\ BudgetsTypeOK'
    BY <1>5, <2>3 DEF Reconcile, ReconcileEnd, WorldTypeOK, BudgetsTypeOK
  <2> QED BY <1>a, <2>1, <2>4
<1> QED
  BY <1>1, <1>2, <1>3, <1>4, <1>5 DEF Reconcile

LEMMA FreshProcessType ==
  ASSUME TypeOK, FreshProcess
  PROVE  /\ LauncherTypeOK' /\ GoroutinesTypeOK' /\ jobsLeft' \in Nat
         /\ (res' \in [Runners -> Resources] => WorldTypeOK')
<1> USE DEF TypeOK
<1>1. LauncherTypeOK'
  <2>1. st' \in [Runners -> RunnerState]
    BY NoStateType DEF FreshProcess
  <2>2. stopped' \in BOOLEAN
    BY DEF FreshProcess, FreshLauncher
  <2> QED BY <2>1, <2>2 DEF FreshProcess, FreshLauncher, LauncherTypeOK
<1>2. GoroutinesTypeOK'
  <2>1. lperm' \in BOOLEAN /\ rerr' \in BOOLEAN
    BY DEF FreshProcess, FreshLauncher
  <2> QED BY <2>1 DEF FreshProcess, FreshLauncher, GoroutinesTypeOK, Owners
<1>3. res' \in [Runners -> Resources] => WorldTypeOK'
  BY NoMessageType DEF FreshProcess, FreshLauncher, WorldTypeOK, OnlyInMemory
<1>4. jobsLeft' \in Nat
  BY DEF FreshProcess, BudgetsTypeOK
<1> QED BY <1>1, <1>2, <1>3, <1>4

LEMMA ProcessType ==
  ASSUME TypeOK, Restart \/ Crash
  PROVE  TypeOK'
<1> USE DEF TypeOK, budgetVars
<1>1. CASE Restart
  BY <1>1, FreshProcessType DEF Restart, WorldTypeOK, BudgetsTypeOK
<1>2. CASE Crash
  <2>1. res' \in [Runners -> Resources]
    BY <1>2 DEF Crash, WorldTypeOK, Resources, LauncherTypeOK
  <2>2. BudgetsTypeOK'
    BY <1>2, FreshProcessType DEF Crash, BudgetsTypeOK
  <2> QED BY <1>2, <2>1, <2>2, FreshProcessType DEF Crash
<1> QED BY <1>1, <1>2

LEMMA EnvironmentType ==
  ASSUME TypeOK, GitHub \/ Host
  PROVE  TypeOK'
<1> USE DEF progVars, memVars, procVars, envVars, launcherVars, loopVars, listenerVars, waiterVars,
            cleanupVars, shutdownVars, sessionVars, brokerVars, budgetVars, TypeOK
<1>1. LauncherTypeOK'
  BY DEF GitHub, Host, LauncherTypeOK
<1>2. GoroutinesTypeOK'
  BY DEF GitHub, Host, GoroutinesTypeOK
<1>3. gauge' \in Int /\ unrecorded' \subseteq Runners
  BY DEF GitHub, Host, WorldTypeOK
<1>4. CASE JobAssigned
  BY <1>1, <1>2, <1>3, <1>4 DEF JobAssigned, WorldTypeOK, BudgetsTypeOK
<1>5. ASSUME NEW r \in Runners, JobStarted(r)
      PROVE  TypeOK'
  BY <1>1, <1>2, <1>3, <1>5 DEF JobStarted, WorldTypeOK, BudgetsTypeOK
<1>6. ASSUME NEW r \in Runners, JobCompleted(r)
      PROVE  TypeOK'
  BY <1>1, <1>2, <1>3, <1>6 DEF JobCompleted, WorldTypeOK, BudgetsTypeOK
<1>7. CASE SendMessage
  <2>1. inbox' \in Message
    BY <1>7 DEF SendMessage, WorldTypeOK, Message
  <2> QED BY <1>1, <1>2, <1>3, <1>7, <2>1 DEF SendMessage, WorldTypeOK, BudgetsTypeOK
<1>8. CASE LoseMessage
  <2>1. inbox' \in Message
    BY <1>8 DEF LoseMessage, Statistics, WorldTypeOK, Message
  <2>2. BudgetsTypeOK'
    BY <1>8, BudgetType DEF LoseMessage
  <2> QED BY <1>1, <1>2, <1>3, <1>8, <2>1, <2>2 DEF LoseMessage, WorldTypeOK
<1>9. ASSUME NEW r \in Runners, RunnerExit(r)
      PROVE  TypeOK'
  <2>1. BudgetsTypeOK'
    BY <1>9, BudgetType DEF RunnerExit
  <2> QED BY <1>1, <1>2, <1>3, <1>9, <2>1 DEF RunnerExit, WorldTypeOK, Resources
<1>10. ASSUME NEW r \in Runners, LateCreate(r)
       PROVE  TypeOK'
  BY <1>1, <1>2, <1>3, <1>10 DEF LateCreate, WorldTypeOK, BudgetsTypeOK, Resources
<1> QED
  BY <1>4, <1>5, <1>6, <1>7, <1>8, <1>9, <1>10 DEF GitHub, Host

-----------------------------------------------------------------------------
(* The inductive invariant                                                 *)

LEMMA SubsetBound ==
  ASSUME NEW S \in SUBSET Runners, NEW T \in SUBSET S
  PROVE  Cardinality(S) \in Nat /\ Cardinality(T) \in Nat /\ Cardinality(T) <= Cardinality(S)
<1>1. IsFiniteSet(S)
  BY ConstantsAssumption, FS_Subset
<1> QED
  BY <1>1, FS_Subset, FS_CardinalityType

LEMMA AddBound ==
  ASSUME NEW S \in SUBSET Runners, NEW r
  PROVE  Cardinality(S \cup {r}) <= Cardinality(S) + 1
<1>1. IsFiniteSet(S) /\ Cardinality(S) \in Nat
  BY ConstantsAssumption, FS_Subset, FS_CardinalityType
<1>2. Cardinality(S \cup {r}) = IF r \in S THEN Cardinality(S) ELSE Cardinality(S) + 1
  BY <1>1, FS_AddElement
<1> QED
  BY <1>1, <1>2

\* In an open session, what is alive having a slot is what bounds it.
LEMMA SlotStep ==
  ASSUME TypeOK', Alive' \subseteq Occupying',
         MaxRunners > 0 => Cardinality(Occupying') + left' <= MaxRunners
  PROVE  SlotInv'
<1>1. Occupying' \in SUBSET Runners
  BY DEF TypeOK, LauncherTypeOK, Occupying
<1>2. Cardinality(Occupying') \in Nat /\ Cardinality(Alive') \in Nat
      /\ Cardinality(Alive') <= Cardinality(Occupying')
  BY <1>1, SubsetBound
<1>3. left' \in Nat /\ MaxRunners \in Nat
  BY ConstantsAssumption DEF TypeOK, LauncherTypeOK
<1> QED
  BY <1>2, <1>3 DEF SlotInv

LEMMA InitInv == Init => Inv
<1> SUFFICES ASSUME Init PROVE Inv
  OBVIOUS
<1>1. TypeOK
  BY InitType
<1>2. LoopInv /\ StartInv /\ UnusedInv
  BY DEF Init, LoopInv, StartInv, UnusedInv
<1>3. CleanupInv
  BY DEF Init, CleanupInv, NoState, NewState
<1>4. SlotInv
  <2>1. Occupying = {} /\ Alive = {} /\ left = 0
    BY DEF Init, Occupying, Alive
  <2> QED BY <2>1, FS_EmptySet, ConstantsAssumption DEF Init, SlotInv
<1>5. ReconcileInv /\ RegistrationInv
  BY DEF Init, ReconcileInv, ReconcileSparesTracked, Identified, RegistrationInv
<1> QED
  BY <1>1, <1>2, <1>3, <1>4, <1>5 DEF Inv

LEMMA ListenerInv ==
  ASSUME Inv, Listener
  PROVE  Inv'
<1> USE DEF memVars, launcherVars, loopVars, listenerVars, waiterVars, cleanupVars, shutdownVars,
            sessionVars
<1>1. TypeOK'
  BY ListenerType DEF Inv
<1>2. sess = "up" /\ UNCHANGED sess
  BY DEF Inv, TypeOK, GoroutinesTypeOK, StartInv, Listener, HandleJobStarted, HandleJobCompleted,
         RetryRegistration, HandleDesiredRunnerCount, Heartbeat, ApplyStatistics, ListenerReady,
         RetryCleanupBegin, LaunchLoopBegin
<1>3. UNCHANGED <<running, fresh, stopped>>
  BY DEF Listener, HandleJobStarted, HandleJobCompleted, RetryRegistration,
         HandleDesiredRunnerCount, Heartbeat, ApplyStatistics, RetryCleanupBegin, LaunchLoopBegin
<1>4. \A r \in Runners : /\ st'[r].occupiesCapacity = st[r].occupiesCapacity
                         /\ st'[r].terminated = st[r].terminated
  <2>1. st \in [Runners -> RunnerState]
    BY DEF Inv, TypeOK, LauncherTypeOK
  <2> QED
    BY <2>1 DEF RunnerState, Listener, HandleJobStarted, HandleJobCompleted, RetryRegistration,
         HandleDesiredRunnerCount, Heartbeat, ApplyStatistics, RetryCleanupBegin, LaunchLoopBegin
<1>5. \A r \in Runners : reg'[r] = "none" <=> reg[r] = "none"
  <2>1. ASSUME NEW q \in Runners, RetryRegistration(q)
        PROVE  \A r \in Runners : reg'[r] = "none" <=> reg[r] = "none"
    <3>1. reg[q] # "none"
      BY <2>1 DEF RetryRegistration, Inv, UnusedInv
    <3> QED BY <2>1, <3>1 DEF RetryRegistration, Inv, TypeOK, WorldTypeOK
  <2> QED
    BY <2>1 DEF Listener, HandleJobStarted, HandleJobCompleted, HandleDesiredRunnerCount, Heartbeat,
                ApplyStatistics, RetryCleanupBegin, LaunchLoopBegin
<1>6. /\ pendingRegistrations' \subseteq pendingRegistrations
      /\ ltodo' \subseteq ltodo \cup pendingRegistrations \cup running
  BY DEF Listener, HandleJobStarted, HandleJobCompleted, RetryRegistration, PendingCleanup,
         HandleDesiredRunnerCount, Heartbeat, ApplyStatistics, RetryCleanupBegin, LaunchLoopBegin
<1>7. LoopInv' /\ (MaxRunners > 0 => Cardinality(Occupying) + left' <= MaxRunners)
  <2>1. CASE LaunchLoopBegin /\ launch' = "next"
    <3>1. left' = Allowed(desired) /\ left' # 0 /\ ~stopped /\ launch = "none"
      BY <2>1 DEF LaunchLoopBegin, MuFree
    <3>2. /\ Allowed(desired) \in Nat
          /\ Allowed(desired) > 0 /\ MaxRunners > 0 =>
               Cardinality(Occupying) + Allowed(desired) <= MaxRunners
      BY AllowedBound DEF Inv, TypeOK, LauncherTypeOK
    <3> QED BY <1>2, <1>3, <2>1, <3>1, <3>2 DEF Inv, LoopInv
  <2>2. CASE UNCHANGED loopVars
    BY <1>2, <1>3, <2>2 DEF Inv, LoopInv, SlotInv
  <2> QED
    BY <2>1, <2>2 DEF Listener, HandleJobStarted, HandleJobCompleted, RetryRegistration,
         HandleDesiredRunnerCount, Heartbeat, ApplyStatistics, RetryCleanupBegin, LaunchLoopBegin
<1>8. StartInv'
  BY <1>2 DEF StartInv
<1>9. UnusedInv'
  BY <1>3, <1>5, <1>6 DEF Inv, UnusedInv, Listener
<1>10. CleanupInv'
  BY <1>4 DEF Inv, CleanupInv, Listener
<1>11. SlotInv'
  <2>1. Occupying' = Occupying
    BY <1>3, <1>4 DEF Occupying, Inv, TypeOK, LauncherTypeOK
  <2>2. Alive' = Alive
    BY DEF Alive, Listener
  <2> QED BY <1>1, <1>2, <1>7, <2>1, <2>2, SlotStep DEF Inv, SlotInv
<1>12. ReconcileInv'
  BY <1>3, <1>5 DEF Inv, TypeOK, GoroutinesTypeOK, ReconcileInv, ReconcileSparesTracked,
         Identified, Listener
<1>13. RegistrationInv'
  <2>1. lpc' = "regs" => ltodo' \cap running = {}
    BY DEF Inv, RegistrationInv, Listener, HandleJobStarted, HandleJobCompleted, RetryRegistration,
         HandleDesiredRunnerCount, Heartbeat, ApplyStatistics, RetryCleanupBegin, LaunchLoopBegin
  <2> QED BY <1>3, <1>6, <2>1 DEF Inv, RegistrationInv, Listener
<1> QED
  BY <1>1, <1>7, <1>8, <1>9, <1>10, <1>11, <1>12, <1>13 DEF Inv

\* A launch loop runs in an open session; while be.Launch is under way its registration is in
\* nobody's hands but its own.
LEMMA FreshFacts ==
  ASSUME Inv, NEW r \in fresh, launch # "none"
  PROVE  /\ r \in Runners /\ sess = "up" /\ ~stopped /\ left >= 1 /\ fresh = {r}
         /\ reg[r] # "none" /\ apc[r] = "none" /\ cpc[r] = "free"
         /\ r \notin running \cup pendingRegistrations \cup ltodo \cup stodo
  BY DEF Inv, TypeOK, LauncherTypeOK, LoopInv, UnusedInv

\* A launch that ends with a runner in l.running: the runner takes the slot of one launch left.
LEMMA LaunchedSlot ==
  ASSUME Inv, NEW r \in fresh, launch # "none", TypeOK', NEW stopReported \in BOOLEAN,
         running' = running \cup {r}, st' = [st EXCEPT ![r] = NewState(stopReported)],
         \A q \in Runners : q # r => res'[q] = res[q], left' <= left - 1
  PROVE  SlotInv'
<1>1. r \in Runners /\ sess = "up" /\ r \notin running
  BY FreshFacts
<1>2. Occupying' = Occupying \cup {r}
  <2>1. st'[r].occupiesCapacity
    BY <1>1 DEF NewState, Inv, TypeOK, LauncherTypeOK
  <2>2. \A q \in running : st'[q] = st[q]
    BY <1>1 DEF Inv, TypeOK, LauncherTypeOK
  <2> QED BY <1>1, <2>1, <2>2 DEF Occupying
<1>3. Alive' \subseteq Alive \cup {r}
  BY DEF Alive
<1>4. Alive' \subseteq Occupying'
  BY <1>1, <1>2, <1>3 DEF Inv, SlotInv
<1>5. MaxRunners > 0 => Cardinality(Occupying') + left' <= MaxRunners
  <2>1. Occupying \in SUBSET Runners
    BY DEF Inv, TypeOK, LauncherTypeOK, Occupying
  <2>2. Cardinality(Occupying') <= Cardinality(Occupying) + 1
    BY <1>2, <2>1, AddBound
  <2>3. Cardinality(Occupying) \in Nat
    BY <2>1, SubsetBound
  <2>4. Cardinality(Occupying') \in Nat
    <3>1. Occupying' \in SUBSET Runners
      BY <1>1, <1>2, <2>1
    <3> QED BY <3>1, SubsetBound
  <2>5. left \in Nat /\ left' \in Nat /\ MaxRunners \in Nat
    BY ConstantsAssumption DEF Inv, TypeOK, LauncherTypeOK
  <2> QED BY <2>2, <2>3, <2>4, <2>5 DEF Inv, SlotInv
<1> QED
  BY <1>4, <1>5, SlotStep

\* The rest of the invariant, after such a launch.
LEMMA LaunchedInv ==
  ASSUME Inv, LaunchLoop, NEW r \in fresh, launch # "none", TypeOK', SlotInv',
         NEW stopReported \in BOOLEAN,
         running' = running \cup {r}, st' = [st EXCEPT ![r] = NewState(stopReported)],
         \A q \in Runners : q # r => res'[q] = res[q], UNCHANGED <<reg, pendingRegistrations>>,
         launch' \in {"none", "next"}, fresh' = {}, launch' = "none" => left' = 0,
         launch' = "next" => left' >= 1,
         lpc' = "regs" => lpc = "regs",
         \A q \in Runners : q # r => apc'[q] = apc[q] \/ (apc[q] = "launching" /\ apc'[q] = "done"),
         \/ apc'[r] = "wait" /\ outcome'[r] = outcome[r]
         \/ /\ apc'[r] = "finish" /\ outcome'[r] \in {"partial", "named"}
            /\ IDFromCreate /\ outcome'[r] = "named" => res'[r] # "alive",
         \A q \in Runners : q # r => outcome'[q] = outcome[q]
  PROVE  Inv'
<1> USE DEF shutdownVars, sessionVars, cleanupVars
<1>1. /\ r \in Runners /\ sess = "up" /\ ~stopped /\ fresh = {r}
      /\ reg[r] # "none" /\ apc[r] = "none" /\ cpc[r] = "free"
      /\ r \notin running \cup pendingRegistrations \cup ltodo \cup stodo
  BY FreshFacts
<1>2. LoopInv'
  BY <1>1 DEF LaunchLoop, LoopInv
<1>3. StartInv'
  BY <1>1 DEF LaunchLoop, StartInv
<1>4. UnusedInv'
  BY <1>1 DEF LaunchLoop, Inv, UnusedInv
<1>5. CleanupInv'
  <2>1. st'[r].occupiesCapacity /\ ~st'[r].terminated
    BY <1>1 DEF NewState, Inv, TypeOK, LauncherTypeOK
  <2>2. \A q \in Runners : q # r => st'[q] = st[q]
    BY DEF Inv, TypeOK, LauncherTypeOK
  <2> QED BY <1>1, <2>1, <2>2 DEF LaunchLoop, Inv, CleanupInv
<1>6. ReconcileInv'
  <2>1. Identified' \subseteq Identified \cup {r}
    BY DEF Identified, Inv, TypeOK, LauncherTypeOK
  <2> QED BY <1>1, <2>1 DEF LaunchLoop, Inv, ReconcileInv, ReconcileSparesTracked
<1>7. RegistrationInv'
  BY <1>1 DEF LaunchLoop, Inv, RegistrationInv
<1> QED
  BY <1>2, <1>3, <1>4, <1>5, <1>6, <1>7 DEF Inv

\* A launch that ends, or goes on, without a runner in l.running.
LEMMA NotLaunchedInv ==
  ASSUME Inv, LaunchLoop, sess = "up", TypeOK', UNCHANGED <<running, st>>,
         \A q \in Runners : outcome'[q] = outcome[q], LoopInv', left' <= left, Alive' \subseteq Alive,
         lpc' = "regs" => lpc = "regs",
         \A q \in Runners : apc'[q] = apc[q] \/ (apc[q] = "launching" /\ apc'[q] = "done"),
         \A q \in Runners : reg'[q] = "none" => reg[q] = "none",
         \A q \in Runners : res'[q] # "none" => reg'[q] # "none",
         \A q \in Runners : q \in fresh' => reg'[q] # "none" /\ (q \in fresh \/ reg[q] = "none"),
         pendingRegistrations' \subseteq pendingRegistrations \cup (fresh \ fresh')
  PROVE  Inv'
<1> USE DEF shutdownVars, sessionVars, cleanupVars
<1>1. StartInv'
  BY DEF LaunchLoop, StartInv
<1>2. UnusedInv'
  BY DEF LaunchLoop, Inv, UnusedInv
<1>3. CleanupInv'
  BY DEF LaunchLoop, Inv, CleanupInv, Alive, TypeOK, LauncherTypeOK
<1>4. SlotInv'
  <2>1. Occupying' = Occupying
    BY DEF Occupying
  <2>2. left \in Nat /\ left' \in Nat /\ MaxRunners \in Nat
    BY ConstantsAssumption DEF Inv, TypeOK, LauncherTypeOK
  <2>3. Cardinality(Occupying) \in Nat
    BY OccupyingFinite DEF Inv, TypeOK
  <2> QED BY <2>1, <2>2, <2>3, SlotStep DEF Inv, SlotInv
<1>5. ReconcileInv'
  BY DEF LaunchLoop, Inv, TypeOK, GoroutinesTypeOK, ReconcileInv, ReconcileSparesTracked, Identified
<1>6. RegistrationInv'
  BY DEF LaunchLoop, Inv, RegistrationInv, UnusedInv, TypeOK, LauncherTypeOK
<1> QED
  BY <1>1, <1>2, <1>3, <1>4, <1>5, <1>6 DEF Inv

LEMMA LaunchLoopInv ==
  ASSUME Inv, LaunchLoop
  PROVE  Inv'
<1>1. TypeOK'
  BY LaunchLoopType DEF Inv
<1>2. launch # "none" /\ sess = "up" /\ ~stopped /\ left >= 1 /\ UNCHANGED <<sess, stopped>>
  BY DEF LaunchLoop, NameFailure, GenerateJIT, BackendCreate, BackendStart, RemoveUnused, Inv,
         LoopInv, sessionVars
<1>3. left \in Nat /\ left' \in Nat
  BY <1>1 DEF Inv, TypeOK, LauncherTypeOK
<1>4. reg \in [Runners -> {"none", "live", "gone"}] /\ res \in [Runners -> Resources]
      /\ outcome \in [Runners -> {"none", "ok", "code", "err", "partial", "named"}]
      /\ apc \in [Runners -> {"none", "wait", "finish", "refill", "launching", "done"}]
  BY DEF Inv, TypeOK, WorldTypeOK, GoroutinesTypeOK
<1>5. ASSUME NEW permanent, LoopEnd(permanent)
      PROVE  /\ LoopInv' /\ left' <= left /\ fresh' = {} /\ (lpc' = "regs" => lpc = "regs")
             /\ \A q \in Runners : apc'[q] = apc[q] \/ (apc[q] = "launching" /\ apc'[q] = "done")
  BY <1>2, <1>3, <1>4, <1>5 DEF LoopEnd, LoopInv
<1>6. \A q \in Runners : res[q] # "none" => reg[q] # "none"
  BY DEF Inv, UnusedInv
<1>7. CASE NameFailure
  <2>1. LoopEnd(FALSE) /\ UNCHANGED <<reg, res, running, pendingRegistrations, st, outcome>>
    BY <1>7 DEF NameFailure
  <2>2. Alive' \subseteq Alive
    BY <2>1 DEF Alive
  <2> QED BY <1>1, <1>2, <1>5, <1>6, <2>1, <2>2, NotLaunchedInv
<1>8. ASSUME NEW r \in Runners, GenerateJIT(r)
      PROVE  Inv'
  <2>1. UNCHANGED <<running, pendingRegistrations, st, outcome, res>> /\ launch = "next"
        /\ fresh = {} /\ reg[r] = "none"
    BY <1>8 DEF GenerateJIT, Inv, LoopInv
  <2>2. Alive' \subseteq Alive
    BY <2>1 DEF Alive
  <2>3. CASE launch' = "create" /\ fresh' = {r} /\ UNCHANGED <<left, lpc, apc>>
             /\ reg' = [reg EXCEPT ![r] = "live"]
    <3>1. LoopInv'
      BY <1>2, <2>3 DEF LoopInv
    <3>2. \A q \in Runners : /\ reg'[q] = "none" => reg[q] = "none"
                             /\ res'[q] # "none" => reg'[q] # "none"
                             /\ q \in fresh' => reg'[q] # "none" /\ (q \in fresh \/ reg[q] = "none")
      BY <1>4, <1>6, <2>1, <2>3
    <3> QED BY <1>1, <1>2, <1>3, <2>1, <2>2, <2>3, <3>1, <3>2, NotLaunchedInv
  <2>4. ASSUME NEW permanent, LoopEnd(permanent), reg' \in {reg, [reg EXCEPT ![r] = "live"]}
        PROVE  Inv'
    <3>1. \A q \in Runners : /\ reg'[q] = "none" => reg[q] = "none"
                             /\ res'[q] # "none" => reg'[q] # "none"
      BY <1>4, <1>6, <2>1, <2>4
    <3> QED BY <1>1, <1>2, <1>3, <1>5, <2>1, <2>2, <2>4, <3>1, NotLaunchedInv
  <2> QED BY <1>8, <2>3, <2>4 DEF GenerateJIT
<1>9. ASSUME NEW r \in Runners, BackendCreate(r)
      PROVE  Inv'
  <2>1. r \in fresh /\ launch = "create" /\ UNCHANGED <<pendingRegistrations, reg>>
    BY <1>9 DEF BackendCreate
  <2>2. /\ r \notin running /\ reg[r] # "none" /\ apc[r] = "none" /\ fresh = {r}
    BY <1>2, <2>1, FreshFacts
  <2>3. \A q \in Runners : q # r => res'[q] = res[q]
    BY <1>4, <1>9 DEF BackendCreate
  <2>4. CASE PartialLaunch(r, "named") /\ res'[r] # "alive"
    <3>a. left' <= left - 1
      BY <1>2, <1>3, <2>4 DEF PartialLaunch
    <3>b. running' = running \cup {r} /\ st' = [st EXCEPT ![r] = NewState(TRUE)] /\ TRUE \in BOOLEAN
      BY <2>4 DEF PartialLaunch
    <3>1. SlotInv'
      BY <1>1, <1>2, <2>1, <2>3, <3>a, <3>b, LaunchedSlot
    <3>2. /\ \A q \in Runners : q # r => apc'[q] = apc[q] \/ (apc[q] = "launching" /\ apc'[q] = "done")
          /\ apc'[r] = "finish" /\ outcome'[r] = "named"
          /\ \A q \in Runners : q # r => outcome'[q] = outcome[q]
          /\ lpc' = "regs" => lpc = "regs"
      BY <1>4, <2>4 DEF PartialLaunch
    <3> QED
      BY <1>1, <1>2, <2>1, <2>3, <2>4, <3>1, <3>2, LaunchedInv DEF PartialLaunch
  <2>5. CASE UNCHANGED <<running, st, outcome, fresh, left, lpc, apc>>
             /\ launch' \in {"start", "unregister"}
             /\ res' \in {res, [res EXCEPT ![r] = "created"]}
    <3>1. Alive' \subseteq Alive
      BY <1>4, <2>5 DEF Alive
    <3>2. LoopInv'
      BY <1>2, <2>2, <2>5 DEF LoopInv
    <3>3. \A q \in Runners : res'[q] # "none" => reg'[q] # "none"
      BY <1>6, <2>1, <2>2, <2>3
    <3>4. \A q \in Runners : q \in fresh' => reg'[q] # "none" /\ (q \in fresh \/ reg[q] = "none")
      BY <2>1, <2>2, <2>5
    <3> QED BY <1>1, <1>2, <1>3, <2>1, <2>5, <3>1, <3>2, <3>3, <3>4, NotLaunchedInv
  <2>6. launch' # "start" /\ launch' # "unregister" => PartialLaunch(r, "named") /\ res'[r] # "alive"
    BY <1>4, <1>9 DEF BackendCreate
  <2>7. launch' \in {"start", "unregister"} =>
          /\ UNCHANGED <<running, st, outcome, fresh, left, lpc, apc>>
          /\ res' \in {res, [res EXCEPT ![r] = "created"]}
    BY <1>9 DEF BackendCreate, PartialLaunch
  <2> QED BY <2>4, <2>5, <2>6, <2>7
<1>10. ASSUME NEW r \in Runners, BackendStart(r)
       PROVE  Inv'
  <2>1. r \in fresh /\ launch = "start" /\ UNCHANGED <<pendingRegistrations, reg>>
    BY <1>10 DEF BackendStart
  <2>2. /\ r \notin running /\ reg[r] # "none" /\ apc[r] = "none" /\ fresh = {r}
    BY <1>2, <2>1, FreshFacts
  <2>3. \A q \in Runners : q # r => res'[q] = res[q]
    BY <1>4, <1>10 DEF BackendStart
  <2>4. CASE PartialLaunch(r, IF IDFromCreate THEN "partial" ELSE "named")
    <3>a. left' <= left - 1
      BY <1>2, <1>3, <2>4 DEF PartialLaunch
    <3>b. running' = running \cup {r} /\ st' = [st EXCEPT ![r] = NewState(TRUE)] /\ TRUE \in BOOLEAN
      BY <2>4 DEF PartialLaunch
    <3>1. SlotInv'
      BY <1>1, <1>2, <2>1, <2>3, <3>a, <3>b, LaunchedSlot
    <3>2. /\ \A q \in Runners : q # r => apc'[q] = apc[q] \/ (apc[q] = "launching" /\ apc'[q] = "done")
          /\ apc'[r] = "finish" /\ outcome'[r] \in {"partial", "named"}
          /\ IDFromCreate => outcome'[r] = "partial"
          /\ \A q \in Runners : q # r => outcome'[q] = outcome[q]
          /\ lpc' = "regs" => lpc = "regs"
      BY <1>4, <2>4 DEF PartialLaunch
    <3> QED
      BY <1>1, <1>2, <2>1, <2>3, <2>4, <3>1, <3>2, LaunchedInv DEF PartialLaunch
  <2>5. CASE LoopNext(r) /\ running' = running \cup {r} /\ UNCHANGED outcome
             /\ st' = [st EXCEPT ![r] = NewState(FALSE)]
    <3>1. /\ launch' \in {"none", "next"} /\ fresh' = {} /\ left' = left - 1
          /\ launch' = "none" => left' = 0
          /\ launch' = "next" => left' >= 1
      BY <1>2, <1>3, <2>5 DEF LoopNext
    <3>a. left' <= left - 1 /\ FALSE \in BOOLEAN
      BY <1>3, <3>1
    <3>2. SlotInv'
      BY <1>1, <1>2, <2>1, <2>3, <2>5, <3>a, LaunchedSlot
    <3>3. /\ \A q \in Runners : q # r => apc'[q] = apc[q] \/ (apc[q] = "launching" /\ apc'[q] = "done")
          /\ apc'[r] = "wait"
          /\ lpc' = "regs" => lpc = "regs"
      BY <1>4, <2>5 DEF LoopNext
    <3> QED
      BY <1>1, <1>2, <2>1, <2>3, <2>5, <3>1, <3>2, <3>3, LaunchedInv
  <2> QED BY <1>10, <2>4, <2>5 DEF BackendStart
<1>11. ASSUME NEW r \in Runners, RemoveUnused(r)
       PROVE  Inv'
  <2>1. r \in fresh /\ UNCHANGED <<running, st, outcome, res>>
    BY <1>11 DEF RemoveUnused
  <2>2. reg[r] # "none"
    BY <1>2, <2>1, FreshFacts
  <2>3. PICK permanent \in BOOLEAN : LoopEnd(permanent)
    BY <1>11 DEF RemoveUnused
  <2>4. pendingRegistrations' \subseteq pendingRegistrations \cup {r}
    BY <1>11 DEF RemoveUnused, Remembered
  <2>5. \A q \in Runners : /\ reg'[q] = "none" => reg[q] = "none"
                           /\ res'[q] # "none" => reg'[q] # "none"
    BY <1>4, <1>6, <1>11, <2>1, <2>2 DEF RemoveUnused
  <2>6. Alive' \subseteq Alive
    BY <2>1 DEF Alive
  <2> QED BY <1>1, <1>2, <1>3, <1>5, <2>1, <2>3, <2>4, <2>5, <2>6, NotLaunchedInv
<1> QED
  BY <1>7, <1>8, <1>9, <1>10, <1>11 DEF LaunchLoop

LEMMA AwaitExitInv ==
  ASSUME Inv, NEW r \in Runners, AwaitExit(r)
  PROVE  Inv'
<1> USE DEF worldVars, launcherVars, loopVars, listenerVars, cleanupVars, shutdownVars, sessionVars,
            brokerVars
<1>1. TypeOK'
  BY AwaitExitType DEF Inv
<1>2. apc[r] # "none" /\ sess = "up"
  BY DEF AwaitExit, AwaitCleanExit, AwaitFailure, Refill, Inv, StartInv, TypeOK, GoroutinesTypeOK
<1>3. LoopInv' /\ (MaxRunners > 0 => Cardinality(Occupying) + left' <= MaxRunners)
  <2>1. CASE Refill(r) /\ launch' = "next"
    <3>1. left' = Allowed(desired) /\ left' # 0 /\ ~stopped /\ launch = "none" /\ UNCHANGED fresh
      BY <2>1 DEF Refill, MuFree, MayRefill
    <3>2. /\ Allowed(desired) \in Nat
          /\ Allowed(desired) > 0 /\ MaxRunners > 0 =>
               Cardinality(Occupying) + Allowed(desired) <= MaxRunners
      BY AllowedBound DEF Inv, TypeOK, LauncherTypeOK
    <3> QED BY <1>2, <2>1, <3>1, <3>2 DEF AwaitExit, Inv, LoopInv
  <2>2. CASE UNCHANGED loopVars
    BY <1>2, <2>2 DEF AwaitExit, Inv, LoopInv, SlotInv
  <2> QED
    BY <2>1, <2>2 DEF AwaitExit, AwaitCleanExit, AwaitFailure, Refill
<1>4. UNCHANGED fresh
  BY DEF AwaitExit, AwaitCleanExit, AwaitFailure, Refill
<1>5. \A q \in Runners : q # r => apc'[q] = apc[q] /\ outcome'[q] = outcome[q]
  BY DEF AwaitExit, AwaitCleanExit, AwaitFailure, Refill, Inv, TypeOK, GoroutinesTypeOK
<1>6. apc'[r] = "finish" => outcome'[r] = "err" \/ res[r] # "alive"
  BY DEF AwaitExit, AwaitCleanExit, AwaitFailure, Refill, Inv, TypeOK, GoroutinesTypeOK
\* Only a waiter's outcome changes, and a waiter's handle has its ID.
<1>a. /\ outcome'[r] = "named" <=> outcome[r] = "named"
      /\ outcome[r] = "named" => apc'[r] \notin {"none", "wait"}
  <2>1. CASE apc[r] = "wait"
    <3>1. outcome[r] # "named"
      BY <2>1 DEF Inv, CleanupInv
    <3>2. outcome'[r] \in {"ok", "code", "err"}
      BY <2>1 DEF AwaitExit, AwaitCleanExit, AwaitFailure, Refill, Inv, TypeOK, GoroutinesTypeOK
    <3> QED BY <3>1, <3>2
  <2>2. CASE apc[r] = "refill"
    BY <2>2 DEF AwaitExit, AwaitCleanExit, AwaitFailure, Refill, Inv, TypeOK, GoroutinesTypeOK
  <2> QED BY <2>1, <2>2 DEF AwaitExit, AwaitCleanExit, AwaitFailure, Refill
<1>7. StartInv'
  BY <1>2 DEF AwaitExit, StartInv
<1>8. UnusedInv'
  BY <1>2, <1>4, <1>5 DEF AwaitExit, Inv, UnusedInv
<1>9. CleanupInv'
  BY <1>5, <1>6, <1>a DEF AwaitExit, Inv, CleanupInv
<1>10. SlotInv'
  <2>1. Occupying' = Occupying /\ Alive' = Alive
    BY DEF AwaitExit, Occupying, Alive
  <2> QED BY <1>1, <1>2, <1>3, <2>1, SlotStep DEF Inv, SlotInv
<1>b. Identified' = Identified
  BY <1>5, <1>a DEF AwaitExit, Identified, Inv, TypeOK, LauncherTypeOK
<1>11. ReconcileInv' /\ RegistrationInv'
  BY <1>4, <1>b DEF AwaitExit, Inv, ReconcileInv, ReconcileSparesTracked, RegistrationInv
<1> QED
  BY <1>1, <1>3, <1>7, <1>8, <1>9, <1>10, <1>11 DEF Inv

LEMMA FinishRunnerInv ==
  ASSUME Inv, NEW r \in Runners, FinishRunner(r)
  PROVE  Inv'
<1> USE DEF loopVars, sessionVars, brokerVars, cleanupVars
<1>1. TypeOK'
  BY FinishRunnerType DEF Inv
<1>2. /\ reg \in [Runners -> {"none", "live", "gone"}] /\ res \in [Runners -> Resources]
      /\ st \in [Runners -> RunnerState]
      /\ apc \in [Runners -> {"none", "wait", "finish", "refill", "launching", "done"}]
      /\ cpc \in [Runners -> {"free", "kill", "mark", "dereg", "remove", "settle"}]
      /\ r \in Runners
  BY DEF Inv, TypeOK, LauncherTypeOK, WorldTypeOK, GoroutinesTypeOK
\* Whoever runs a cleanup has a runner in its hands, so the session is open and the runner
\* is not one that is still to be launched.
<1>3. apc[r] = "finish" \/ r \in ltodo \/ r \in stodo \/ cpc[r] # "free"
  BY DEF FinishRunner, FinishBegin, Wants, FinishKill, FinishMark, FinishDeregister, FinishRemove,
         FinishSettle
<1>4. sess = "up" /\ reg[r] # "none" /\ r \notin fresh
  BY <1>2, <1>3 DEF Inv, StartInv, UnusedInv, TypeOK, GoroutinesTypeOK
<1>5. \A q \in Runners : q # r => /\ st'[q] = st[q] /\ apc'[q] = apc[q] /\ cpc'[q] = cpc[q]
                                  /\ reg'[q] = reg[q] /\ res'[q] = res[q]
  BY <1>2 DEF FinishRunner, FinishBegin, FinishKill, FinishMark, FinishDeregister, FinishRemove,
         FinishSettle, KillError, Killed, Removed, Release, Return
<1>6. /\ ltodo' \subseteq ltodo /\ stodo' \subseteq stodo
      /\ running' \subseteq running /\ running \ running' \subseteq {r}
      /\ UNCHANGED <<pendingRegistrations, lpc, spc, outcome, sess, fresh, left, launch, stopped>>
  BY DEF FinishRunner, FinishBegin, FinishKill, FinishMark, FinishDeregister, FinishRemove,
         FinishSettle, KillError, Release, Return, Done
<1>7. /\ reg'[r] # "none" /\ (res'[r] = "alive" => res[r] = "alive")
      /\ (apc'[r] = apc[r] \/ apc'[r] \in {"refill", "done"})
  BY <1>2, <1>4 DEF FinishRunner, FinishBegin, FinishKill, FinishMark, FinishDeregister,
         FinishRemove, FinishSettle, KillError, Killed, Removed, Release, Return
<1>8. /\ cpc'[r] = "mark" => res'[r] # "alive"
      /\ cpc'[r] \in {"dereg", "remove", "settle"} => ~st'[r].occupiesCapacity
      /\ st'[r].terminated => ~st'[r].occupiesCapacity
      /\ r \in Occupying \ Occupying' => res'[r] # "alive"
      /\ st'[r].occupiesCapacity => st[r].occupiesCapacity
  <2>1. /\ cpc[r] = "mark" => res[r] # "alive"
        /\ cpc[r] \in {"dereg", "remove", "settle"} => ~st[r].occupiesCapacity
        /\ st[r].terminated => ~st[r].occupiesCapacity
        /\ apc[r] = "finish" => outcome[r] \in {"err", "partial", "named"} \/ res[r] # "alive"
    BY DEF Inv, CleanupInv
  <2>2. ASSUME NEW owner \in Owners, FinishBegin(r, owner)
        PROVE  /\ cpc'[r] = "mark" => res'[r] # "alive"
               /\ cpc'[r] \in {"dereg", "remove", "settle"} => ~st'[r].occupiesCapacity
               /\ st'[r].terminated => ~st'[r].occupiesCapacity
               /\ r \in Occupying \ Occupying' => res'[r] # "alive"
               /\ st'[r].occupiesCapacity => st[r].occupiesCapacity
    <3>1. CASE st[r].cleaned
      BY <2>1, <2>2, <3>1 DEF FinishBegin, Occupying
    <3>2. CASE ~st[r].cleaned
      <4>1. st'[r].occupiesCapacity = st[r].occupiesCapacity /\ st'[r].terminated = st[r].terminated
        <5> DEFINE s == [st[r] EXCEPT !.cleanupStarted = TRUE,
                                      !.needsDeregistration = Terminates(r, owner) \/ ~st[r].busy]
        <5>1. s.occupiesCapacity = st[r].occupiesCapacity /\ s.terminated = st[r].terminated
          BY <1>2 DEF RunnerState
        <5>2. st'[r] = st[r] \/ st'[r] = s
          BY <1>2, <2>2, <3>2 DEF FinishBegin
        <5> QED BY <5>1, <5>2
      <4>2. UNCHANGED <<running, res>>
        BY <2>2 DEF FinishBegin
      <4>3. cpc'[r] \in {"dereg", "remove", "settle"} => st[r].terminated
        BY <1>2, <2>2, <3>2, <4>1 DEF FinishBegin, RunnerState
      <4>4. cpc'[r] = "mark" => ~Terminates(r, owner)
        BY <1>2, <2>2, <3>2 DEF FinishBegin, AfterTermination
      <4>5. ~Terminates(r, owner) => res[r] # "alive"
        BY <2>1, <2>2 DEF FinishBegin, Wants, Terminates, Owners
      <4> QED BY <2>1, <4>1, <4>2, <4>3, <4>4, <4>5 DEF Occupying
    <3> QED BY <3>1, <3>2
  <2>3. CASE FinishKill(r)
    <3>1. UNCHANGED <<running, st>> /\ (cpc'[r] \in {"mark", "free"})
      BY <1>2, <2>3 DEF FinishKill, KillError, Release
    <3>2. cpc'[r] = "mark" => res'[r] # "alive"
      BY <1>2, <2>3 DEF FinishKill, KillError, Release, Killed
    <3> QED BY <2>1, <3>1, <3>2 DEF Occupying
  <2>4. CASE FinishMark(r)
    <3>1. ~st'[r].occupiesCapacity /\ UNCHANGED <<running, res>>
      BY <1>2, <2>4 DEF FinishMark, RunnerState
    <3>2. cpc[r] = "mark" /\ cpc'[r] # "mark"
      BY <1>2, <2>4 DEF FinishMark, AfterTermination
    <3> QED BY <2>1, <3>1, <3>2
  <2>5. CASE FinishDeregister(r)
    <3>1. /\ st'[r].occupiesCapacity = st[r].occupiesCapacity /\ st'[r].terminated = st[r].terminated
          /\ cpc[r] = "dereg" /\ cpc'[r] # "mark" /\ UNCHANGED running
      BY <1>2, <2>5 DEF FinishDeregister, Release, RunnerState
    <3> QED BY <2>1, <3>1 DEF Occupying
  <2>6. CASE FinishRemove(r)
    <3>1. UNCHANGED <<running, st>> /\ cpc[r] = "remove" /\ cpc'[r] # "mark"
      BY <1>2, <2>6 DEF FinishRemove, Release
    <3> QED BY <2>1, <3>1 DEF Occupying
  <2>7. CASE FinishSettle(r)
    <3>1. /\ st'[r].occupiesCapacity = st[r].occupiesCapacity /\ st'[r].terminated = st[r].terminated
          /\ cpc[r] = "settle" /\ cpc'[r] = "free"
      BY <1>2, <2>7 DEF FinishSettle, Release, RunnerState
    <3> QED BY <2>1, <3>1 DEF Occupying
  <2> QED BY <2>2, <2>3, <2>4, <2>5, <2>6, <2>7 DEF FinishRunner
<1>9. LoopInv' /\ StartInv'
  BY <1>4, <1>6 DEF Inv, LoopInv, StartInv
<1>10. UnusedInv'
  <2>1. res'[r] # "none" => reg'[r] # "none"
    BY <1>7
  <2> QED BY <1>4, <1>5, <1>6, <1>7, <2>1 DEF Inv, UnusedInv
<1>11. CleanupInv'
  BY <1>5, <1>6, <1>7, <1>8 DEF Inv, CleanupInv
<1>12. SlotInv'
  <2>1. Alive' \subseteq Alive
    BY <1>5, <1>7 DEF Alive
  <2>2. \A q \in Occupying : q # r => q \in Occupying'
    BY <1>5, <1>6 DEF Occupying, Inv, TypeOK, LauncherTypeOK
  <2>3. Alive' \subseteq Occupying'
    <3>1. Alive \subseteq Occupying
      BY <1>4 DEF Inv, SlotInv
    <3>2. r \in Alive' => r \in Occupying'
      BY <1>8, <2>1, <3>1 DEF Alive
    <3> QED BY <2>1, <2>2, <3>1, <3>2
  <2>4. Occupying' \subseteq Occupying
    BY <1>5, <1>6, <1>8 DEF Occupying, Inv, TypeOK, LauncherTypeOK
  <2>5. Occupying \in SUBSET Runners
    BY DEF Inv, TypeOK, LauncherTypeOK, Occupying
  <2>6. /\ Cardinality(Occupying') <= Cardinality(Occupying) /\ Cardinality(Occupying') \in Nat
        /\ Cardinality(Occupying) \in Nat
    BY <2>4, <2>5, SubsetBound
  <2>7. left \in Nat /\ left' = left /\ MaxRunners \in Nat
    BY <1>6, ConstantsAssumption DEF Inv, TypeOK, LauncherTypeOK
  <2> QED BY <1>1, <2>3, <2>6, <2>7, SlotStep DEF Inv, SlotInv
<1>13. ReconcileInv'
  BY <1>5, <1>6, <1>7 DEF FinishRunner, Inv, TypeOK, GoroutinesTypeOK, ReconcileInv,
         ReconcileSparesTracked, Identified
<1>14. RegistrationInv'
  BY <1>6 DEF Inv, RegistrationInv
<1> QED
  BY <1>1, <1>9, <1>10, <1>11, <1>12, <1>13, <1>14 DEF Inv

LEMMA ShutdownInv ==
  ASSUME Inv, Shutdown
  PROVE  Inv'
<1> USE DEF loopVars, listenerVars, waiterVars, cleanupVars, sessionVars
<1>1. TypeOK'
  BY ShutdownType DEF Inv
<1>2. /\ stodo' \subseteq stodo \cup running \cup pendingRegistrations
      /\ pendingRegistrations' \subseteq pendingRegistrations
      /\ stopped' = stopped \/ launch = "none"
      /\ spc' = "regs" => stodo' \cap running = {}
  BY DEF Shutdown, ShutdownBegin, ShutdownRegistrations, ShutdownRemove, ShutdownEnd, ToStop, MuFree,
         Inv, RegistrationInv
<1>3. \A r \in Runners : reg'[r] = "none" <=> reg[r] = "none"
  <2>1. ASSUME NEW q \in Runners, ShutdownRemove(q)
        PROVE  \A r \in Runners : reg'[r] = "none" <=> reg[r] = "none"
    <3>1. reg[q] # "none"
      BY <2>1 DEF ShutdownRemove, Inv, UnusedInv
    <3> QED BY <2>1, <3>1 DEF ShutdownRemove, Inv, TypeOK, WorldTypeOK
  <2> QED BY <2>1 DEF Shutdown, ShutdownBegin, ShutdownRegistrations, ShutdownEnd
<1>4. LoopInv' /\ StartInv'
  BY <1>2 DEF Shutdown, Inv, LoopInv, StartInv, Alive
<1>5. UnusedInv'
  BY <1>2, <1>3 DEF Shutdown, Inv, UnusedInv
<1>6. CleanupInv' /\ SlotInv'
  BY DEF Shutdown, Inv, CleanupInv, SlotInv, Alive, Occupying
<1>7. ReconcileInv'
  BY <1>3 DEF Shutdown, Inv, TypeOK, GoroutinesTypeOK, ReconcileInv, ReconcileSparesTracked, Identified
<1>8. RegistrationInv'
  BY <1>2 DEF Shutdown, Inv, RegistrationInv
<1> QED
  BY <1>1, <1>4, <1>5, <1>6, <1>7, <1>8 DEF Inv

LEMMA AliveBound ==
  ASSUME Inv, Alive' \subseteq Alive
  PROVE  MaxRunners > 0 => Cardinality(Alive') <= MaxRunners
<1>1. Alive \in SUBSET Runners
  BY DEF Alive
<1>2. /\ Cardinality(Alive') <= Cardinality(Alive) /\ Cardinality(Alive) \in Nat
      /\ Cardinality(Alive') \in Nat /\ MaxRunners \in Nat
  BY <1>1, SubsetBound, ConstantsAssumption
<1> QED BY <1>2 DEF Inv, SlotInv

LEMMA ReconcilePassInv ==
  ASSUME Inv, Reconcile
  PROVE  Inv'
<1> USE DEF memVars, launcherVars, loopVars, waiterVars, cleanupVars, shutdownVars
<1>1. TypeOK'
  BY ReconcileType DEF Inv
<1>2. /\ UNCHANGED <<running, st, left, apc, outcome, cpc, ltodo, stodo, fresh, launch, stopped, spc,
                     pendingRegistrations>>
      /\ UNCHANGED lpc \/ (sess = "starting" /\ lpc' = "dead")
  BY DEF Reconcile, ReconcileList, ReconcileSnapshot, ReconcileDeregister, ReconcileRemove,
         ReconcileEnd
<1>3. reg \in [Runners -> {"none", "live", "gone"}] /\ res \in [Runners -> Resources]
      /\ rtodo \subseteq Runners /\ rcur \subseteq Runners /\ sess \in {"starting", "up"}
  BY DEF Inv, TypeOK, WorldTypeOK, GoroutinesTypeOK
<1>4. \A r \in Runners : reg'[r] = "none" <=> reg[r] = "none"
  <2>1. ASSUME NEW q \in Runners, ReconcileDeregister(q)
        PROVE  \A r \in Runners : reg'[r] = "none" <=> reg[r] = "none"
    <3>1. reg[q] # "none"
      BY <2>1 DEF ReconcileDeregister, Inv, ReconcileInv
    <3> QED BY <1>3, <2>1, <3>1 DEF ReconcileDeregister
  <2> QED BY <2>1 DEF Reconcile, ReconcileList, ReconcileSnapshot, ReconcileRemove, ReconcileEnd
<1>5. \A r \in Runners : res'[r] = res[r] \/ (res'[r] = "gone" /\ res[r] # "none")
  BY <1>3 DEF Reconcile, ReconcileList, ReconcileSnapshot, ReconcileDeregister, ReconcileRemove,
         ReconcileEnd, Removed, Listed
<1>6. Alive' \subseteq Alive
  BY <1>5 DEF Alive
<1>7. UnusedInv'
  BY <1>2, <1>4, <1>5 DEF Inv, UnusedInv
<1>8. CleanupInv'
  BY <1>2, <1>5 DEF Inv, CleanupInv
<1>9. sess' = sess \/ (sess = "starting" /\ sess' = "up" /\ Alive' = {} /\ running = {})
  <2>1. CASE ReconcileEnd /\ sess' # sess
    <3>1. sess = "starting" /\ sess' = "up" /\ ~rerr /\ rpc = "scan" /\ rtodo = {} /\ rcur = {}
      BY <1>3, <2>1 DEF ReconcileEnd, PassOpens
    <3> QED BY <1>6, <3>1 DEF Inv, StartInv
  <2> QED
    BY <2>1 DEF Reconcile, ReconcileList, ReconcileSnapshot, ReconcileDeregister, ReconcileRemove
<1>10. LoopInv'
  <2>1. sess = "up" => sess' = "up"
    BY <1>9
  <2> QED BY <1>2, <2>1 DEF Inv, LoopInv
<1>11. SlotInv'
  <2>1. Occupying' = Occupying
    BY <1>2 DEF Occupying
  <2>2. sess' = "up" => Alive' \subseteq Occupying'
    BY <1>6, <1>9, <2>1 DEF Inv, SlotInv
  <2>3. MaxRunners > 0 => Cardinality(Alive') <= MaxRunners
    BY <1>6, AliveBound
  <2> QED BY <1>2, <2>1, <2>2, <2>3 DEF Inv, SlotInv
<1>12. StartInv'
  <2> SUFFICES ASSUME sess' = "starting"
               PROVE  StartInv'
    BY DEF StartInv
  <2>1. sess = "starting"
    BY <1>9
  <2>2. rpc' # "idle" /\ ~rerr' => Alive' \subseteq rtodo' \cup rcur'
    <3>1. CASE ReconcileList
      BY <1>6, <3>1 DEF ReconcileList, Alive, Listed
    <3>2. CASE ReconcileSnapshot
      BY <1>6, <2>1, <3>2 DEF ReconcileSnapshot, Active, Identified, Inv, StartInv
    <3>3. ASSUME NEW r \in Runners, ReconcileDeregister(r)
          PROVE  rpc' # "idle" /\ ~rerr' => Alive' \subseteq rtodo' \cup rcur'
      <4>1. ~rerr' => rcur' = {r} /\ rtodo' = rtodo \ {r} /\ ~rerr /\ rcur = {} /\ rpc = "scan"
        BY <3>3 DEF ReconcileDeregister
      <4> QED BY <1>6, <2>1, <4>1 DEF Inv, StartInv
    <3>4. ASSUME NEW r \in Runners, ReconcileRemove(r)
          PROVE  rpc' # "idle" /\ ~rerr' => Alive' \subseteq rtodo' \cup rcur'
      <4>1. ~rerr' => res' = Removed(r) /\ ~rerr /\ rpc = "scan" /\ rtodo' = rtodo
                      /\ rcur' = rcur \ {r}
        BY <3>4 DEF ReconcileRemove
      <4>2. ~rerr' => r \notin Alive'
        BY <1>3, <4>1 DEF Removed, Listed, Alive
      <4> QED BY <1>6, <2>1, <4>1, <4>2 DEF Inv, StartInv
    <3>5. CASE ReconcileEnd
      BY <3>5 DEF ReconcileEnd
    <3> QED BY <3>1, <3>2, <3>3, <3>4, <3>5 DEF Reconcile
  <2> QED BY <1>2, <2>1, <2>2 DEF Inv, StartInv
<1>13. ReconcileInv'
  <2>1. CASE ReconcileList
    <3>1. \A r \in rtodo' : reg[r] # "none"
      BY <2>1 DEF ReconcileList, Listed, Inv, UnusedInv
    <3> QED
      BY <1>3, <1>4, <2>1, <3>1 DEF ReconcileList, Inv, ReconcileInv, ReconcileSparesTracked,
         Identified, Listed
  <2>2. CASE ReconcileSnapshot
    <3>1. fresh = {}
      BY <2>2 DEF ReconcileSnapshot, MuFree, Inv, LoopInv
    <3> QED
      BY <1>2, <1>3, <1>4, <2>2, <3>1 DEF ReconcileSnapshot, Active, Inv, ReconcileInv,
         ReconcileSparesTracked, Identified
  <2>3. ASSUME NEW r \in Runners, ReconcileDeregister(r)
        PROVE  ReconcileInv'
    BY <1>2, <1>3, <1>4, <2>3 DEF ReconcileDeregister, Inv, ReconcileInv,
         ReconcileSparesTracked, Identified
  <2>4. ASSUME NEW r \in Runners, ReconcileRemove(r)
        PROVE  ReconcileInv'
    BY <1>2, <1>3, <1>4, <2>4 DEF ReconcileRemove, Inv, ReconcileInv, ReconcileSparesTracked, Identified
  <2>5. CASE ReconcileEnd
    BY <1>2, <2>5 DEF ReconcileEnd, Inv, ReconcileInv, ReconcileSparesTracked, Identified
  <2> QED BY <2>1, <2>2, <2>3, <2>4, <2>5 DEF Reconcile
<1>14. RegistrationInv'
  BY <1>2 DEF Inv, RegistrationInv
<1> QED
  BY <1>1, <1>7, <1>8, <1>10, <1>11, <1>12, <1>13, <1>14 DEF Inv

LEMMA ProcessInv ==
  ASSUME Inv, Restart \/ Crash
  PROVE  Inv'
<1>1. TypeOK'
  BY ProcessType DEF Inv
<1>2. FreshProcess
  BY DEF Restart, Crash
<1>3. LoopInv' /\ StartInv'
  BY <1>2 DEF FreshProcess, FreshLauncher, LoopInv, StartInv
<1>4. \A r \in Runners : res'[r] # "none" => reg[r] # "none"
  BY DEF Restart, Crash, Inv, UnusedInv, TypeOK, WorldTypeOK
<1>5. UnusedInv'
  BY <1>2, <1>4 DEF FreshProcess, FreshLauncher, UnusedInv
<1>6. CleanupInv'
  BY <1>2 DEF FreshProcess, CleanupInv, NoState, NewState
<1>7. MaxRunners > 0 => Cardinality(Alive') <= MaxRunners
  <2>1. CASE Alive' \subseteq Alive
    BY <2>1, AliveBound
  <2>2. ASSUME NEW r \in fresh, launch = "start", res' = [res EXCEPT ![r] = "alive"]
        PROVE  MaxRunners > 0 => Cardinality(Alive') <= MaxRunners
    <3>1. r \in Runners /\ sess = "up" /\ left >= 1
      BY <2>2, FreshFacts
    <3>2. Alive' = Alive \cup {r}
      BY <2>2, <3>1 DEF Alive, Inv, TypeOK, WorldTypeOK
    <3>3. Occupying \in SUBSET Runners /\ Alive \in SUBSET Occupying
      BY <3>1 DEF Inv, TypeOK, LauncherTypeOK, Occupying, SlotInv
    <3>4. /\ Cardinality(Alive) <= Cardinality(Occupying)
          /\ Cardinality(Occupying) \in Nat /\ Cardinality(Alive) \in Nat
      BY <3>3, SubsetBound
    <3>5. Cardinality(Alive') <= Cardinality(Alive) + 1 /\ Cardinality(Alive') \in Nat
      <4>1. Alive \in SUBSET Runners /\ Alive' \in SUBSET Runners
        BY DEF Alive
      <4> QED BY <3>2, <4>1, AddBound, SubsetBound
    <3>6. left \in Nat /\ MaxRunners \in Nat
      BY ConstantsAssumption DEF Inv, TypeOK, LauncherTypeOK
    <3> QED BY <3>1, <3>4, <3>5, <3>6 DEF Inv, SlotInv
  <2>3. ASSUME NEW r \in fresh, res' = [res EXCEPT ![r] = "pending"]
        PROVE  Alive' \subseteq Alive
    BY <2>3 DEF Alive, Inv, TypeOK, WorldTypeOK
  <2>4. res' = res => Alive' \subseteq Alive
    BY DEF Alive
  <2> QED BY <2>1, <2>2, <2>3, <2>4 DEF Restart, Crash
<1>8. SlotInv'
  <2>1. Occupying' = {} /\ left' = 0 /\ sess' = "starting"
    BY <1>2 DEF FreshProcess, FreshLauncher, Occupying
  <2>2. Cardinality(Occupying') = 0 /\ MaxRunners \in Nat
    BY <2>1, FS_EmptySet, ConstantsAssumption
  <2> QED BY <1>7, <2>1, <2>2 DEF SlotInv
<1>9. ReconcileInv' /\ RegistrationInv'
  BY <1>2 DEF FreshProcess, FreshLauncher, ReconcileInv, ReconcileSparesTracked, Identified,
         RegistrationInv
<1> QED
  BY <1>1, <1>3, <1>5, <1>6, <1>8, <1>9 DEF Inv

LEMMA EnvironmentInv ==
  ASSUME Inv, GitHub \/ Host
  PROVE  Inv'
<1> USE DEF progVars, memVars, procVars, launcherVars, loopVars, listenerVars, waiterVars, cleanupVars,
            shutdownVars, sessionVars
<1>1. TypeOK'
  BY EnvironmentType DEF Inv
<1>2. UNCHANGED progVars
  BY DEF GitHub, Host
<1>3. reg \in [Runners -> {"none", "live", "gone"}] /\ res \in [Runners -> Resources]
      /\ rtodo \subseteq Runners /\ rcur \subseteq Runners
  BY DEF Inv, TypeOK, WorldTypeOK, GoroutinesTypeOK
<1>4. /\ \A r \in Runners : res'[r] # "none" => res[r] # "none"
      /\ \A r \in Runners : res'[r] = "alive" => res[r] = "alive"
  BY <1>3 DEF GitHub, Host, JobAssigned, SendMessage, LoseMessage, JobStarted, JobCompleted,
         RunnerExit, LateCreate
<1>5. \A r \in Runners : reg'[r] = reg[r] \/ reg'[r] = "gone"
  BY <1>3 DEF GitHub, Host, JobAssigned, SendMessage, LoseMessage, JobStarted, JobCompleted,
         RunnerExit, LateCreate
<1>6. Alive' \subseteq Alive
  BY <1>4 DEF Alive
<1>7. LoopInv' /\ StartInv'
  BY <1>2, <1>6 DEF Inv, LoopInv, StartInv
<1>8. UnusedInv'
  BY <1>2, <1>4, <1>5 DEF Inv, UnusedInv
<1>9. CleanupInv'
  BY <1>2, <1>4 DEF Inv, CleanupInv
<1>10. SlotInv'
  BY <1>2, <1>6, AliveBound DEF Inv, SlotInv, Occupying
<1>11. ReconcileInv' /\ RegistrationInv'
  BY <1>2, <1>3, <1>5 DEF Inv, ReconcileInv, ReconcileSparesTracked, Identified, RegistrationInv
<1> QED
  BY <1>1, <1>7, <1>8, <1>9, <1>10, <1>11 DEF Inv

LEMMA StutterInv ==
  ASSUME Inv, UNCHANGED vars
  PROVE  Inv'
<1> USE DEF vars, memVars, procVars, worldVars, envVars, launcherVars, loopVars, listenerVars,
            waiterVars, cleanupVars, shutdownVars, sessionVars, brokerVars, budgetVars
<1>1. TypeOK'
  BY DEF Inv, TypeOK, LauncherTypeOK, GoroutinesTypeOK, WorldTypeOK, BudgetsTypeOK
<1>2. LoopInv' /\ StartInv' /\ UnusedInv'
  BY DEF Inv, LoopInv, StartInv, UnusedInv, Alive
<1>3. CleanupInv' /\ SlotInv' /\ ReconcileInv' /\ RegistrationInv'
  BY DEF Inv, CleanupInv, SlotInv, ReconcileInv, ReconcileSparesTracked, Identified,
         RegistrationInv, Alive, Occupying
<1> QED
  BY <1>1, <1>2, <1>3 DEF Inv

LEMMA NextInv == Inv /\ [Next]_vars => Inv'
  BY ListenerInv, LaunchLoopInv, AwaitExitInv, FinishRunnerInv, ShutdownInv, ReconcilePassInv,
     ProcessInv, EnvironmentInv, StutterInv DEF Next, Ended

-----------------------------------------------------------------------------
(* Theorems                                                                *)

\* Inv holds in every reachable state: Init establishes it and every step of every
\* goroutine, of GitHub and of the host preserves it.
THEOREM Invariance == Spec => []Inv
<1> QED
  BY InitInv, NextInv, PTL DEF Spec

\* Every variable keeps its type; in particular allowedLocked never yields a negative
\* number of launches, and the launch loop ends when none is left.
THEOREM TypeCorrect == Spec => []TypeOK
<1>1. Inv => TypeOK
  BY DEF Inv
<1> QED
  BY <1>1, Invariance, PTL

\* The runner processes really alive on the host never exceed MaxRunners: through failed
\* kills, partial launches, refills racing the listener, crashes and restarts.
THEOREM CapacityIsRespected == Spec => []CapacityRespected
<1>1. Inv => CapacityRespected
  BY DEF Inv, SlotInv, CapacityRespected
<1> QED
  BY <1>1, Invariance, PTL

\* A reconcile pass, at start or periodic, never has in its hands a runner that the launcher
\* is launching or tracks by its ID.
THEOREM ReconcileIsSafe == Spec => []ReconcileSparesTracked
<1>1. Inv => ReconcileSparesTracked
  BY DEF Inv, ReconcileInv
<1> QED
  BY <1>1, Invariance, PTL

\* The registration of a tracked runner is released by its own cleanup, after the process
\* ended, or by GitHub with its job: never by a retry or Shutdown, and by a reconcile pass
\* only if its handle has no ID, which under docker means that it was never started.
LEMMA ReleaseStep ==
  ASSUME IDFromCreate
  PROVE  Inv /\ [Next]_vars => [ReleasesEnded]_vars
<1> SUFFICES ASSUME Inv, Next, NEW r \in running, reg[r] = "live", reg'[r] = "gone"
             PROVE  res[r] # "alive" \/ job'[r] = "done"
  BY DEF ReleasesEnded
<1>1. /\ r \in Runners /\ reg \in [Runners -> {"none", "live", "gone"}]
      /\ reg'[r] # reg[r]
  BY DEF Inv, TypeOK, LauncherTypeOK, WorldTypeOK
<1>2. r \notin pendingRegistrations /\ r \notin fresh
      /\ (lpc = "regs" => r \notin ltodo) /\ (spc = "regs" => r \notin stodo)
      /\ (rpc = "scan" /\ r \in rtodo => res[r] # "alive")
  BY <1>1 DEF Inv, RegistrationInv, UnusedInv, CleanupInv, ReconcileInv,
         ReconcileSparesTracked, Identified
<1>3. ~Listener
  BY <1>1, <1>2 DEF Listener, HandleJobStarted, HandleJobCompleted, RetryRegistration,
         HandleDesiredRunnerCount, Heartbeat, ApplyStatistics, RetryCleanupBegin, LaunchLoopBegin
<1>4. ~LaunchLoop
  BY <1>1, <1>2 DEF LaunchLoop, NameFailure, GenerateJIT, BackendCreate, BackendStart, RemoveUnused
<1>5. ~Shutdown
  BY <1>1, <1>2 DEF Shutdown, ShutdownBegin, ShutdownRegistrations, ShutdownRemove, ShutdownEnd
<1>6. CASE Reconcile
  BY <1>1, <1>6, <1>2 DEF Reconcile, ReconcileList, ReconcileSnapshot, ReconcileDeregister,
         ReconcileRemove, ReconcileEnd
<1>7. ~Restart /\ ~Crash /\ ~Ended /\ ~Host
  BY <1>1 DEF Restart, Crash, FreshProcess, Ended, vars, worldVars, Host, RunnerExit, LateCreate
<1>8. CASE GitHub
  BY <1>1, <1>8 DEF GitHub, JobAssigned, SendMessage, LoseMessage, JobStarted, JobCompleted, Inv,
         TypeOK, WorldTypeOK
<1>9. ASSUME NEW q \in Runners, AwaitExit(q)
      PROVE  FALSE
  BY <1>1, <1>9 DEF AwaitExit, worldVars
<1>10. ASSUME NEW q \in Runners, FinishRunner(q)
       PROVE  res[r] # "alive"
  <2>1. q = r /\ cpc[r] = "dereg"
    BY <1>1, <1>10 DEF FinishRunner, FinishBegin, FinishKill, FinishMark, FinishDeregister,
         FinishRemove, FinishSettle
  <2>2. r \notin Occupying
    BY <1>1, <2>1 DEF Inv, CleanupInv, Occupying
  <2>3. sess = "up"
    BY <1>1, <2>1 DEF Inv, StartInv, TypeOK, GoroutinesTypeOK
  <2> QED BY <1>1, <2>2, <2>3 DEF Inv, SlotInv, Alive
<1> QED
  BY <1>3, <1>4, <1>5, <1>6, <1>7, <1>8, <1>9, <1>10 DEF Next

\* A tracked runner loses its registration only after its process ended, or with its job:
\* the contract Backend.Launch states for a handle, for a backend like docker.
THEOREM TerminatesBeforeRelease ==
  ASSUME IDFromCreate
  PROVE  Spec => TerminateBeforeRelease
<1>1. Inv /\ [Next]_vars => [ReleasesEnded]_vars
  BY ReleaseStep
<1> QED
  BY <1>1, Invariance, PTL DEF Spec, TerminateBeforeRelease

\* A launch under way excludes Shutdown, and after Shutdown began none is started.
LEMMA CreateStep == Inv /\ [Next]_vars => [CreatesNothing]_vars
<1> SUFFICES ASSUME Inv, Next, stopped, NEW r \in Runners, res[r] = "none"
             PROVE  res'[r] = "none"
  BY DEF CreatesNothing
<1>1. launch = "none" /\ res \in [Runners -> Resources]
  BY DEF Inv, LoopInv, TypeOK, WorldTypeOK
<1>2. CASE Listener \/ Shutdown \/ \E q \in Runners : AwaitExit(q)
  BY <1>2 DEF Listener, Shutdown, AwaitExit, worldVars
<1>3. ~LaunchLoop
  BY <1>1 DEF LaunchLoop, NameFailure, GenerateJIT, BackendCreate, BackendStart, RemoveUnused
<1>4. CASE Reconcile
  BY <1>1, <1>4 DEF Reconcile, ReconcileList, ReconcileSnapshot, ReconcileDeregister,
         ReconcileRemove, ReconcileEnd, Removed, Listed
<1>5. CASE Restart \/ Crash \/ Ended
  BY <1>1, <1>5 DEF Restart, Crash, Ended, vars, worldVars
<1>6. CASE GitHub \/ Host
  BY <1>1, <1>6 DEF GitHub, Host, JobAssigned, SendMessage, LoseMessage, JobStarted, JobCompleted,
         RunnerExit, LateCreate
<1>7. ASSUME NEW q \in Runners, FinishRunner(q)
      PROVE  res'[r] = "none"
  BY <1>1, <1>7 DEF FinishRunner, FinishBegin, FinishKill, FinishMark, FinishDeregister,
         FinishRemove, FinishSettle, Killed, Removed, Listed
<1> QED
  BY <1>2, <1>3, <1>4, <1>5, <1>6, <1>7 DEF Next

\* Once Shutdown has begun no backend resource comes into being.
THEOREM StoppedIsFinal == Spec => StoppedCreatesNothing
<1> QED
  BY Invariance, CreateStep, PTL DEF Spec, StoppedCreatesNothing
-----------------------------------------------------------------------------
(* The gauge of active runners: OnStart and OnStop pair up.                *)

\* The gauge counts the runners whose stop is not reported yet and the launch under way;
\* cleanups are of runners that were launched, so each of them reports its own stop.
GaugeInv ==
  /\ GaugeExact
  /\ \A r \in Runners : r \in running \/ cpc[r] # "free" => apc[r] # "none"
  /\ lpc = "cleanup" => \A r \in ltodo : apc[r] # "none"
  /\ spc = "finish" => \A r \in stodo : apc[r] # "none"

LEMMA TrackedSize ==
  /\ Tracked \in SUBSET Runners /\ IsFiniteSet(Tracked) /\ Cardinality(Tracked) \in Nat
  /\ Cardinality({}) = 0
<1>1. Tracked \in SUBSET Runners
  BY DEF Tracked
<1> QED
  BY <1>1, ConstantsAssumption, FS_Subset, FS_CardinalityType, FS_EmptySet

\* A step that launches nothing and reports no stop leaves the gauge right.
LEMMA GaugeSame ==
  ASSUME GaugeExact, gauge' = gauge, fresh' = fresh,
         \A r \in Runners : /\ apc'[r] = "none" <=> apc[r] = "none"
                            /\ st'[r].stopReported = st[r].stopReported
  PROVE  GaugeExact'
<1>1. Tracked' = Tracked
  BY DEF Tracked
<1> QED
  BY <1>1 DEF GaugeExact

LEMMA GaugeListener ==
  ASSUME Inv, GaugeInv, Listener
  PROVE  GaugeInv'
<1> USE DEF memVars, launcherVars, loopVars, listenerVars, waiterVars, cleanupVars, shutdownVars, budgetVars
<1>1. UNCHANGED <<waiterVars, cleanupVars, shutdownVars, gauge>>
  BY DEF Listener
<1>2. /\ st \in [Runners -> RunnerState] /\ running \subseteq Runners
      /\ running' = running
  BY DEF Inv, TypeOK, LauncherTypeOK, Listener, HandleJobStarted, HandleJobCompleted, ApplyStatistics,
     HandleDesiredRunnerCount, Heartbeat, RetryRegistration, RetryCleanupBegin, LaunchLoopBegin
<1>3. \A r \in Runners : st'[r].stopReported = st[r].stopReported
  BY <1>2 DEF Listener, HandleJobStarted, HandleJobCompleted, ApplyStatistics,
     HandleDesiredRunnerCount, Heartbeat, RetryRegistration, RetryCleanupBegin, LaunchLoopBegin, RunnerState
<1>4. fresh' = fresh
  BY DEF Listener, HandleJobStarted, HandleJobCompleted, ApplyStatistics,
     HandleDesiredRunnerCount, Heartbeat, RetryRegistration, RetryCleanupBegin, LaunchLoopBegin
<1>5. GaugeExact'
  BY <1>1, <1>3, <1>4, GaugeSame DEF GaugeInv
<1>6. lpc' = "cleanup" => (lpc = "cleanup" /\ ltodo' = ltodo) \/ ltodo' \subseteq running
  BY DEF Listener, HandleJobStarted, HandleJobCompleted, ApplyStatistics, PendingCleanup,
     HandleDesiredRunnerCount, Heartbeat, RetryRegistration, RetryCleanupBegin, LaunchLoopBegin
<1> QED
  BY <1>1, <1>2, <1>5, <1>6 DEF GaugeInv

\* The loop gives up before a runner is in l.running: OnStop undoes the OnStart of the launch.
LEMMA GaugeLoopEnd ==
  ASSUME Inv, GaugeInv, NEW permanent, LoopEnd(permanent), launch # "none",
         gauge' = gauge - Cardinality(fresh), UNCHANGED <<running, st, cpc, ltodo, spc, stodo>>
  PROVE  GaugeInv'
<1>1. /\ fresh' = {} /\ \A r \in Runners : apc'[r] = "none" <=> apc[r] = "none"
  BY DEF LoopEnd
<1>2. Tracked' = Tracked
  BY <1>1 DEF Tracked
<1>3. gauge \in Int /\ Cardinality(fresh) \in Nat
  BY ConstantsAssumption, FS_Subset, FS_CardinalityType DEF Inv, TypeOK, WorldTypeOK, LauncherTypeOK
<1>4. GaugeExact'
  BY <1>1, <1>2, <1>3, TrackedSize DEF GaugeExact, GaugeInv
<1>5. lpc' = "cleanup" => lpc = "cleanup"
  BY DEF LoopEnd
<1>6. ltodo \subseteq Runners /\ stodo \subseteq Runners
  BY DEF Inv, TypeOK, GoroutinesTypeOK
<1> QED
  BY <1>1, <1>4, <1>5, <1>6 DEF GaugeInv

\* A launch ends with a runner in l.running, its stop reported if the launch failed.
LEMMA GaugeLaunched ==
  ASSUME Inv, GaugeInv, NEW r \in fresh, launch # "none", NEW stopReported \in BOOLEAN,
         running' = running \cup {r}, st' = [st EXCEPT ![r] = NewState(stopReported)],
         gauge' = IF stopReported THEN gauge - 1 ELSE gauge,
         fresh' = {}, apc'[r] # "none", lpc' = "cleanup" => lpc = "cleanup",
         \A q \in Runners \ {r} : apc'[q] = "none" <=> apc[q] = "none",
         UNCHANGED <<cpc, ltodo, spc, stodo>>
  PROVE  GaugeInv'
<1>1. /\ r \in Runners /\ fresh = {r} /\ apc[r] = "none" /\ cpc[r] = "free"
      /\ running \subseteq Runners /\ st \in [Runners -> RunnerState] /\ gauge \in Int
      /\ ltodo \subseteq Runners /\ stodo \subseteq Runners
  BY FreshFacts DEF Inv, TypeOK, LauncherTypeOK, WorldTypeOK, GoroutinesTypeOK
<1>2. st'[r].stopReported = stopReported /\ \A q \in Runners \ {r} : st'[q] = st[q]
  BY <1>1 DEF NewState
<1>3. r \notin Tracked
  BY <1>1 DEF Tracked
<1>4. Tracked' = IF stopReported THEN Tracked ELSE Tracked \cup {r}
  BY <1>1, <1>2, <1>3 DEF Tracked
<1>5. Cardinality(Tracked \cup {r}) = Cardinality(Tracked) + 1
  BY <1>3, TrackedSize, FS_AddElement
<1>6. Cardinality(fresh) = 1 /\ Cardinality(fresh') = 0
  BY <1>1, FS_Singleton, FS_EmptySet
<1>7. GaugeExact'
  BY <1>1, <1>4, <1>5, <1>6, TrackedSize DEF GaugeExact, GaugeInv
<1> QED
  BY <1>1, <1>7 DEF GaugeInv

LEMMA GaugeLaunchLoop ==
  ASSUME Inv, GaugeInv, LaunchLoop
  PROVE  GaugeInv'
<1> USE DEF cleanupVars, shutdownVars
<1>0. UNCHANGED <<cpc, ltodo, spc, stodo>> /\ gauge \in Int /\ apc \in [Runners -> {"none", "wait", "finish", "refill", "launching", "done"}]
  BY DEF LaunchLoop, Inv, TypeOK, WorldTypeOK, GoroutinesTypeOK
<1>1. CASE NameFailure
  <2>1. launch # "none" /\ fresh = {} /\ LoopEnd(FALSE) /\ UNCHANGED <<gauge, running, st>>
    BY <1>1 DEF NameFailure, Inv, LoopInv
  <2>2. gauge' = gauge - Cardinality(fresh)
    BY <1>0, <2>1, FS_EmptySet
  <2> QED BY <1>0, <2>1, <2>2, GaugeLoopEnd
<1>2. ASSUME NEW r \in Runners, GenerateJIT(r) PROVE GaugeInv'
  <2>1. launch = "next" /\ fresh = {} /\ UNCHANGED <<running, st>>
    BY <1>2 DEF GenerateJIT, Inv, LoopInv
  <2>2. CASE fresh' = {r} /\ gauge' = gauge + 1 /\ UNCHANGED <<lpc, apc>>
    <3>1. Tracked' = Tracked
      BY <2>1, <2>2 DEF Tracked
    <3>2. Cardinality(fresh) = 0 /\ Cardinality(fresh') = 1
      BY <2>1, <2>2, FS_Singleton, FS_EmptySet
    <3>3. GaugeExact'
      BY <1>0, <2>2, <3>1, <3>2, TrackedSize DEF GaugeExact, GaugeInv
    <3> QED BY <1>0, <2>1, <2>2, <3>3 DEF GaugeInv
  <2>3. ASSUME NEW permanent, LoopEnd(permanent), UNCHANGED gauge PROVE GaugeInv'
    <3>1. gauge' = gauge - Cardinality(fresh)
      BY <1>0, <2>1, <2>3, FS_EmptySet
    <3> QED BY <1>0, <2>1, <2>3, <3>1, GaugeLoopEnd
  <2> QED BY <1>2, <2>2, <2>3 DEF GenerateJIT
<1>3. ASSUME NEW r \in Runners, BackendCreate(r) \/ BackendStart(r), NEW kind, PartialLaunch(r, kind) PROVE GaugeInv'
  <2>1. r \in fresh /\ launch # "none"
    BY <1>3 DEF BackendCreate, BackendStart
  <2> QED BY <1>0, <1>3, <2>1, GaugeLaunched DEF PartialLaunch
<1>4. ASSUME NEW r \in Runners, BackendCreate(r) PROVE GaugeInv'
  <2>1. CASE UNCHANGED <<running, st, gauge, fresh, lpc, apc>>
    BY <1>0, <2>1, GaugeSame DEF GaugeInv
  <2> QED BY <1>3, <1>4, <2>1 DEF BackendCreate
<1>5. ASSUME NEW r \in Runners, BackendStart(r) PROVE GaugeInv'
  <2>1. r \in fresh /\ launch # "none"
    BY <1>5 DEF BackendStart
  <2>2. CASE /\ running' = running \cup {r} /\ st' = [st EXCEPT ![r] = NewState(FALSE)] 
             /\ LoopNext(r) /\ UNCHANGED gauge
    BY <1>0, <2>1, <2>2, GaugeLaunched DEF LoopNext
  <2> QED BY <1>3, <1>5, <2>2 DEF BackendStart
<1>6. ASSUME NEW r \in Runners, RemoveUnused(r) PROVE GaugeInv'
  <2>1. /\ launch # "none" /\ fresh = {r} /\ gauge' = gauge - 1 /\ UNCHANGED <<running, st>>
    BY <1>6, FreshFacts DEF RemoveUnused
  <2>2. PICK permanent : LoopEnd(permanent)
    BY <1>6 DEF RemoveUnused
  <2>3. Cardinality(fresh) = 1
    BY <2>1, FS_Singleton
  <2> QED BY <1>0, <2>1, <2>2, <2>3, GaugeLoopEnd
<1> QED
  BY <1>1, <1>2, <1>4, <1>5, <1>6 DEF LaunchLoop

LEMMA GaugeAwaitExit ==
  ASSUME Inv, GaugeInv, NEW r \in Runners, AwaitExit(r)
  PROVE  GaugeInv'
<1> USE DEF worldVars, loopVars, listenerVars, cleanupVars, shutdownVars, waiterVars
<1>1. UNCHANGED <<running, cpc, lpc, ltodo, spc, stodo, gauge, st, fresh>>
  BY DEF AwaitExit, AwaitCleanExit, AwaitFailure, Refill
<1>2. \A q \in Runners : apc'[q] = "none" <=> apc[q] = "none"
  BY DEF AwaitExit, AwaitCleanExit, AwaitFailure, Refill, Inv, TypeOK, GoroutinesTypeOK
<1>3. GaugeExact'
  BY <1>1, <1>2, GaugeSame DEF GaugeInv
<1>4. ltodo \subseteq Runners /\ stodo \subseteq Runners
  BY DEF Inv, TypeOK, GoroutinesTypeOK
<1> QED
  BY <1>1, <1>2, <1>3, <1>4 DEF GaugeInv

LEMMA ReturnKeeps ==
  ASSUME Inv, NEW r \in Runners, NEW owner, Return(r, owner), owner = "await" => apc[r] # "none"
  PROVE  /\ ltodo' \subseteq ltodo /\ stodo' \subseteq stodo
         /\ \A q \in Runners : apc'[q] = "none" <=> apc[q] = "none"
  BY DEF Return, Done, Inv, TypeOK, GoroutinesTypeOK

LEMMA GaugeFinishRunner ==
  ASSUME Inv, GaugeInv, NEW r \in Runners, FinishRunner(r)
  PROVE  GaugeInv'
<1> USE DEF loopVars, cleanupVars, budgetVars
<1>0. /\ UNCHANGED <<fresh, lpc, spc>> /\ ltodo \subseteq Runners /\ stodo \subseteq Runners
      /\ st \in [Runners -> RunnerState] /\ gauge \in Int /\ running \subseteq Runners
      /\ cpc \in [Runners -> {"free", "kill", "mark", "dereg", "remove", "settle"}]
  BY DEF FinishRunner, Inv, TypeOK, LauncherTypeOK, GoroutinesTypeOK, WorldTypeOK
<1>1. /\ apc[r] # "none" /\ ltodo' \subseteq ltodo /\ stodo' \subseteq stodo
      /\ \A q \in Runners : apc'[q] = "none" <=> apc[q] = "none"
  <2>1. ASSUME NEW owner \in Owners, FinishBegin(r, owner)
        PROVE  /\ apc[r] # "none" /\ ltodo' \subseteq ltodo /\ stodo' \subseteq stodo
               /\ \A q \in Runners : apc'[q] = "none" <=> apc[q] = "none"
    <3>1. apc[r] # "none"
      BY <2>1 DEF FinishBegin, Wants, GaugeInv
    <3> QED BY <2>1, <3>1, ReturnKeeps DEF FinishBegin
  <2>2. CASE FinishKill(r) \/ FinishMark(r) \/ FinishDeregister(r) \/ FinishRemove(r) \/ FinishSettle(r)
    <3>1. apc[r] # "none"
      BY <2>2 DEF FinishKill, FinishMark, FinishDeregister, FinishRemove, FinishSettle, GaugeInv
    <3>2. Release(r) \/ UNCHANGED <<apc, ltodo, stodo>>
      BY <2>2 DEF FinishKill, FinishMark, FinishDeregister, FinishRemove, FinishSettle, KillError
    <3> QED BY <3>1, <3>2, ReturnKeeps DEF Release
  <2> QED BY <2>1, <2>2 DEF FinishRunner
<1>2. running' \subseteq running /\ \A q \in Runners \ {r} : cpc'[q] = cpc[q]
  BY <1>0 DEF FinishRunner, FinishBegin, FinishKill, FinishMark, FinishDeregister, FinishRemove, FinishSettle,
     KillError, Release
<1>3. GaugeExact'
  <2>1. CASE FinishMark(r)
    <3>1. /\ gauge' = IF st[r].stopReported THEN gauge ELSE gauge - 1
          /\ st'[r].stopReported = TRUE /\ \A q \in Runners \ {r} : st'[q] = st[q]
      BY <1>0, <2>1 DEF FinishMark, ReportStop, RunnerState
    <3>2. Tracked' = Tracked \ {r}
      BY <1>1, <3>1 DEF Tracked
    <3>3. r \in Tracked <=> ~st[r].stopReported
      BY <1>1 DEF Tracked
    <3>4. Cardinality(Tracked \ {r}) = IF r \in Tracked THEN Cardinality(Tracked) - 1 ELSE Cardinality(Tracked)
      BY TrackedSize, FS_RemoveElement
    <3>5. Cardinality(fresh) \in Nat
      BY ConstantsAssumption, FS_Subset, FS_CardinalityType DEF Inv, TypeOK, LauncherTypeOK
    <3> QED BY <1>0, <3>1, <3>2, <3>3, <3>4, <3>5, TrackedSize DEF GaugeExact, GaugeInv
  <2>2. CASE ~FinishMark(r)
    <3>1. gauge' = gauge
      BY <2>2 DEF FinishRunner, FinishBegin, FinishKill, FinishDeregister, FinishRemove, FinishSettle
    <3>2. \A q \in Runners : st'[q].stopReported = st[q].stopReported
      <4>1. ASSUME NEW owner \in Owners, FinishBegin(r, owner)
            PROVE  \A q \in Runners : st'[q].stopReported = st[q].stopReported
        <5> DEFINE s == [st[r] EXCEPT !.cleanupStarted = TRUE,
                                      !.needsDeregistration = Terminates(r, owner) \/ ~st[r].busy]
        <5>1. s.stopReported = st[r].stopReported
          BY <1>0 DEF RunnerState
        <5> HIDE DEF s
        <5>2. st' \in {st, [st EXCEPT ![r] = st[r]], [st EXCEPT ![r] = s]}
          BY <4>1 DEF FinishBegin, s
        <5> QED BY <1>0, <5>1, <5>2
      <4>2. CASE FinishKill(r) \/ FinishDeregister(r) \/ FinishRemove(r) \/ FinishSettle(r)
        BY <1>0, <4>2 DEF FinishKill, FinishDeregister, FinishRemove, FinishSettle, RunnerState
      <4> QED BY <2>2, <4>1, <4>2 DEF FinishRunner
    <3> QED BY <1>0, <1>1, <3>1, <3>2, GaugeSame DEF GaugeInv
  <2> QED BY <2>1, <2>2
<1> QED
  BY <1>0, <1>1, <1>2, <1>3 DEF GaugeInv

LEMMA GaugeShutdown ==
  ASSUME Inv, GaugeInv, Shutdown
  PROVE  GaugeInv'
<1> USE DEF loopVars, listenerVars, waiterVars, cleanupVars
<1>1. UNCHANGED <<running, cpc, apc, lpc, ltodo, st, gauge, fresh>>
  BY DEF Shutdown
<1>2. GaugeExact'
  BY <1>1, GaugeSame DEF GaugeInv
<1>3. spc' = "finish" => stodo' \subseteq running
  BY DEF Shutdown, ShutdownBegin, ShutdownRegistrations, ShutdownEnd, ShutdownRemove, ToStop
<1>4. running \subseteq Runners
  BY DEF Inv, TypeOK, LauncherTypeOK
<1> QED
  BY <1>1, <1>2, <1>3, <1>4 DEF GaugeInv

LEMMA GaugeRest ==
  ASSUME Inv, GaugeInv, Reconcile \/ Restart \/ Crash \/ GitHub \/ Host \/ UNCHANGED vars
  PROVE  GaugeInv'
<1> USE DEF vars, memVars, procVars, progVars, worldVars, launcherVars, loopVars, listenerVars, waiterVars,
            cleanupVars, shutdownVars, sessionVars
<1>1. CASE Restart \/ Crash
  <2>1. FreshProcess
    BY <1>1 DEF Restart, Crash
  <2>2. Tracked' = {}
    BY <2>1 DEF FreshProcess, Tracked
  <2> QED BY <2>1, <2>2, TrackedSize DEF FreshProcess, FreshLauncher, GaugeInv, GaugeExact
<1>2. CASE UNCHANGED progVars \/ UNCHANGED vars
  BY <1>2, GaugeSame DEF GaugeInv
<1>3. CASE Reconcile
  <2>1. UNCHANGED <<running, cpc, apc, ltodo, spc, stodo, st, gauge, fresh>> /\ (lpc' = lpc \/ lpc' = "dead")
    BY <1>3 DEF Reconcile, ReconcileList, ReconcileSnapshot, ReconcileDeregister, ReconcileRemove, ReconcileEnd
  <2> QED BY <2>1, GaugeSame DEF GaugeInv
<1> QED
  BY <1>1, <1>2, <1>3 DEF GitHub, Host

\* The gauge of active runners is exact: every OnStart has its OnStop, once, through partial
\* launches, failed kills, retried cleanups and shutdowns that race the runner's own exit.
THEOREM GaugeIsExact == Spec => []GaugeExact
<1>1. Init => GaugeInv
  <2>1. Init => Tracked = {}
    BY DEF Init, Tracked
  <2> QED BY <2>1, TrackedSize DEF Init, GaugeInv, GaugeExact
<1>2. Inv /\ GaugeInv /\ [Next]_vars => GaugeInv'
  BY GaugeListener, GaugeLaunchLoop, GaugeAwaitExit, GaugeFinishRunner, GaugeShutdown, GaugeRest DEF Next, Ended
<1>3. GaugeInv => GaugeExact
  BY DEF GaugeInv
<1> QED
  BY <1>1, <1>2, <1>3, Invariance, PTL DEF Spec
-----------------------------------------------------------------------------
(* Registrations: each one that GitHub still has can be found again.       *)

\* A runner is marked busy only by the event of its own job, and GitHub removes the
\* registration with the job.
JobEventsInv ==
  /\ \A r \in evStarted \cup inbox.started : job[r] # "none"
  /\ \A r \in Runners : (job[r] = "done" => reg[r] = "gone") /\ (st[r].busy => job[r] # "none")

\* The cleanup of r has removed the registration, or leaves that to the job of a busy runner.
Deregistered(r) ==
  st[r].cleanupStarted /\ (st[r].needsDeregistration => st[r].registrationRemoved)

\* finishRunner and the reconciler forget a record only after its registration is gone.
DeregisteredInv ==
  /\ \A r \in rcur : reg[r] = "gone"
  /\ \A r \in Runners :
       /\ st[r].registrationRemoved => reg[r] = "gone"
       /\ st[r].cleanupStarted /\ ~st[r].needsDeregistration => st[r].busy
       /\ cpc[r] # "free" => st[r].cleanupStarted
       /\ cpc[r] \in {"remove", "settle"} => Deregistered(r)

\* Nothing exists yet of the resource that a launch is about to create.
FoundInv ==
  /\ RegistrationsDiscoverable /\ JobEventsInv /\ DeregisteredInv
  /\ launch = "create" => \A r \in fresh : res[r] = "none"

\* What the typing of the state says of the functions these invariants read.
LEMMA FoundTypes ==
  ASSUME Inv
  PROVE  /\ reg \in [Runners -> {"none", "live", "gone"}] /\ res \in [Runners -> Resources]
         /\ job \in [Runners -> {"none", "running", "done"}]
         /\ cpc \in [Runners -> {"free", "kill", "mark", "dereg", "remove", "settle"}]
         /\ st \in [Runners -> RunnerState] /\ inbox \in Message /\ evStarted \subseteq Runners
         /\ running \subseteq Runners /\ rcur \subseteq Runners /\ fresh \subseteq Runners
         /\ pendingRegistrations \subseteq Runners /\ unrecorded \subseteq Runners
  BY DEF Inv, TypeOK, LauncherTypeOK, GoroutinesTypeOK, WorldTypeOK

\* A runner whose cleanup is that far has no registration, or a job that takes it along.
LEMMA DeregisteredIsFound ==
  ASSUME FoundInv, NEW r \in Runners, Deregistered(r), reg[r] = "live"
  PROVE  job[r] = "running" \/ job[r] \notin {"none", "running", "done"}
  BY DEF FoundInv, JobEventsInv, DeregisteredInv, Deregistered

LEMMA FoundListener ==
  ASSUME Inv, FoundInv, Listener
  PROVE  FoundInv'
<1> USE DEF memVars, launcherVars, loopVars, listenerVars, waiterVars, cleanupVars, sessionVars, brokerVars,
            budgetVars
<1>1. UNCHANGED <<cpc, rcur, evStarted, res, job, unrecorded>>
  BY DEF Listener
<1>2. /\ UNCHANGED <<running, fresh>>
      /\ \A r \in Runners : \/ reg'[r] = reg[r]
                            \/ reg'[r] = "gone"
      /\ \A r \in pendingRegistrations : r \in pendingRegistrations' \/ reg'[r] = "gone"
  BY FoundTypes DEF Listener, HandleJobStarted, HandleJobCompleted, ApplyStatistics,
     HandleDesiredRunnerCount, Heartbeat, RetryRegistration, RetryCleanupBegin, LaunchLoopBegin
<1>3. RegistrationsDiscoverable'
  BY <1>1, <1>2 DEF FoundInv, RegistrationsDiscoverable, Found, Listed
<1>4. inbox'.started \subseteq inbox.started
  BY FoundTypes DEF Listener, HandleJobStarted, HandleJobCompleted, ApplyStatistics,
     HandleDesiredRunnerCount, Heartbeat, RetryRegistration, RetryCleanupBegin, LaunchLoopBegin,
     NoMessage, Message
<1>5. \A r \in Runners :
        /\ st'[r].busy = st[r].busy \/ (st'[r].busy = TRUE /\ r \in inbox.started)
        /\ st'[r].cleanupStarted = st[r].cleanupStarted
        /\ st'[r].needsDeregistration = st[r].needsDeregistration
        /\ st'[r].registrationRemoved = st[r].registrationRemoved
  <2>1. ASSUME NEW q \in Runners, HandleJobStarted(q)
        PROVE  st' \in {st, [st EXCEPT ![q] = [st[q] EXCEPT !.busy = TRUE]]} /\ q \in inbox.started
    BY <2>1 DEF HandleJobStarted
  <2>2. CASE UNCHANGED st
    BY <2>2
  <2>3. CASE st' = [r \in Runners |->
                      IF r \in completions \cap running
                      THEN [st[r] EXCEPT !.completionAccounted = TRUE] ELSE st[r]]
    BY <2>3, FoundTypes DEF RunnerState
  <2>4. ASSUME NEW q \in Runners, st' = [st EXCEPT ![q] = [st[q] EXCEPT !.busy = TRUE]], q \in inbox.started
        PROVE \A r \in Runners :
        /\ st'[r].busy = st[r].busy \/ (st'[r].busy = TRUE /\ r \in inbox.started)
        /\ st'[r].cleanupStarted = st[r].cleanupStarted
        /\ st'[r].needsDeregistration = st[r].needsDeregistration
        /\ st'[r].registrationRemoved = st[r].registrationRemoved
    BY <2>4, FoundTypes DEF RunnerState
  <2> QED
    BY <2>1, <2>2, <2>3, <2>4 DEF Listener, HandleJobCompleted, ApplyStatistics,
       HandleDesiredRunnerCount, Heartbeat, RetryRegistration, RetryCleanupBegin, LaunchLoopBegin
<1>6. JobEventsInv'
  BY <1>1, <1>2, <1>4, <1>5, FoundTypes DEF FoundInv, JobEventsInv
<1>7. DeregisteredInv'
  BY <1>1, <1>2, <1>5, FoundTypes DEF FoundInv, DeregisteredInv, Deregistered
<1>8. launch' = launch \/ launch' = "next"
  BY DEF Listener, HandleJobStarted, HandleJobCompleted, ApplyStatistics,
     HandleDesiredRunnerCount, Heartbeat, RetryRegistration, RetryCleanupBegin, LaunchLoopBegin
<1> QED
  BY <1>1, <1>2, <1>3, <1>6, <1>7, <1>8 DEF FoundInv

LEMMA FoundLaunchLoop ==
  ASSUME Inv, FoundInv, LaunchLoop
  PROVE  FoundInv'
<1> USE DEF memVars, launcherVars, loopVars, cleanupVars, sessionVars, brokerVars, budgetVars
<1>1. UNCHANGED <<cpc, rcur, evStarted, inbox, job>>
  BY DEF LaunchLoop
<1>2. \A r \in Runners : reg'[r] = reg[r] \/ reg'[r] = "gone" \/ reg[r] = "none"
  BY FoundTypes DEF LaunchLoop, NameFailure, GenerateJIT, BackendCreate, BackendStart, RemoveUnused
<1>3. \A r \in Runners : reg[r] = "none" => r \notin rcur /\ ~st[r].registrationRemoved /\ job[r] # "done"
  BY DEF FoundInv, JobEventsInv, DeregisteredInv, Inv, UnusedInv, ReconcileInv
<1>4. \A r \in Runners : \/ st'[r] = st[r]
                         \/ /\ ~st'[r].busy /\ ~st'[r].cleanupStarted /\ ~st'[r].registrationRemoved
                            /\ cpc[r] = "free"
  <2>1. \A r \in Runners, b \in BOOLEAN :
          ~NewState(b).busy /\ ~NewState(b).cleanupStarted /\ ~NewState(b).registrationRemoved
    BY DEF NewState
  <2>2. \A r \in fresh : launch # "none" => cpc[r] = "free"
    BY FreshFacts
  <2>3. st' = st \/ \E r \in fresh, b \in BOOLEAN : launch # "none" /\ st' = [st EXCEPT ![r] = NewState(b)]
    BY DEF LaunchLoop, NameFailure, GenerateJIT, BackendCreate, BackendStart, RemoveUnused, PartialLaunch
  <2> QED BY <2>1, <2>2, <2>3, FoundTypes
<1>5. JobEventsInv'
  BY <1>1, <1>2, <1>3, <1>4, FoundTypes DEF FoundInv, JobEventsInv
<1>6. DeregisteredInv'
  BY <1>1, <1>2, <1>3, <1>4, FoundTypes DEF FoundInv, DeregisteredInv, Deregistered
<1>7. RegistrationsDiscoverable'
  <2> USE FoundTypes DEF RegistrationsDiscoverable, Found, Listed
  <2>1. CASE NameFailure
    <3>1. fresh = {} /\ UNCHANGED <<running, pendingRegistrations, reg, res, unrecorded>>
      BY <2>1 DEF NameFailure, Inv, LoopInv
    <3> QED BY <1>1, <3>1 DEF FoundInv
  <2>2. ASSUME NEW r \in Runners, GenerateJIT(r) PROVE RegistrationsDiscoverable'
    <3>1. /\ fresh = {} /\ UNCHANGED <<running, pendingRegistrations, res>>
          /\ reg' = reg \/ (reg' = [reg EXCEPT ![r] = "live"] /\ (r \in fresh' \/ r \in unrecorded'))
          /\ unrecorded \subseteq unrecorded'
      BY <2>2 DEF GenerateJIT, Inv, LoopInv
    <3> QED BY <1>1, <3>1 DEF FoundInv
  <2>3. ASSUME NEW r \in Runners, BackendCreate(r) \/ BackendStart(r) PROVE RegistrationsDiscoverable'
    <3>1. /\ fresh = {r} /\ UNCHANGED <<pendingRegistrations, reg, unrecorded>>
          /\ running \subseteq running' /\ r \in running' \cup fresh'
          /\ \A q \in Runners \ {r} : res'[q] = res[q]
      BY <2>3, FreshFacts DEF BackendCreate, BackendStart, PartialLaunch
    <3> QED BY <1>1, <3>1 DEF FoundInv
  <2>4. ASSUME NEW r \in Runners, RemoveUnused(r) PROVE RegistrationsDiscoverable'
    <3>1. /\ fresh = {r} /\ UNCHANGED <<running, res, unrecorded>>
          /\ \/ reg' = [reg EXCEPT ![r] = "gone"] /\ UNCHANGED pendingRegistrations
             \/ /\ reg' \in {reg, [reg EXCEPT ![r] = "gone"]}
                /\ pendingRegistrations' = pendingRegistrations \cup {r}
      BY <2>4, FreshFacts DEF RemoveUnused, Remembered
    <3> QED BY <1>1, <3>1 DEF FoundInv
  <2> QED BY <2>1, <2>2, <2>3, <2>4 DEF LaunchLoop
<1>8. launch' = "create" => \A r \in fresh' : res'[r] = "none"
  BY DEF LaunchLoop, NameFailure, GenerateJIT, BackendCreate, BackendStart, RemoveUnused, PartialLaunch,
     LoopEnd, LoopNext, Inv, UnusedInv
<1> QED
  BY <1>5, <1>6, <1>7, <1>8 DEF FoundInv

LEMMA FoundFinishRunner ==
  ASSUME Inv, FoundInv, NEW r \in Runners, FinishRunner(r)
  PROVE  FoundInv'
<1> USE DEF loopVars, sessionVars, brokerVars, cleanupVars, budgetVars
<1>1. UNCHANGED <<rcur, evStarted, inbox, job, fresh, pendingRegistrations, unrecorded>>
  BY DEF FinishRunner
<1>2. /\ \A q \in Runners \ {r} : UNCHANGED <<reg[q], st[q], cpc[q], res[q]>>
      /\ running \ {r} \subseteq running'
  BY FoundTypes DEF FinishRunner, FinishBegin, FinishKill, FinishMark, FinishDeregister, FinishRemove,
     FinishSettle, KillError, Release, Killed, Removed
<1> DEFINE Kept == /\ reg'[r] = "live" => Found(r)'
                   /\ reg'[r] \in {reg[r], "gone"}
                   /\ st'[r].busy = st[r].busy
                   /\ st'[r].registrationRemoved => reg'[r] = "gone"
                   /\ st'[r].cleanupStarted /\ ~st'[r].needsDeregistration => st'[r].busy
                   /\ cpc'[r] # "free" => st'[r].cleanupStarted
                   /\ cpc'[r] \in {"remove", "settle"} => Deregistered(r)'
<1>3. /\ reg[r] = "live" => Found(r)
      /\ st[r].registrationRemoved => reg[r] = "gone"
      /\ st[r].cleanupStarted /\ ~st[r].needsDeregistration => st[r].busy
      /\ cpc[r] # "free" => st[r].cleanupStarted
      /\ cpc[r] \in {"remove", "settle"} => Deregistered(r)
      /\ Deregistered(r) /\ reg[r] = "live" => job[r] = "running"
      /\ st[r] \in RunnerState
  BY FoundTypes, DeregisteredIsFound DEF FoundInv, RegistrationsDiscoverable, DeregisteredInv
<1>4. ASSUME NEW owner \in Owners, FinishBegin(r, owner) PROVE Kept
  <2>1. UNCHANGED <<reg, res, running>>
    BY <1>4 DEF FinishBegin
  <2>2. reg'[r] = "live" => Found(r)'
    BY <1>1, <1>3, <2>1 DEF Found, Listed
  <2>3. CASE st[r].cleaned
    BY <1>3, <1>4, <2>1, <2>2, <2>3 DEF FinishBegin, Deregistered
  <2>4. CASE ~st[r].cleaned
    <3> DEFINE n == [st[r] EXCEPT !.cleanupStarted = TRUE,
                                  !.needsDeregistration = Terminates(r, owner) \/ ~st[r].busy]
               s == IF st[r].cleanupStarted THEN st[r] ELSE n
    <3>1. /\ s.busy = st[r].busy /\ s.registrationRemoved = st[r].registrationRemoved
          /\ s.cleanupStarted /\ (~s.needsDeregistration => s.busy)
      <4>1. n.busy = st[r].busy /\ n.registrationRemoved = st[r].registrationRemoved /\ n.cleanupStarted
        BY <1>3 DEF RunnerState
      <4>2. ~n.needsDeregistration => n.busy
        BY <1>3, <4>1 DEF RunnerState
      <4> QED BY <1>3, <4>1, <4>2
    <3>2. /\ st' = [st EXCEPT ![r] = s]
          /\ cpc' = [cpc EXCEPT ![r] = IF s.terminated THEN AfterTermination(s)
                                       ELSE IF Terminates(r, owner) THEN "kill" ELSE "mark"]
      BY <1>4, <2>4 DEF FinishBegin
    <3> HIDE DEF s
    <3>3. st'[r] = s /\ (cpc'[r] \in {"remove", "settle"} => (s.needsDeregistration => s.registrationRemoved))
      BY <3>2, FoundTypes DEF AfterTermination
    <3> QED BY <1>3, <2>1, <2>2, <3>1, <3>3 DEF Deregistered
  <2> QED BY <2>3, <2>4
<1>5. ASSUME FinishKill(r) PROVE Kept
  <2>1. /\ UNCHANGED <<reg, running, st>> /\ cpc'[r] \in {"mark", "free"}
        /\ Listed(r) => Listed(r)'
    BY <1>5, FoundTypes DEF FinishKill, KillError, Release, Killed, Listed
  <2>2. st[r].cleanupStarted
    BY <1>3, <1>5 DEF FinishKill
  <2>3. reg'[r] = "live" => Found(r)'
    BY <1>1, <1>3, <2>1 DEF Found
  <2> QED BY <1>3, <2>1, <2>2, <2>3 DEF Deregistered
<1>6. ASSUME FinishMark(r) PROVE Kept
  <2> DEFINE s == [st[r] EXCEPT !.terminated = TRUE, !.occupiesCapacity = FALSE, !.stopReported = TRUE]
  <2>1. /\ UNCHANGED <<reg, running, res>> /\ cpc'[r] = AfterTermination(st[r]) /\ cpc[r] = "mark"
        /\ st'[r] = s
    BY <1>6, FoundTypes DEF FinishMark
  <2>2. /\ s.busy = st[r].busy /\ s.registrationRemoved = st[r].registrationRemoved
        /\ s.cleanupStarted = st[r].cleanupStarted /\ s.needsDeregistration = st[r].needsDeregistration
    BY <1>3 DEF RunnerState
  <2> HIDE DEF s
  <2>3. reg'[r] = "live" => Found(r)'
    BY <1>1, <1>3, <2>1 DEF Found, Listed
  <2> QED BY <1>3, <2>1, <2>2, <2>3 DEF AfterTermination, Deregistered
<1>7. ASSUME FinishDeregister(r) PROVE Kept
  <2>0. cpc[r] = "dereg" /\ UNCHANGED <<running, res>>
    BY <1>7 DEF FinishDeregister
  <2>1. CASE /\ reg' = [reg EXCEPT ![r] = "gone"] /\ cpc' = [cpc EXCEPT ![r] = "remove"]
             /\ st' = [st EXCEPT ![r].registrationRemoved = TRUE]
    <3> DEFINE s == [st[r] EXCEPT !.registrationRemoved = TRUE]
    <3>1. /\ s.busy = st[r].busy /\ s.registrationRemoved = TRUE
          /\ s.cleanupStarted = st[r].cleanupStarted /\ s.needsDeregistration = st[r].needsDeregistration
      BY <1>3 DEF RunnerState
    <3>2. st'[r] = s /\ reg'[r] = "gone" /\ cpc'[r] = "remove"
      BY <2>1, FoundTypes
    <3> HIDE DEF s
    <3> QED BY <1>3, <2>0, <3>1, <3>2 DEF Deregistered
  <2>2. CASE reg' \in {reg, [reg EXCEPT ![r] = "gone"]} /\ Release(r) /\ UNCHANGED st
    <3>1. reg'[r] \in {reg[r], "gone"} /\ cpc'[r] = "free"
      BY <2>2, FoundTypes DEF Release
    <3>2. reg'[r] = "live" => Found(r)'
      BY <1>1, <1>3, <2>0, <3>1 DEF Found, Listed
    <3> QED BY <1>3, <2>2, <3>1, <3>2
  <2> QED BY <1>7, <2>1, <2>2 DEF FinishDeregister
<1>8. ASSUME FinishRemove(r) \/ FinishSettle(r) PROVE Kept
  <2>0. /\ cpc[r] \in {"remove", "settle"} /\ UNCHANGED reg /\ cpc'[r] \in {"settle", "free"}
    BY <1>8, FoundTypes DEF FinishRemove, FinishSettle, Release
  <2>1. reg'[r] = "live" => Found(r)'
    BY <1>1, <1>3, <2>0 DEF Found
  <2>2. \/ st'[r] = st[r]
        \/ st'[r] = [st[r] EXCEPT !.cleaned = TRUE]
    BY <1>8, FoundTypes DEF FinishRemove, FinishSettle
  <2>3. /\ st'[r].busy = st[r].busy /\ st'[r].registrationRemoved = st[r].registrationRemoved
        /\ st'[r].cleanupStarted = st[r].cleanupStarted
        /\ st'[r].needsDeregistration = st[r].needsDeregistration
    BY <1>3, <2>2 DEF RunnerState
  <2> QED BY <1>3, <2>0, <2>1, <2>3 DEF Deregistered
<1>9. Kept
  BY <1>4, <1>5, <1>6, <1>7, <1>8 DEF FinishRunner
<1> HIDE DEF Kept
<1>10. RegistrationsDiscoverable'
  <2>1. ASSUME NEW q \in Runners \ {r}, reg'[q] = "live" PROVE Found(q)'
    BY <1>1, <1>2, <2>1 DEF FoundInv, RegistrationsDiscoverable, Found, Listed
  <2> QED BY <1>9, <2>1 DEF RegistrationsDiscoverable, Kept
<1>11. JobEventsInv'
  BY <1>1, <1>2, <1>9, FoundTypes DEF FoundInv, JobEventsInv, Kept
<1>12. DeregisteredInv'
  BY <1>1, <1>2, <1>9, FoundTypes DEF FoundInv, DeregisteredInv, Deregistered, Kept
<1>13. launch' = launch /\ \A q \in Runners : res[q] = "none" => res'[q] = "none"
  BY FoundTypes DEF FinishRunner, FinishBegin, FinishKill, FinishMark, FinishDeregister, FinishRemove,
     FinishSettle, Killed, Removed, Listed
<1> QED
  BY <1>1, <1>10, <1>11, <1>12, <1>13, FoundTypes DEF FoundInv

LEMMA FoundShutdown ==
  ASSUME Inv, FoundInv, Shutdown
  PROVE  FoundInv'
<1> USE DEF loopVars, cleanupVars, sessionVars, brokerVars
<1>1. UNCHANGED <<launch, fresh, cpc, rcur, evStarted, running, st, res, job, unrecorded, inbox>>
  BY DEF Shutdown
<1>2. /\ \A r \in Runners : reg'[r] = reg[r] \/ reg'[r] = "gone"
      /\ \A r \in pendingRegistrations : r \in pendingRegistrations' \/ reg'[r] = "gone"
  BY FoundTypes DEF Shutdown, ShutdownBegin, ShutdownRegistrations, ShutdownEnd, ShutdownRemove
<1>3. RegistrationsDiscoverable'
  BY <1>1, <1>2 DEF FoundInv, RegistrationsDiscoverable, Found, Listed
<1>4. JobEventsInv' /\ DeregisteredInv'
  BY <1>1, <1>2, FoundTypes DEF FoundInv, JobEventsInv, DeregisteredInv, Deregistered
<1> QED
  BY <1>1, <1>3, <1>4 DEF FoundInv

LEMMA FoundReconcile ==
  ASSUME Inv, FoundInv, Reconcile
  PROVE  FoundInv'
<1> USE DEF memVars, launcherVars, loopVars, cleanupVars, sessionVars, brokerVars
<1>1. UNCHANGED <<launch, fresh, cpc, evStarted, running, st, job, unrecorded, pendingRegistrations>>
  BY DEF Reconcile
<1>2. /\ \A r \in Runners : reg'[r] = reg[r] \/ reg'[r] = "gone"
      /\ \A r \in rcur' : reg'[r] = "gone"
      /\ \A r \in Runners : Listed(r) => Listed(r)' \/ reg'[r] = "gone"
  BY FoundTypes DEF Reconcile, ReconcileList, ReconcileSnapshot, ReconcileDeregister, ReconcileRemove,
     ReconcileEnd, Removed, Listed, FoundInv, DeregisteredInv
<1>3. RegistrationsDiscoverable'
  BY <1>1, <1>2 DEF FoundInv, RegistrationsDiscoverable, Found
<1>4. inbox'.started \subseteq inbox.started
  BY DEF Reconcile, ReconcileList, ReconcileSnapshot, ReconcileDeregister, ReconcileRemove,
     ReconcileEnd, Statistics
<1>5. JobEventsInv'
  BY <1>1, <1>2, <1>4, FoundTypes DEF FoundInv, JobEventsInv
<1>6. DeregisteredInv'
  BY <1>1, <1>2, FoundTypes DEF FoundInv, DeregisteredInv, Deregistered
<1>7. \A r \in Runners : res[r] = "none" => res'[r] = "none"
  BY FoundTypes DEF Reconcile, ReconcileList, ReconcileSnapshot, ReconcileDeregister, ReconcileRemove,
     ReconcileEnd, Removed, Listed
<1> QED
  BY <1>1, <1>3, <1>5, <1>6, <1>7, FoundTypes DEF FoundInv

LEMMA FoundProcess ==
  ASSUME Inv, FoundInv, Restart \/ Crash
  PROVE  FoundInv'
<1>1. /\ FreshProcess /\ UNCHANGED <<reg, job>>
      /\ unrecorded' = unrecorded \cup OnlyInMemory
  BY DEF Restart, Crash, FreshProcess, FreshLauncher
<1>2. \A r \in Runners : Listed(r) => Listed(r)'
  BY FoundTypes DEF Restart, Crash, Listed, FoundInv
<1>3. RegistrationsDiscoverable'
  BY <1>1, <1>2 DEF RegistrationsDiscoverable, Found, OnlyInMemory
<1>4. JobEventsInv' /\ DeregisteredInv'
  BY <1>1 DEF FreshProcess, FreshLauncher, NoState, NewState, NoMessage, FoundInv, JobEventsInv,
     DeregisteredInv, Deregistered
<1> QED
  BY <1>1, <1>3, <1>4 DEF FoundInv, FreshProcess, FreshLauncher

LEMMA FoundEnvironment ==
  ASSUME Inv, FoundInv, GitHub \/ Host
  PROVE  FoundInv'
<1> USE DEF progVars, memVars, procVars, launcherVars, loopVars, cleanupVars, sessionVars, brokerVars, budgetVars
<1>1. UNCHANGED <<launch, fresh, cpc, rcur, running, st, unrecorded, pendingRegistrations>>
  BY DEF GitHub, Host
<1>2. /\ \A r \in Runners : reg'[r] = reg[r] \/ reg'[r] = "gone"
      /\ \A r \in Runners : Listed(r) => Listed(r)'
      /\ \A r \in Runners : res[r] = "none" => res'[r] = "none"
  BY FoundTypes DEF GitHub, Host, JobAssigned, SendMessage, LoseMessage, JobStarted, JobCompleted,
     RunnerExit, LateCreate, Listed
<1>3. \A r \in Runners : /\ job[r] # "none" => job'[r] # "none"
                         /\ job'[r] = "done" => job[r] = "done" \/ reg'[r] = "gone"
                         /\ job[r] = "running" => job'[r] = "running" \/ reg'[r] = "gone"
  BY FoundTypes DEF GitHub, Host, JobAssigned, SendMessage, LoseMessage, JobStarted, JobCompleted,
     RunnerExit, LateCreate
<1>4. /\ \A r \in evStarted' : r \in evStarted \/ job'[r] # "none"
      /\ inbox'.started \subseteq evStarted \cup inbox.started
      /\ evStarted' \subseteq Runners
  <2>1. ASSUME NEW q \in Runners, JobStarted(q)
        PROVE  inbox' = inbox /\ evStarted' = evStarted \cup {q} /\ job'[q] # "none"
    BY <2>1, FoundTypes DEF JobStarted
  <2>2. CASE SendMessage
    BY <2>2 DEF SendMessage
  <2>3. CASE LoseMessage
    BY <2>3, FoundTypes DEF LoseMessage, Statistics
  <2>4. CASE UNCHANGED <<evStarted, inbox>>
    BY <2>4, FoundTypes
  <2> QED
    BY <2>1, <2>2, <2>3, <2>4, FoundTypes DEF GitHub, Host, JobAssigned, JobCompleted, RunnerExit,
       LateCreate, envVars
<1>5. RegistrationsDiscoverable'
  BY <1>1, <1>2, <1>3 DEF FoundInv, RegistrationsDiscoverable, Found
<1>6. JobEventsInv'
  <2>1. inbox.started \subseteq Runners
    BY FoundTypes DEF Message
  <2> QED BY <1>1, <1>2, <1>3, <1>4, <2>1, FoundTypes DEF FoundInv, JobEventsInv
<1>7. DeregisteredInv'
  BY <1>1, <1>2, FoundTypes DEF FoundInv, DeregisteredInv, Deregistered
<1> QED
  BY <1>1, <1>2, <1>5, <1>6, <1>7, FoundTypes DEF FoundInv

LEMMA FoundStutter ==
  ASSUME FoundInv, UNCHANGED vars
  PROVE  FoundInv'
  BY DEF vars, memVars, procVars, worldVars, envVars, launcherVars, loopVars, cleanupVars, sessionVars, brokerVars,
     FoundInv, RegistrationsDiscoverable, Found, Listed, JobEventsInv, DeregisteredInv, Deregistered

LEMMA FoundAwaitExit ==
  ASSUME Inv, FoundInv, NEW r \in Runners, AwaitExit(r)
  PROVE  FoundInv'
<1>1. /\ UNCHANGED <<reg, res, job, unrecorded, fresh, cpc, rcur, evStarted, running, pendingRegistrations,
                     st, inbox>>
      /\ launch' = launch \/ launch' = "next"
  BY DEF AwaitExit, AwaitCleanExit, AwaitFailure, Refill, worldVars, loopVars, cleanupVars, sessionVars,
     brokerVars
<1> QED
  BY <1>1 DEF FoundInv, RegistrationsDiscoverable, Found, Listed, JobEventsInv, DeregisteredInv, Deregistered

LEMMA FoundNext == Inv /\ FoundInv /\ [Next]_vars => FoundInv'
  BY FoundListener, FoundLaunchLoop, FoundAwaitExit, FoundFinishRunner, FoundShutdown, FoundReconcile,
     FoundProcess, FoundEnvironment, FoundStutter DEF Next, Ended

LEMMA FoundInvariance == Spec => []FoundInv
<1>1. Init => FoundInv
  BY DEF Init, FoundInv, RegistrationsDiscoverable, JobEventsInv, DeregisteredInv, Deregistered, NoState,
     NewState, NoMessage
<1> QED
  BY <1>1, FoundNext, Invariance, PTL DEF Spec

\* A registration that GitHub still has is known to the launcher, named by a backend record or
\* about to go with its job, or it was lost with an answer or a crash: finishRunner, the launch
\* loop, Shutdown and the reconciler never drop the last trace of one.
THEOREM RegistrationsAreFound == Spec => []RegistrationsDiscoverable
<1>1. FoundInv => RegistrationsDiscoverable
  BY DEF FoundInv
<1> QED
  BY <1>1, FoundInvariance, PTL
-----------------------------------------------------------------------------
(* A shutdown during which nothing fails.                                  *)

\* The names whose registration was not lost with the memory of a crashed process.
Recorded == Runners \ unrecorded

\* A runner whose goroutine waits for it or is about to clean up is tracked, and it runs or
\* has exited by itself with its job.
AwaitedRunner(r) ==
  apc[r] \in {"wait", "finish"} /\ ~st[r].cleanupStarted =>
    r \in running /\ (res[r] = "exit0" \/ (res[r] = "alive" /\ apc[r] = "wait"))

\* As long as no call fails: no error was seen, every handle is complete, a cleanup that left
\* the registration to the job was right to, and a launch under way is registered.
QuietCalls ==
  /\ lpc # "dead" /\ ~lperm /\ ~rerr /\ pendingRegistrations = {} /\ launch # "unregister"
  /\ \A r \in Runners :
       /\ outcome[r] # "named" /\ AwaitedRunner(r)
       /\ res[r] = "exit0" => job[r] # "running"
       /\ st[r].cleanupStarted /\ ~st[r].needsDeregistration => reg[r] = "gone"
       /\ st[r].cleaned => r \notin running
       /\ cpc[r] = "settle" /\ r \in Recorded => res[r] \in {"none", "gone"}
       /\ reg[r] = "none" \/ r \in fresh => job[r] = "none"
       /\ r \in fresh => reg[r] = "live"

\* ... whatever exists is tracked in an open session, and in the hands of the first pass before.
QuietRecords ==
  /\ \A r \in Recorded : res[r] # "pending" /\ (reg[r] = "live" /\ r \notin fresh => Listed(r))
  /\ sess = "up" => \A r \in Recorded \ (running \cup fresh) : res[r] \in {"none", "gone"} /\ reg[r] # "live"
  /\ sess = "starting" /\ rpc # "idle" =>
       \A r \in Recorded : (Listed(r) => r \in rtodo \cup rcur) /\ (reg[r] = "live" => r \in rtodo)

\* ... and Shutdown cleans up every tracked runner before it turns to the registrations.
QuietShutdown ==
  /\ spc # "off" => sess = "up" /\ stopped
  /\ spc = "finish" => running \subseteq stodo
  /\ spc \in {"regs", "done"} => running = {}

Quiet == QuietCalls /\ QuietRecords /\ QuietShutdown
QuietInv == faults <= FaultBudget /\ (faults = FaultBudget => Quiet)

\* Budgets only shrink, so a state without a fault had a predecessor without one.
LEMMA FaultsFall ==
  ASSUME Inv, faults <= FaultBudget, [Next]_vars
  PROVE  /\ faults' <= FaultBudget /\ faults' \in {faults, faults - 1}
         /\ faults' = FaultBudget => faults = FaultBudget /\ ~Fault
<1> USE DEF vars, envVars, budgetVars, Fault, Loss, NoFault
<1>1. faults \in Nat /\ FaultBudget \in Nat
  BY ConstantsAssumption DEF Inv, TypeOK, BudgetsTypeOK
<1>2. ASSUME Listener PROVE faults' \in {faults, faults - 1}
  BY <1>2 DEF Listener, HandleJobStarted, HandleJobCompleted, ApplyStatistics, HandleDesiredRunnerCount,
     Heartbeat, RetryRegistration, RetryCleanupBegin, LaunchLoopBegin
<1>3. ASSUME LaunchLoop PROVE faults' \in {faults, faults - 1}
  BY <1>3 DEF LaunchLoop, NameFailure, GenerateJIT, BackendCreate, BackendStart, RemoveUnused
<1>4. ASSUME Shutdown PROVE faults' \in {faults, faults - 1}
  BY <1>4 DEF Shutdown, ShutdownBegin, ShutdownRegistrations, ShutdownEnd, ShutdownRemove
<1>5. ASSUME Reconcile PROVE faults' \in {faults, faults - 1}
  BY <1>5 DEF Reconcile, ReconcileList, ReconcileSnapshot, ReconcileDeregister, ReconcileRemove, ReconcileEnd
<1>6. ASSUME Restart \/ Crash \/ Ended \/ UNCHANGED vars PROVE faults' \in {faults, faults - 1}
  BY <1>6 DEF Restart, Crash, Ended
<1>7. ASSUME GitHub \/ Host PROVE faults' \in {faults, faults - 1}
  BY <1>7 DEF GitHub, Host, JobAssigned, SendMessage, LoseMessage, JobStarted, JobCompleted, RunnerExit,
     LateCreate
<1>8. ASSUME NEW r \in Runners, AwaitExit(r) \/ FinishRunner(r) PROVE faults' \in {faults, faults - 1}
  BY <1>8 DEF AwaitExit, AwaitCleanExit, AwaitFailure, Refill, FinishRunner, FinishBegin, FinishKill, FinishMark,
     FinishDeregister, FinishRemove, FinishSettle
<1>9. faults' \in {faults, faults - 1}
  BY <1>2, <1>3, <1>4, <1>5, <1>6, <1>7, <1>8 DEF Next
<1> QED
  BY <1>1, <1>9

\* The invariants that the steps below start from.
Calm == Inv /\ FoundInv /\ Quiet
LEMMA CalmTypes ==
  ASSUME Calm
  PROVE  /\ reg \in [Runners -> {"none", "live", "gone"}] /\ res \in [Runners -> Resources]
         /\ job \in [Runners -> {"none", "running", "done"}]
         /\ cpc \in [Runners -> {"free", "kill", "mark", "dereg", "remove", "settle"}]
         /\ apc \in [Runners -> {"none", "wait", "finish", "refill", "launching", "done"}]
         /\ outcome \in [Runners -> {"none", "ok", "code", "err", "partial", "named"}]
         /\ st \in [Runners -> RunnerState] /\ running \subseteq Runners /\ fresh \subseteq Runners
         /\ sess \in {"starting", "up"} /\ rtodo \subseteq Runners /\ rcur \subseteq Runners
         /\ spc \in {"off", "finish", "regs", "done"}
  BY DEF Calm, Inv, TypeOK, LauncherTypeOK, GoroutinesTypeOK, WorldTypeOK

\* A step that leaves the runners, their resources and their goroutines alone and removes no
\* registration of a launch under way.
LEMMA QuietKept ==
  ASSUME Calm, UNCHANGED <<running, fresh, apc, outcome, cpc, sess, rpc, rtodo, rcur, res, job, unrecorded>>,
         \A r \in Runners : /\ reg'[r] \in {reg[r], "gone"} /\ (r \in fresh => reg'[r] = reg[r])
                            /\ st'[r].cleanupStarted = st[r].cleanupStarted
                            /\ st'[r].needsDeregistration = st[r].needsDeregistration
                            /\ st'[r].cleaned = st[r].cleaned,
         lpc' # "dead", ~lperm', ~rerr', pendingRegistrations' = {}, launch' # "unregister"
  PROVE  QuietCalls' /\ QuietRecords'
<1>1. QuietCalls'
  BY CalmTypes DEF Calm, Quiet, QuietCalls, AwaitedRunner, Recorded
<1>2. QuietRecords'
  BY CalmTypes DEF Calm, Quiet, QuietRecords, Recorded, Listed
<1> QED BY <1>1, <1>2

LEMMA QuietListener ==
  ASSUME Calm, Listener, ~Fault
  PROVE  Quiet'
<1> USE DEF memVars, launcherVars, loopVars, listenerVars, waiterVars, cleanupVars, shutdownVars, sessionVars,
            brokerVars, budgetVars
<1>1. UNCHANGED <<apc, outcome, cpc, spc, stodo, sess, rpc, rtodo, rcur, rerr, res, job, unrecorded>>
  BY DEF Listener
<1>2. UNCHANGED <<running, fresh, stopped>>
  BY DEF Listener, HandleJobStarted, HandleJobCompleted, ApplyStatistics,
     HandleDesiredRunnerCount, Heartbeat, RetryRegistration, RetryCleanupBegin, LaunchLoopBegin
<1>3. \A r \in Runners : reg'[r] \in {reg[r], "gone"} /\ (r \in fresh => reg'[r] = reg[r])
  BY CalmTypes DEF Listener, HandleJobStarted, HandleJobCompleted, ApplyStatistics, Calm, Inv, UnusedInv,
     HandleDesiredRunnerCount, Heartbeat, RetryRegistration, RetryCleanupBegin, LaunchLoopBegin
<1>4. \A r \in Runners : /\ st'[r].cleanupStarted = st[r].cleanupStarted
                         /\ st'[r].needsDeregistration = st[r].needsDeregistration
                         /\ st'[r].cleaned = st[r].cleaned
  <2>1. ASSUME NEW q \in Runners, st' = [st EXCEPT ![q] = [st[q] EXCEPT !.busy = TRUE]]
        PROVE  \A r \in Runners : /\ st'[r].cleanupStarted = st[r].cleanupStarted
                                  /\ st'[r].needsDeregistration = st[r].needsDeregistration
                                  /\ st'[r].cleaned = st[r].cleaned
    BY <2>1, CalmTypes DEF RunnerState
  <2>2. CASE st' = [r \in Runners |->
                      IF r \in completions \cap running
                      THEN [st[r] EXCEPT !.completionAccounted = TRUE] ELSE st[r]]
    BY <2>2, CalmTypes DEF RunnerState
  <2>3. ASSUME NEW q \in Runners, HandleJobStarted(q)
        PROVE  st' \in {st, [st EXCEPT ![q] = [st[q] EXCEPT !.busy = TRUE]]}
    BY <2>3 DEF HandleJobStarted
  <2> QED
    BY <2>1, <2>2, <2>3 DEF Listener, HandleJobCompleted, ApplyStatistics,
       HandleDesiredRunnerCount, Heartbeat, RetryRegistration, RetryCleanupBegin, LaunchLoopBegin
<1>5. lpc' # "dead" /\ ~lperm' /\ pendingRegistrations' = {} /\ launch' # "unregister"
  BY DEF Listener, HandleJobStarted, HandleJobCompleted, ApplyStatistics, Calm, Quiet, QuietCalls,
     HandleDesiredRunnerCount, Heartbeat, RetryRegistration, RetryCleanupBegin, LaunchLoopBegin
<1>6. QuietCalls' /\ QuietRecords'
  <2>1. ~rerr'  BY <1>1 DEF Calm, Quiet, QuietCalls
  <2> QED BY <1>1, <1>2, <1>3, <1>4, <1>5, <2>1, QuietKept
<1> QED
  BY <1>1, <1>2, <1>6 DEF Calm, Quiet, QuietShutdown

LEMMA QuietLaunchLoop ==
  ASSUME Calm, LaunchLoop, ~Fault
  PROVE  Quiet'
<1> USE DEF memVars, launcherVars, cleanupVars, shutdownVars, sessionVars, brokerVars, budgetVars
<1>1. /\ UNCHANGED <<cpc, spc, stodo, sess, rpc, rtodo, rcur, rerr, job, stopped, lperm>>
      /\ launch # "none" /\ ~stopped /\ sess = "up" /\ spc = "off" /\ ~rerr /\ ~lperm
  <2>1. launch # "none"
    BY DEF LaunchLoop, NameFailure, GenerateJIT, BackendCreate, BackendStart, RemoveUnused
  <2> QED BY <2>1, CalmTypes DEF LaunchLoop, Calm, Inv, LoopInv, Quiet, QuietShutdown, QuietCalls
<1>2. QuietShutdown'
  BY <1>1 DEF QuietShutdown
<1>3. ASSUME LoopEnd(FALSE), fresh = {},
             UNCHANGED <<running, st, reg, res, outcome, unrecorded, pendingRegistrations>>
      PROVE  QuietCalls' /\ QuietRecords'
  <2>1. /\ launch' = "none" /\ fresh' = {} /\ lpc' # "dead"
        /\ \A r \in Runners : apc'[r] \in {"wait", "finish"} => apc'[r] = apc[r]
    BY <1>3 DEF LoopEnd, Calm, Quiet, QuietCalls
  <2>2. QuietCalls'
    BY <1>1, <1>3, <2>1, CalmTypes DEF Calm, Quiet, QuietCalls, AwaitedRunner, Recorded
  <2>3. QuietRecords'
    BY <1>1, <1>3, <2>1 DEF Calm, Quiet, QuietRecords, Recorded, Listed
  <2> QED BY <2>2, <2>3
<1>4. ASSUME NameFailure PROVE QuietCalls' /\ QuietRecords'
  BY <1>3, <1>4 DEF NameFailure, Calm, Inv, LoopInv
<1>5. ASSUME NEW r \in Runners, GenerateJIT(r) PROVE QuietCalls' /\ QuietRecords'
  <2>1. /\ reg[r] = "none" /\ reg' = [reg EXCEPT ![r] = "live"] /\ launch' = "create" /\ fresh' = {r}
        /\ UNCHANGED <<lpc, apc, unrecorded, running, pendingRegistrations, st, outcome, res>> /\ fresh = {}
    BY <1>5 DEF GenerateJIT, Calm, Inv, LoopInv
  <2>2. ~st[r].cleanupStarted \/ st[r].needsDeregistration
    BY <2>1 DEF Calm, Quiet, QuietCalls
  <2>3. QuietCalls'
    BY <1>1, <2>1, <2>2, CalmTypes DEF Calm, Quiet, QuietCalls, AwaitedRunner, Recorded
  <2>4. QuietRecords'
    BY <1>1, <2>1, CalmTypes DEF Calm, Quiet, QuietRecords, Recorded, Listed
  <2> QED BY <2>3, <2>4
<1>6. ASSUME NEW r \in Runners, BackendCreate(r) PROVE QuietCalls' /\ QuietRecords'
  <2>1. /\ fresh = {r} /\ apc[r] = "none" /\ cpc[r] = "free"
        /\ res' = [res EXCEPT ![r] = "created"] /\ launch' = "start"
        /\ UNCHANGED <<lpc, apc, unrecorded, running, pendingRegistrations, st, outcome, reg, fresh>>
    BY <1>6, FreshFacts DEF BackendCreate, Calm
  <2>2. QuietCalls'
    BY <1>1, <2>1, CalmTypes DEF Calm, Quiet, QuietCalls, AwaitedRunner, Recorded
  <2>3. QuietRecords'
    BY <1>1, <2>1, CalmTypes DEF Calm, Quiet, QuietRecords, Recorded, Listed
  <2> QED BY <2>2, <2>3
<1>7. ASSUME NEW r \in Runners, BackendStart(r) PROVE QuietCalls' /\ QuietRecords'
  <2>1. /\ fresh = {r} /\ cpc[r] = "free" /\ fresh' = {}
        /\ res' = [res EXCEPT ![r] = "alive"] /\ running' = running \cup {r}
        /\ st' = [st EXCEPT ![r] = NewState(FALSE)] /\ LoopNext(r)
        /\ UNCHANGED <<unrecorded, pendingRegistrations, outcome, reg>>
    BY <1>7, FreshFacts DEF BackendStart, Calm, LoopNext
  <2>2. /\ launch' # "unregister" /\ lpc' # "dead" /\ apc'[r] = "wait"
        /\ \A q \in Runners \ {r} : apc'[q] \in {"wait", "finish"} => apc'[q] = apc[q]
    BY <2>1, CalmTypes DEF LoopNext, Calm, Quiet, QuietCalls
  <2>3. ~st'[r].cleanupStarted /\ ~st'[r].cleaned /\ \A q \in Runners \ {r} : st'[q] = st[q]
    BY <2>1, CalmTypes DEF NewState
  <2>4. QuietCalls'
    <3>1. ASSUME NEW q \in Runners \ {r}
          PROVE  /\ outcome'[q] # "named" /\ AwaitedRunner(q)'
                 /\ res'[q] = "exit0" => job'[q] # "running"
                 /\ st'[q].cleanupStarted /\ ~st'[q].needsDeregistration => reg'[q] = "gone"
                 /\ st'[q].cleaned => q \notin running'
                 /\ cpc'[q] = "settle" /\ q \in Recorded' => res'[q] \in {"none", "gone"}
                 /\ reg'[q] = "none" => job'[q] = "none"
      BY <1>1, <2>1, <2>2, <2>3, CalmTypes DEF Calm, Quiet, QuietCalls, AwaitedRunner, Recorded
    <3>2. /\ outcome'[r] # "named" /\ AwaitedRunner(r)' /\ res'[r] = "alive" /\ reg'[r] = "live"
      BY <1>1, <2>1, <2>2, <2>3, CalmTypes DEF Calm, Quiet, QuietCalls, AwaitedRunner
    <3>3. ~lperm' /\ ~rerr' /\ pendingRegistrations' = {}
      BY <1>1, <2>1 DEF Calm, Quiet, QuietCalls
    <3> QED BY <1>1, <2>1, <2>2, <2>3, <3>1, <3>2, <3>3 DEF QuietCalls
  <2>5. QuietRecords'
    BY <1>1, <2>1, CalmTypes DEF Calm, Quiet, QuietRecords, Recorded, Listed
  <2> QED BY <2>4, <2>5
<1>8. ~(\E r \in Runners : RemoveUnused(r))
  BY DEF RemoveUnused, Calm, Quiet, QuietCalls
<1> QED
  BY <1>2, <1>4, <1>5, <1>6, <1>7, <1>8 DEF LaunchLoop, Quiet

LEMMA QuietAwaitExit ==
  ASSUME Calm, NEW r \in Runners, AwaitExit(r), ~Fault
  PROVE  Quiet'
<1> USE DEF worldVars, listenerVars, cleanupVars, shutdownVars, sessionVars, brokerVars, budgetVars, loopVars
<1>1. UNCHANGED <<cpc, spc, stodo, sess, rpc, rtodo, rcur, rerr, job, stopped, lperm, lpc, running, fresh, st, reg, res,
                  unrecorded, pendingRegistrations>>
  BY DEF AwaitExit, AwaitCleanExit, AwaitFailure, Refill
<1>2. /\ launch' # "unregister" /\ outcome'[r] # "named"
      /\ \A q \in Runners \ {r} : apc'[q] = apc[q] /\ outcome'[q] = outcome[q]
      /\ apc'[r] \in {"wait", "finish"} => apc[r] = "wait" /\ res[r] \in {"exit0", "exit1", "gone"}
  BY CalmTypes DEF AwaitExit, AwaitCleanExit, AwaitFailure, Refill, Calm, Quiet, QuietCalls
<1>3. QuietCalls'
  BY <1>1, <1>2, CalmTypes DEF Calm, Quiet, QuietCalls, AwaitedRunner, Recorded
<1>4. QuietRecords' /\ QuietShutdown'
  BY <1>1 DEF Calm, Quiet, QuietRecords, Recorded, Listed, QuietShutdown
<1> QED BY <1>3, <1>4 DEF Quiet

LEMMA QuietFinishRunner ==
  ASSUME Calm, NEW r \in Runners, FinishRunner(r), ~Fault
  PROVE  Quiet'
<1> USE DEF loopVars, sessionVars, brokerVars, cleanupVars, budgetVars
<1>1. UNCHANGED <<launch, fresh, sess, rpc, rtodo, rcur, rerr, pendingRegistrations, stopped, lpc, outcome, spc, job,
                  unrecorded>>
  BY DEF FinishRunner
<1>2. /\ \A q \in Runners \ {r} : UNCHANGED <<reg[q], st[q], cpc[q], res[q], apc[q]>>
      /\ apc'[r] \in {"wait", "finish"} => apc'[r] = apc[r]
      /\ lperm' = lperm
  <2>1. UNCHANGED lperm
    BY DEF FinishRunner, FinishBegin, FinishKill, FinishMark, FinishDeregister, FinishRemove, FinishSettle
  <2>2. apc' = apc \/ apc' \in {[apc EXCEPT ![r] = "refill"], [apc EXCEPT ![r] = "done"]}
    BY DEF FinishRunner, FinishBegin, FinishKill, FinishMark, FinishDeregister, FinishRemove, FinishSettle,
       Return, Release
  <2>3. /\ \E x : reg' = [reg EXCEPT ![r] = x] \/ reg' = reg
        /\ \E x : res' = [res EXCEPT ![r] = x] \/ res' = res
    BY DEF FinishRunner, FinishBegin, FinishKill, FinishMark, FinishDeregister, FinishRemove, FinishSettle,
       Killed, Removed
  <2>4. \A q \in Runners \ {r} : st'[q] = st[q] /\ cpc'[q] = cpc[q]
    BY CalmTypes DEF FinishRunner, FinishBegin, FinishKill, FinishMark, FinishDeregister, FinishRemove,
       FinishSettle, Release
  <2> QED BY <2>1, <2>2, <2>3, <2>4, CalmTypes
<1>3. r \notin fresh
  <2>1. r \in fresh => cpc[r] = "free" /\ apc[r] = "none" /\ r \notin ltodo /\ r \notin stodo
    BY DEF Calm, Inv, UnusedInv
  <2> QED
    BY <2>1 DEF FinishRunner, FinishBegin, FinishKill, FinishMark, FinishDeregister, FinishRemove, FinishSettle,
       Wants
<1> DEFINE One == /\ reg'[r] \in {reg[r], "gone"}
                  /\ AwaitedRunner(r)' /\ (res'[r] = "exit0" => res[r] = "exit0")
                  /\ st'[r].cleanupStarted /\ ~st'[r].needsDeregistration => reg'[r] = "gone"
                  /\ st'[r].cleaned => r \notin running'
                  /\ cpc'[r] = "settle" /\ r \in Recorded => res'[r] \in {"none", "gone"}
                  /\ reg'[r] = "none" => job[r] = "none"
                  /\ r \in Recorded => res'[r] # "pending" /\ (reg'[r] = "live" => Listed(r)')
                  /\ sess = "up" /\ r \in Recorded \ running' => res'[r] \in {"none", "gone"} /\ reg'[r] # "live"
                  /\ Listed(r)' => Listed(r)
                  /\ running' \in {running, running \ {r}}
                  /\ stodo' = stodo \/ (stodo' = stodo \ {r} /\ r \notin running')
<1>3a. /\ AwaitedRunner(r) /\ st[r] \in RunnerState
       /\ st[r].cleanupStarted /\ ~st[r].needsDeregistration => reg[r] = "gone"
       /\ st[r].cleaned => r \notin running
       /\ cpc[r] = "settle" /\ r \in Recorded => res[r] \in {"none", "gone"}
       /\ reg[r] = "none" => job[r] = "none"
       /\ r \in Recorded => res[r] # "pending" /\ (reg[r] = "live" => Listed(r))
       /\ sess = "up" /\ r \in Recorded \ running => res[r] \in {"none", "gone"} /\ reg[r] # "live"
       /\ cpc[r] # "free" => st[r].cleanupStarted
       /\ cpc[r] \in {"remove", "settle"} => reg[r] = "gone"
       /\ res[r] = "exit0" => job[r] # "running"
       /\ st[r].busy => job[r] # "none"
       /\ job[r] = "done" => reg[r] = "gone"
  BY <1>3, CalmTypes DEF Calm, Quiet, QuietCalls, QuietRecords, FoundInv, DeregisteredInv, Deregistered, JobEventsInv
<1>4. ASSUME NEW owner \in Owners, FinishBegin(r, owner) PROVE One
  <2>1. UNCHANGED <<reg, res, running>>
    BY <1>4 DEF FinishBegin
  <2>2. CASE st[r].cleaned
    <3>1. Return(r, owner) /\ st' = st /\ cpc' = cpc
      BY <1>4, <2>2 DEF FinishBegin
    <3> QED BY <1>1, <1>2, <1>3a, <2>1, <2>2, <3>1 DEF Return, Done, AwaitedRunner, Listed
  <2>3. CASE ~st[r].cleaned
    <3> DEFINE n == [st[r] EXCEPT !.cleanupStarted = TRUE,
                                  !.needsDeregistration = Terminates(r, owner) \/ ~st[r].busy]
               s == IF st[r].cleanupStarted THEN st[r] ELSE n
    <3>1. n.cleanupStarted /\ n.cleaned = st[r].cleaned
      BY <1>3a DEF RunnerState
    <3>2. ~st[r].cleanupStarted /\ ~n.needsDeregistration => owner = "await" /\ st[r].busy
      BY <1>3a DEF RunnerState, Terminates
    <3>3. ~st[r].cleanupStarted /\ ~n.needsDeregistration => reg[r] = "gone"
      <4>1. owner = "await" => apc[r] = "finish"
        BY <1>4 DEF FinishBegin, Wants
      <4>2. apc[r] = "finish" /\ ~st[r].cleanupStarted => res[r] = "exit0"
        BY <1>3a DEF AwaitedRunner
      <4> QED BY <1>3a, <3>2, <4>1, <4>2, CalmTypes
    <3>4. s.cleanupStarted /\ s.cleaned = st[r].cleaned /\ (~s.needsDeregistration => reg[r] = "gone")
      BY <1>3a, <3>1, <3>3
    <3>5. st' = [st EXCEPT ![r] = s] /\ UNCHANGED <<apc, stodo>>
          /\ cpc' = [cpc EXCEPT ![r] = IF s.terminated THEN AfterTermination(s)
                                       ELSE IF Terminates(r, owner) THEN "kill" ELSE "mark"]
      BY <1>4, <2>3 DEF FinishBegin
    <3> HIDE DEF s
    <3>6. st'[r] = s /\ cpc'[r] # "settle"
      BY <3>5, CalmTypes DEF AfterTermination
    <3> QED BY <1>1, <1>3a, <2>1, <3>4, <3>5, <3>6 DEF AwaitedRunner, Listed
  <2> QED BY <2>2, <2>3
<1>5. ASSUME FinishKill(r) PROVE One
  <2>1. /\ UNCHANGED <<reg, running, st, stodo, apc>> /\ cpc'[r] = "mark" /\ res' = Killed(r) /\ st[r].cleanupStarted
    BY <1>3a, <1>5, CalmTypes DEF FinishKill
  <2>2. res'[r] = IF res[r] = "alive" THEN "exit1" ELSE res[r]
    BY <2>1, CalmTypes DEF Killed
  <2> QED BY <1>1, <1>3a, <2>1, <2>2 DEF AwaitedRunner, Listed
<1>6. ASSUME FinishMark(r) PROVE One
  <2> DEFINE s == [st[r] EXCEPT !.terminated = TRUE, !.occupiesCapacity = FALSE, !.stopReported = TRUE]
  <2>1. /\ UNCHANGED <<reg, running, res, stodo, apc>> /\ cpc'[r] = AfterTermination(st[r]) /\ cpc[r] = "mark"
        /\ st'[r] = s
    BY <1>6, CalmTypes DEF FinishMark
  <2>2. /\ s.cleaned = st[r].cleaned
        /\ s.cleanupStarted = st[r].cleanupStarted /\ s.needsDeregistration = st[r].needsDeregistration
    BY <1>3a DEF RunnerState
  <2> HIDE DEF s
  <2> QED BY <1>1, <1>3a, <2>1, <2>2 DEF AfterTermination, AwaitedRunner, Listed
<1>7. ASSUME FinishDeregister(r) PROVE One
  <2> DEFINE s == [st[r] EXCEPT !.registrationRemoved = TRUE]
  <2>1. /\ UNCHANGED <<running, res, stodo, apc>> /\ cpc'[r] = "remove" /\ cpc[r] = "dereg"
        /\ reg'[r] = "gone" /\ st'[r] = s
    BY <1>7, CalmTypes DEF FinishDeregister
  <2>2. /\ s.cleaned = st[r].cleaned
        /\ s.cleanupStarted = st[r].cleanupStarted /\ s.needsDeregistration = st[r].needsDeregistration
    BY <1>3a DEF RunnerState
  <2> HIDE DEF s
  <2> QED BY <1>1, <1>3a, <2>1, <2>2 DEF AwaitedRunner, Listed
<1>8. ASSUME FinishRemove(r) PROVE One
  <2>1. /\ UNCHANGED <<reg, running, st, stodo, apc>> /\ cpc'[r] = "settle" /\ res' = Removed(r)
        /\ cpc[r] = "remove" /\ st[r].cleanupStarted
    BY <1>3a, <1>8, CalmTypes DEF FinishRemove
  <2>2. res'[r] = IF Listed(r) THEN "gone" ELSE res[r]
    BY <2>1, CalmTypes DEF Removed
  <2> QED BY <1>1, <1>3a, <2>1, <2>2, CalmTypes DEF AwaitedRunner, Listed, Resources
<1>9. ASSUME FinishSettle(r) PROVE One
  <2> DEFINE s == [st[r] EXCEPT !.cleaned = TRUE]
  <2>1. /\ UNCHANGED <<reg, res>> /\ cpc'[r] = "free" /\ cpc[r] = "settle" /\ st'[r] = s
        /\ running' = running \ {r} /\ stodo' \in {stodo, stodo \ {r}}
    BY <1>9, CalmTypes DEF FinishSettle, Release, Return, Done
  <2>2. s.cleanupStarted = st[r].cleanupStarted /\ s.needsDeregistration = st[r].needsDeregistration
    BY <1>3a DEF RunnerState
  <2> HIDE DEF s
  <2> QED BY <1>1, <1>3a, <2>1, <2>2 DEF AwaitedRunner, Listed
<1>10. One
  BY <1>4, <1>5, <1>6, <1>7, <1>8, <1>9 DEF FinishRunner
<1> HIDE DEF One
<1>11. QuietCalls'
  BY <1>1, <1>2, <1>3, <1>10, CalmTypes DEF Calm, Quiet, QuietCalls, AwaitedRunner, Recorded, One
<1>12. QuietRecords'
  BY <1>1, <1>2, <1>3, <1>10, CalmTypes DEF Calm, Quiet, QuietRecords, Recorded, Listed, One
<1>13. QuietShutdown'
  BY <1>1, <1>10 DEF Calm, Quiet, QuietShutdown, One
<1> QED BY <1>11, <1>12, <1>13 DEF Quiet
LEMMA QuietShutdownStep ==
  ASSUME Calm, Shutdown, ~Fault
  PROVE  Quiet'
<1> USE DEF loopVars, listenerVars, waiterVars, cleanupVars, sessionVars, brokerVars, budgetVars
<1>1. UNCHANGED <<launch, fresh, lpc, lperm, apc, outcome, cpc, sess, rpc, rtodo, rcur, rerr, running, st, res, job,
                  unrecorded>>
  BY DEF Shutdown
<1>2. /\ \A r \in Runners : reg'[r] \in {reg[r], "gone"} /\ (r \in fresh => reg'[r] = reg[r])
      /\ pendingRegistrations' = {}
  BY CalmTypes DEF Shutdown, ShutdownBegin, ShutdownRegistrations, ShutdownEnd, ShutdownRemove, Calm, Inv, UnusedInv,
     Quiet, QuietCalls
<1>3. QuietCalls' /\ QuietRecords'
  <2>1. lpc # "dead" /\ ~lperm /\ ~rerr /\ launch # "unregister"
    BY DEF Calm, Quiet, QuietCalls
  <2> QED BY <1>1, <1>2, <2>1, QuietKept
<1>4. QuietShutdown'
  BY <1>1, CalmTypes DEF Shutdown, ShutdownBegin, ShutdownRegistrations, ShutdownEnd, ShutdownRemove, ToStop, Calm,
     Quiet, QuietCalls, QuietShutdown
<1> QED BY <1>3, <1>4 DEF Quiet

LEMMA QuietReconcile ==
  ASSUME Calm, Reconcile, ~Fault
  PROVE  Quiet'
<1> USE DEF memVars, launcherVars, loopVars, waiterVars, cleanupVars, shutdownVars, brokerVars, budgetVars
<1>1. UNCHANGED <<launch, fresh, lperm, apc, outcome, cpc, spc, stodo, running, stopped, st, job, unrecorded,
                  pendingRegistrations>>
  BY DEF Reconcile
<1>2. /\ ~rerr /\ lpc # "dead" /\ ~lperm /\ pendingRegistrations = {} /\ launch # "unregister"
      /\ (rpc = "scan" => (rtodo \cup rcur) \cap (running \cup fresh) = {})
      /\ (sess = "starting" => running = {} /\ fresh = {})
  <2>1. Identified = running
    BY CalmTypes DEF Calm, Quiet, QuietCalls, Identified
  <2>2. sess = "starting" => running = {} /\ fresh = {}
    BY DEF Calm, Inv, StartInv, LoopInv
  <2> QED BY <2>1, <2>2 DEF Calm, Quiet, QuietCalls, Inv, ReconcileInv, ReconcileSparesTracked
<1>3. CASE ReconcileList
  <2>1. /\ UNCHANGED <<reg, res, sess, rcur, lpc>> /\ ~rerr' /\ rtodo' = {r \in Runners : Listed(r)}
    BY <1>3 DEF ReconcileList
  <2>2. QuietCalls'
    BY <1>1, <1>2, <2>1 DEF Calm, Quiet, QuietCalls, AwaitedRunner, Recorded
  <2>3. QuietRecords' /\ QuietShutdown'
    BY <1>1, <1>2, <2>1, CalmTypes DEF Calm, Quiet, QuietRecords, QuietShutdown, Recorded, Listed
  <2> QED BY <2>2, <2>3 DEF Quiet
<1>4. CASE ReconcileSnapshot
  <2>1. /\ UNCHANGED <<reg, res, sess, rcur, lpc, rerr>> /\ rtodo' = rtodo \ Active /\ rpc = "listed"
    BY <1>4 DEF ReconcileSnapshot
  <2>2. QuietCalls'
    BY <1>1, <1>2, <2>1 DEF Calm, Quiet, QuietCalls, AwaitedRunner, Recorded
  <2>3. QuietRecords' /\ QuietShutdown'
    BY <1>1, <1>2, <2>1 DEF Calm, Quiet, QuietRecords, QuietShutdown, Recorded, Listed, Active, Identified
  <2> QED BY <2>2, <2>3 DEF Quiet
<1>5. CASE ReconcileEnd
  <2>1. /\ UNCHANGED <<reg, res, rcur, lpc, rtodo, rerr>> /\ rpc' = "idle" /\ sess' = "up" /\ rpc = "scan"
        /\ rtodo = {} /\ rcur = {}
    BY <1>2, <1>5 DEF ReconcileEnd, PassOpens
  <2>2. QuietCalls'
    BY <1>1, <1>2, <2>1 DEF Calm, Quiet, QuietCalls, AwaitedRunner, Recorded
  <2>3. QuietShutdown'
    BY <1>1, <2>1 DEF Calm, Quiet, QuietShutdown
  <2>4. ASSUME NEW r \in Recorded, r \notin running \cup fresh
        PROVE  res[r] \in {"none", "gone"} /\ reg[r] # "live"
    <3>1. res[r] \in Resources
      BY <2>4, CalmTypes DEF Recorded
    <3> QED BY <2>1, <2>4, <3>1, CalmTypes DEF Calm, Quiet, QuietRecords, Recorded, Listed, Resources
  <2>5. QuietRecords'
    <3>1. \A r \in Recorded : res[r] # "pending" /\ (reg[r] = "live" /\ r \notin fresh => Listed(r))
      BY DEF Calm, Quiet, QuietRecords
    <3> QED BY <1>1, <2>1, <2>4, <3>1 DEF QuietRecords, Recorded, Listed
  <2> QED BY <2>2, <2>3, <2>5 DEF Quiet
<1>6. ASSUME NEW r \in Runners, ReconcileDeregister(r) PROVE Quiet'
  <2>1. /\ UNCHANGED <<sess, rpc, res, lpc, rerr>> /\ reg' = [reg EXCEPT ![r] = "gone"] /\ rcur' = {r}
        /\ rpc = "scan" /\ rcur = {} /\ r \in rtodo /\ rtodo' = rtodo \ {r}
    BY <1>6 DEF ReconcileDeregister
  <2>2. r \notin fresh /\ reg'[r] = "gone" /\ \A q \in Runners \ {r} : reg'[q] = reg[q]
    BY <1>2, <2>1, CalmTypes
  <2>3. QuietCalls'
    BY <1>1, <1>2, <2>1, <2>2 DEF Calm, Quiet, QuietCalls, AwaitedRunner, Recorded
  <2>4. QuietRecords' /\ QuietShutdown'
    BY <1>1, <2>1, <2>2 DEF Calm, Quiet, QuietRecords, QuietShutdown, Recorded, Listed
  <2> QED BY <2>3, <2>4 DEF Quiet
<1>7. ASSUME NEW r \in Runners, ReconcileRemove(r) PROVE Quiet'
  <2>1. /\ UNCHANGED <<sess, rpc, reg, lpc, rerr, rtodo>> /\ res' = Removed(r) /\ rcur' = rcur \ {r}
        /\ rpc = "scan" /\ r \in rcur
    BY <1>7 DEF ReconcileRemove
  <2>2. /\ r \notin running \cup fresh /\ res'[r] = (IF Listed(r) THEN "gone" ELSE res[r])
        /\ reg[r] = "gone" /\ \A q \in Runners \ {r} : res'[q] = res[q]
    BY <1>2, <2>1, CalmTypes DEF Removed, Calm, FoundInv, DeregisteredInv
  <2>3. QuietCalls'
    BY <1>1, <1>2, <2>1, <2>2 DEF Calm, Quiet, QuietCalls, AwaitedRunner, Recorded, Listed
  <2>4. QuietRecords' /\ QuietShutdown'
    BY <1>1, <2>1, <2>2 DEF Calm, Quiet, QuietRecords, QuietShutdown, Recorded, Listed
  <2> QED BY <2>3, <2>4 DEF Quiet
<1> QED
  BY <1>3, <1>4, <1>5, <1>6, <1>7 DEF Reconcile

LEMMA QuietProcess ==
  ASSUME Calm, Restart \/ Crash
  PROVE  Quiet'
<1>1. /\ FreshProcess /\ UNCHANGED <<reg, job>> /\ unrecorded' = unrecorded \cup OnlyInMemory
      /\ running' = {} /\ fresh' = {} /\ sess' = "starting" /\ rpc' = "idle" /\ spc' = "off"
      /\ lpc' = "idle" /\ ~lperm' /\ ~rerr' /\ pendingRegistrations' = {} /\ launch' = "none"
  BY DEF Restart, Crash, FreshProcess, FreshLauncher
<1>2. \A r \in Runners : ~st'[r].cleanupStarted /\ ~st'[r].cleaned /\ apc'[r] = "none" /\ outcome'[r] = "none"
                         /\ cpc'[r] = "free"
  BY <1>1 DEF FreshProcess, NoState, NewState
<1>3. \A r \in Runners : \/ res'[r] = res[r] \/ (r \in fresh /\ res'[r] = "alive")
                         \/ r \in fresh /\ res[r] = "none" /\ res'[r] = "pending"
  BY CalmTypes DEF Restart, Crash, Calm, FoundInv
<1>4. QuietCalls'
  BY <1>1, <1>2, <1>3 DEF Calm, Quiet, QuietCalls, AwaitedRunner, Recorded
<1>5. ASSUME NEW r \in Runners, r \notin unrecorded'
      PROVE  res'[r] # "pending" /\ (reg'[r] = "live" => Listed(r)')
  <2>1. /\ res[r] # "pending" /\ (reg[r] = "live" /\ r \notin fresh => Listed(r))
        /\ (r \in fresh => reg[r] = "live" /\ job[r] = "none")
    BY <1>1, <1>5 DEF Calm, Quiet, QuietRecords, QuietCalls, Recorded
  <2>2. reg[r] = "live" => Listed(r) \/ job[r] = "running"
    BY <1>1, <1>5 DEF OnlyInMemory
  <2>3. reg[r] = "live" => Listed(r)
    BY <2>1, <2>2
  <2> QED BY <1>1, <1>3, <2>1, <2>3 DEF Listed
<1>6. QuietRecords' /\ QuietShutdown'
  BY <1>1, <1>5 DEF QuietRecords, QuietShutdown, Recorded
<1> QED BY <1>4, <1>6 DEF Quiet

LEMMA QuietEnvironment ==
  ASSUME Calm, GitHub \/ Host, ~Fault
  PROVE  Quiet'
<1> USE DEF progVars, memVars, procVars, launcherVars, loopVars, listenerVars, waiterVars, cleanupVars, shutdownVars,
            sessionVars, brokerVars, budgetVars, envVars
<1>1. UNCHANGED <<launch, fresh, lpc, lperm, apc, outcome, cpc, spc, stodo, sess, rpc, rtodo, rcur, rerr, running,
                  stopped, st, unrecorded, pendingRegistrations>>
  BY DEF GitHub, Host
<1>2. QuietShutdown'
  BY <1>1 DEF Calm, Quiet, QuietShutdown
<1>3. ASSUME UNCHANGED <<reg, res, job>> PROVE Quiet'
  <2>1. QuietCalls'
    BY <1>1, <1>3 DEF Calm, Quiet, QuietCalls, AwaitedRunner, Recorded
  <2>2. QuietRecords'
    BY <1>1, <1>3 DEF Calm, Quiet, QuietRecords, Recorded, Listed
  <2> QED BY <1>2, <2>1, <2>2 DEF Quiet
<1>4. ASSUME NEW r \in Runners, JobStarted(r) PROVE Quiet'
  <2>1. UNCHANGED <<reg, res>> /\ job' = [job EXCEPT ![r] = "running"] /\ reg[r] = "live" /\ res[r] = "alive"
    BY <1>4 DEF JobStarted
  <2>2. r \notin fresh
    BY <2>1, CalmTypes DEF Calm, Inv, SlotInv, Alive, Occupying, UnusedInv, LoopInv
  <2>3. QuietCalls'
    BY <1>1, <2>1, <2>2, CalmTypes DEF Calm, Quiet, QuietCalls, AwaitedRunner, Recorded
  <2>4. QuietRecords'
    BY <1>1, <2>1 DEF Calm, Quiet, QuietRecords, Recorded, Listed
  <2> QED BY <1>2, <2>3, <2>4 DEF Quiet
<1>5. ASSUME NEW r \in Runners, JobCompleted(r) PROVE Quiet'
  <2>1. /\ UNCHANGED res /\ job' = [job EXCEPT ![r] = "done"] /\ reg' = [reg EXCEPT ![r] = "gone"]
        /\ job[r] = "running"
    BY <1>5 DEF JobCompleted
  <2>2. r \notin fresh /\ reg[r] # "none"
    BY <2>1 DEF Calm, Quiet, QuietCalls
  <2>3. QuietCalls'
    BY <1>1, <2>1, <2>2, CalmTypes DEF Calm, Quiet, QuietCalls, AwaitedRunner, Recorded
  <2>4. QuietRecords'
    BY <1>1, <2>1, CalmTypes DEF Calm, Quiet, QuietRecords, Recorded, Listed
  <2> QED BY <1>2, <2>3, <2>4 DEF Quiet
<1>6. ASSUME NEW r \in Runners, RunnerExit(r) PROVE Quiet'
  <2>1. /\ UNCHANGED <<reg, job>> /\ res' = [res EXCEPT ![r] = "exit0"] /\ res[r] = "alive" /\ job[r] # "running"
    BY <1>6 DEF RunnerExit
  <2>2. QuietCalls'
    BY <1>1, <2>1, CalmTypes DEF Calm, Quiet, QuietCalls, AwaitedRunner, Recorded
  <2>3. QuietRecords'
    BY <1>1, <2>1, CalmTypes DEF Calm, Quiet, QuietRecords, Recorded, Listed
  <2> QED BY <1>2, <2>2, <2>3 DEF Quiet
<1>7. ASSUME NEW r \in Runners, LateCreate(r) PROVE Quiet'
  <2>1. UNCHANGED <<reg, job>> /\ res' = [res EXCEPT ![r] = "created"] /\ res[r] = "pending"
    BY <1>7 DEF LateCreate
  <2>2. r \notin Recorded
    BY <2>1 DEF Calm, Quiet, QuietRecords
  <2>3. QuietCalls'
    BY <1>1, <2>1, <2>2, CalmTypes DEF Calm, Quiet, QuietCalls, AwaitedRunner, Recorded
  <2>4. QuietRecords'
    BY <1>1, <2>1, <2>2, CalmTypes DEF Calm, Quiet, QuietRecords, Recorded, Listed
  <2> QED BY <1>2, <2>3, <2>4 DEF Quiet
<1> QED
  BY <1>3, <1>4, <1>5, <1>6, <1>7 DEF GitHub, Host, JobAssigned, SendMessage, LoseMessage

LEMMA QuietStutter ==
  ASSUME Quiet, UNCHANGED vars
  PROVE  Quiet'
  BY DEF vars, memVars, procVars, worldVars, envVars, launcherVars, loopVars, listenerVars, waiterVars, cleanupVars,
     shutdownVars, sessionVars, Quiet, QuietCalls, QuietRecords, QuietShutdown, AwaitedRunner, Recorded, Listed

LEMMA QuietNext == Inv /\ FoundInv /\ QuietInv /\ [Next]_vars => QuietInv'
<1> SUFFICES ASSUME Inv, FoundInv, QuietInv, [Next]_vars PROVE QuietInv'
  OBVIOUS
<1>1. /\ faults' <= FaultBudget /\ FaultBudget' = FaultBudget
      /\ faults' = FaultBudget => faults = FaultBudget /\ ~Fault
  BY FaultsFall DEF QuietInv
<1>2. ASSUME faults = FaultBudget, ~Fault PROVE Quiet'
  <2>1. Calm
    BY <1>2 DEF Calm, QuietInv
  <2> QED
    BY <1>2, <2>1, QuietListener, QuietLaunchLoop, QuietAwaitExit, QuietFinishRunner, QuietShutdownStep, QuietReconcile,
       QuietProcess, QuietEnvironment, QuietStutter DEF Next, Ended, Calm
<1> QED BY <1>1, <1>2 DEF QuietInv

LEMMA QuietInvariance == Spec => []QuietInv
<1>1. Init => QuietInv
  <2> SUFFICES ASSUME Init PROVE QuietInv
    OBVIOUS
  <2>1. \A r \in Runners : ~st[r].cleanupStarted /\ ~st[r].cleaned
    BY DEF Init, NoState, NewState
  <2> QED
    BY <2>1, ConstantsAssumption DEF Init, QuietInv, Quiet, QuietCalls, QuietRecords, QuietShutdown, AwaitedRunner,
       Recorded
<1> QED
  BY <1>1, FoundInvariance, QuietNext, Invariance, PTL DEF Spec

\* A Shutdown during which no external call failed leaves no resource and no registration of
\* this process or an earlier one behind, whatever exits, refills, retries and reconcile passes
\* it overlapped, except for launches that a crash interrupted.
THEOREM ShutdownIsComplete == Spec => []ShutdownLeavesNothing
<1>1. Inv /\ QuietInv => ShutdownLeavesNothing
  <2> SUFFICES ASSUME Inv, QuietInv, spc = "done", faults = FaultBudget,
                      NEW r \in Runners \ unrecorded
               PROVE  res[r] \in {"none", "gone"} /\ reg[r] # "live"
    BY DEF ShutdownLeavesNothing
  <2>1. running = {} /\ sess = "up" /\ stopped
    BY DEF QuietInv, Quiet, QuietShutdown
  <2>2. fresh = {}
    BY <2>1 DEF Inv, LoopInv
  <2> QED BY <2>1, <2>2 DEF QuietInv, Quiet, QuietRecords, Recorded
<1> QED
  BY <1>1, QuietInvariance, Invariance, PTL

-----------------------------------------------------------------------------
(* A session that nothing disturbs starts no runner for a job that is over. *)

\* The runners whose finished job may still be in the count the launcher acts on: their exit
\* is held back, or has not been seen and their completion is not accounted.
Awaiting == {r \in Runners : apc[r] = "wait" /\ job[r] = "done" /\ ~st[r].completionAccounted}
Late == pendingExits \cup Awaiting

\* The completions that the next statistics account for.
Reported == completions \cup inbox.completed

\* Without faults and ends a runner is alive only while its goroutine waits for it, with its
\* slot and before any cleanup; nothing is stopped.
SteadyRunner(r) ==
  /\ res[r] = "alive" => apc[r] = "wait"
  /\ apc[r] = "wait" => /\ r \in running /\ st[r].occupiesCapacity
                        /\ cpc[r] = "free" /\ ~st[r].cleanupStarted
  /\ job[r] = "running" => res[r] = "alive"
  /\ st[r].completionAccounted => job[r] = "done"
  /\ r \in pendingExits => apc[r] \notin {"none", "wait"}
  /\ r \in Reported \cup evCompleted => job[r] = "done"
Steady ==
  /\ ~stopped /\ spc = "off"
  /\ lpc = "cleanup" => \A r \in ltodo : st[r].cleanupStarted
  /\ ~inbox.full => Reported = {}
  /\ \A r \in Runners : SteadyRunner(r)

\* The count in use exceeds the jobs GitHub holds only by exits and completions that are
\* late, so the launches left fit the jobs; a count of zero means that nothing is unspent.
InUse ==
  /\ desired >= 0 /\ desired <= assigned + Cardinality(Late)
  /\ Cardinality(Unspent) + left <= assigned
  /\ desired = 0 => Unspent = {} /\ left = 0

\* The same of the count in a message under way, once its completions are accounted.
UnderWay ==
  inbox.full =>
    /\ inbox.count >= 0 /\ desired <= inbox.count + Cardinality(Late)
    /\ inbox.count <= assigned + Cardinality(Late \ Reported)
    /\ inbox.count = 0 => Unspent = {} /\ left = 0
    /\ desired = 0 => inbox.count <= assigned

DemandInv ==
  /\ ends <= EndBudget
  /\ faults = FaultBudget /\ ends = EndBudget => Steady /\ InUse /\ UnderWay

\* The invariants that the steps below start from.
Undisturbed == Calm /\ Steady /\ InUse /\ UnderWay

LEMMA EndsFall ==
  ASSUME Inv, ends <= EndBudget, [Next]_vars
  PROVE  ends' <= EndBudget /\ (ends' = EndBudget => ends = EndBudget /\ ends' = ends)
<1> USE DEF vars, envVars, budgetVars, Fault, Loss, NoFault
<1>1. ends \in Nat /\ EndBudget \in Nat
  BY ConstantsAssumption DEF Inv, TypeOK, BudgetsTypeOK
<1>2. ASSUME Listener PROVE ends' \in {ends, ends - 1}
  BY <1>2 DEF Listener, HandleJobStarted, HandleJobCompleted, ApplyStatistics, HandleDesiredRunnerCount,
     Heartbeat, RetryRegistration, RetryCleanupBegin, LaunchLoopBegin
<1>3. ASSUME LaunchLoop PROVE ends' \in {ends, ends - 1}
  BY <1>3 DEF LaunchLoop, NameFailure, GenerateJIT, BackendCreate, BackendStart, RemoveUnused
<1>4. ASSUME Shutdown PROVE ends' \in {ends, ends - 1}
  BY <1>4 DEF Shutdown, ShutdownBegin, ShutdownRegistrations, ShutdownEnd, ShutdownRemove
<1>5. ASSUME Reconcile PROVE ends' \in {ends, ends - 1}
  BY <1>5 DEF Reconcile, ReconcileList, ReconcileSnapshot, ReconcileDeregister, ReconcileRemove, ReconcileEnd
<1>6. ASSUME Restart \/ Crash \/ Ended \/ UNCHANGED vars PROVE ends' \in {ends, ends - 1}
  BY <1>6 DEF Restart, Crash, Ended
<1>7. ASSUME GitHub \/ Host PROVE ends' \in {ends, ends - 1}
  BY <1>7 DEF GitHub, Host, JobAssigned, SendMessage, LoseMessage, JobStarted, JobCompleted, RunnerExit,
     LateCreate
<1>8. ASSUME NEW r \in Runners, AwaitExit(r) \/ FinishRunner(r) PROVE ends' \in {ends, ends - 1}
  BY <1>8 DEF AwaitExit, AwaitCleanExit, AwaitFailure, Refill, FinishRunner, FinishBegin, FinishKill, FinishMark,
     FinishDeregister, FinishRemove, FinishSettle
<1>9. ends' \in {ends, ends - 1}
  BY <1>2, <1>3, <1>4, <1>5, <1>6, <1>7, <1>8 DEF Next
<1> QED
  BY <1>1, <1>9

LEMMA DemandTypes ==
  ASSUME Inv
  PROVE  /\ job \in [Runners -> {"none", "running", "done"}] /\ res \in [Runners -> Resources]
         /\ apc \in [Runners -> {"none", "wait", "finish", "refill", "launching", "done"}]
         /\ cpc \in [Runners -> {"free", "kill", "mark", "dereg", "remove", "settle"}]
         /\ st \in [Runners -> RunnerState] /\ running \subseteq Runners /\ fresh \subseteq Runners
         /\ pendingExits \subseteq Runners /\ completions \subseteq Runners /\ ltodo \subseteq Runners
         /\ evCompleted \subseteq Runners /\ inbox \in Message
         /\ desired \in Int /\ assigned \in Int /\ left \in Nat /\ inbox.count \in Int /\ inbox.full \in BOOLEAN
         /\ inbox.completed \subseteq Runners
  BY DEF Inv, TypeOK, LauncherTypeOK, GoroutinesTypeOK, WorldTypeOK, Message

LEMMA DemandSets ==
  Inv => /\ Late \subseteq Runners /\ Unspent \subseteq Runners /\ Occupying \subseteq Runners
         /\ Cardinality(Late) \in Nat /\ Cardinality(Unspent) \in Nat
         /\ Cardinality(Late \ Reported) \in Nat
<1> HAVE Inv
<1>1. Late \subseteq Runners /\ Unspent \subseteq Runners /\ Occupying \subseteq Runners
  BY DemandTypes DEF Late, Awaiting, Unspent, Occupying
<1>2. Late \ Reported \in SUBSET Late
  OBVIOUS
<1> QED BY <1>1, <1>2, SubsetBound

\* Steps that move no count, and after which at least the same exits and completions are late
\* and at most the same runners unspent.
LEMMA DemandKept ==
  ASSUME Undisturbed, Inv', Late \subseteq Late', Late \ Reported \subseteq Late' \ Reported',
         Unspent' \subseteq Unspent, left' \in {0, left}, UNCHANGED <<desired, assigned>>,
         inbox'.full = inbox.full, inbox'.count = inbox.count
  PROVE  InUse' /\ UnderWay'
<1>1. (/\ Late \subseteq Runners /\ Unspent \subseteq Runners /\ Occupying \subseteq Runners
       /\ Cardinality(Late) \in Nat /\ Cardinality(Unspent) \in Nat
       /\ Cardinality(Late \ Reported) \in Nat)'
  BY DemandSets, PTL
<1>2. /\ Unspent \subseteq Runners /\ Cardinality(Late) \in Nat /\ Cardinality(Unspent) \in Nat
      /\ Cardinality(Late \ Reported) \in Nat
      /\ desired \in Int /\ assigned \in Int /\ left \in Nat /\ inbox.count \in Int
  BY DemandSets, DemandTypes DEF Undisturbed, Calm
<1>3. /\ Cardinality(Late) <= Cardinality(Late') /\ Cardinality(Unspent') <= Cardinality(Unspent)
      /\ Cardinality(Late \ Reported) <= Cardinality(Late' \ Reported')
  <2>1. Late' \ Reported' \in SUBSET Runners
    BY <1>1
  <2> QED BY <1>1, <1>2, <2>1, SubsetBound
<1>4. InUse'
  BY <1>1, <1>2, <1>3 DEF Undisturbed, InUse
<1>5. UnderWay'
  BY <1>1, <1>2, <1>3 DEF Undisturbed, UnderWay
<1> QED BY <1>4, <1>5
\* A step leaves the goroutine that waits for the runner alone, its slot and its process too,
\* gives nothing a slot and accounts for no completion.
LeavesRunner(q) ==
  /\ apc'[q] = "wait" <=> apc[q] = "wait"
  /\ apc'[q] = "none" => apc[q] = "none"
  /\ (q \in running') => q \in running
  /\ st'[q].occupiesCapacity => st[q].occupiesCapacity
  /\ st'[q].completionAccounted = st[q].completionAccounted
  /\ apc[q] = "wait" => /\ (q \in running) => q \in running'
                        /\ st'[q].occupiesCapacity = st[q].occupiesCapacity
                        /\ st'[q].cleanupStarted = st[q].cleanupStarted /\ cpc'[q] = cpc[q]
  /\ res'[q] = "alive" => res[q] = "alive"
  /\ job[q] = "running" => res'[q] = res[q]

\* Steps that leave every runner alone in this sense, whatever they do to a message.
LEMMA SteadyKept ==
  ASSUME Undisturbed, \A q \in Runners : LeavesRunner(q), UNCHANGED <<job, pendingExits, stopped, spc>>,
         running' \subseteq Runners,
         Reported' \cup evCompleted' \subseteq Reported \cup evCompleted, ~inbox'.full => Reported' = {},
         lpc' = "cleanup" => \A q \in ltodo' : st'[q].cleanupStarted
  PROVE  Steady' /\ Late' = Late /\ Unspent' \subseteq Unspent
<1>1. Late' = Late /\ Unspent' \subseteq Unspent
  BY DemandTypes DEF Undisturbed, Calm, Late, Awaiting, Unspent, Occupying, LeavesRunner
<1>2. \A q \in Runners : SteadyRunner(q)'
  BY DEF Undisturbed, Steady, SteadyRunner, LeavesRunner
<1> QED BY <1>1, <1>2 DEF Undisturbed, Steady

\* allowedLocked answers no more than the jobs without a runner, whatever is late.
LEMMA DemandAllowed ==
  ASSUME Undisturbed
  PROVE  /\ Allowed(desired) \in Nat
         /\ Allowed(desired) > 0 =>
              /\ Cardinality(Unspent) + Allowed(desired) <= assigned
              /\ desired > 0 /\ desired > Cardinality(Late)
<1>1. /\ Late \subseteq Runners /\ Unspent \subseteq Runners /\ Occupying \subseteq Runners
      /\ pendingExits \subseteq Runners /\ desired \in Int /\ assigned \in Int
  BY DemandSets, DemandTypes DEF Undisturbed, Calm
<1>2. PICK spent : spent = {q \in Occupying : job[q] = "done"}
  OBVIOUS
<1>3. /\ IsFiniteSet(Unspent) /\ IsFiniteSet(spent) /\ IsFiniteSet(pendingExits)
      /\ Unspent \cap spent = {} /\ Occupying = Unspent \cup spent
  BY <1>1, <1>2, ConstantsAssumption, FS_Subset DEF Unspent
<1>4. /\ Cardinality(Occupying) = Cardinality(Unspent) + Cardinality(spent)
      /\ Cardinality(Unspent) \in Nat /\ Cardinality(spent) \in Nat /\ Cardinality(pendingExits) \in Nat
  <2>1. Cardinality(Unspent \cap spent) = 0
    BY <1>3, FS_EmptySet
  <2>2. /\ Cardinality(Unspent \cup spent) = Cardinality(Unspent) + Cardinality(spent) - Cardinality(Unspent \cap spent)
        /\ Cardinality(Unspent) \in Nat /\ Cardinality(spent) \in Nat /\ Cardinality(pendingExits) \in Nat
    BY <1>3, FS_Union, FS_CardinalityType
  <2> QED BY <1>3, <2>1, <2>2
<1>5. Cardinality(Late) <= Cardinality(pendingExits) + Cardinality(spent) /\ Cardinality(Late) \in Nat
  <2>1. Late \subseteq pendingExits \cup spent
    BY <1>2 DEF Undisturbed, Steady, SteadyRunner, Late, Awaiting, Occupying
  <2>2. IsFiniteSet(pendingExits \cup spent) /\ IsFiniteSet(pendingExits \cap spent)
    BY <1>3, FS_Union, FS_Intersection
  <2>3. /\ Cardinality(pendingExits \cup spent) =
             Cardinality(pendingExits) + Cardinality(spent) - Cardinality(pendingExits \cap spent)
        /\ Cardinality(pendingExits \cap spent) \in Nat
    BY <1>3, <2>2, FS_Union, FS_CardinalityType
  <2>4. Cardinality(Late) <= Cardinality(pendingExits \cup spent)
    BY <2>1, <2>2, FS_Subset
  <2>5. Cardinality(Late) \in Nat
    BY DemandSets DEF Undisturbed, Calm
  <2> QED BY <1>4, <2>3, <2>4, <2>5
<1>6. /\ Allowed(desired) \in Nat
      /\ Allowed(desired) > 0 => Allowed(desired) <= desired - Cardinality(pendingExits) - Cardinality(Occupying)
  <2>1. Cardinality(Occupying) \in Nat /\ MaxRunners \in Nat
    BY <1>4, ConstantsAssumption
  <2> QED BY <1>1, <1>4, <2>1 DEF Allowed, Capped, Smaller
<1>7. desired <= assigned + Cardinality(Late)
  BY DEF Undisturbed, InUse
<1> QED BY <1>1, <1>4, <1>5, <1>6, <1>7

\* A launch loop of as many launches as allowedLocked answered.
LEMMA DemandLoop ==
  ASSUME Undisturbed, Inv', left' = Allowed(desired), Allowed(desired) > 0, Late' = Late,
         Unspent' \subseteq Unspent, UNCHANGED <<desired, assigned, inbox, completions>>
  PROVE  InUse' /\ UnderWay'
<1>1. /\ desired \in Int /\ assigned \in Int /\ inbox.count \in Int
      /\ Cardinality(Late) \in Nat /\ Cardinality(Unspent) \in Nat
  BY DemandTypes, DemandSets DEF Undisturbed, Calm
<1>2. /\ Cardinality(Unspent) + Allowed(desired) <= assigned /\ Allowed(desired) \in Nat
      /\ desired > 0 /\ desired > Cardinality(Late)
      /\ Cardinality(Unspent') \in Nat /\ Cardinality(Unspent') <= Cardinality(Unspent)
  BY DemandAllowed, DemandSets, SubsetBound DEF Undisturbed, Calm
<1>3. InUse'
  BY <1>1, <1>2 DEF Undisturbed, InUse
<1>4. UnderWay'
  BY <1>1, <1>2 DEF Undisturbed, UnderWay, Reported
<1> QED BY <1>3, <1>4
\* Statistics that account for the completions handled before them.
LEMMA DemandApply ==
  ASSUME Undisturbed, Inv', NEW count \in Int, ApplyStatistics(count), ~inbox'.full, inbox'.completed = {},
         inbox.completed = {}, UNCHANGED <<apc, cpc, job, res, assigned, evCompleted, spc>>,
         (count = desired /\ ~inbox.full) \/ (count = inbox.count /\ inbox.full)
  PROVE  Steady' /\ InUse' /\ UnderWay'
<1> USE DEF launcherVars, loopVars
<1>1. /\ ~stopped /\ launch = "none" /\ left = 0
      /\ st' = [r \in Runners |-> IF r \in completions \cap running
                                  THEN [st[r] EXCEPT !.completionAccounted = TRUE] ELSE st[r]]
      /\ pendingExits' = IF count = 0 THEN {} ELSE pendingExits \ completions
      /\ completions' = {} /\ desired' = count /\ lpc' = "regs" /\ left' = left /\ UNCHANGED <<running, stopped>>
  BY DEF Undisturbed, Calm, Inv, LoopInv, Steady, ApplyStatistics, MuFree
<1>2. \A q \in Runners :
        /\ st'[q].occupiesCapacity = st[q].occupiesCapacity /\ st'[q].cleanupStarted = st[q].cleanupStarted
        /\ st'[q].completionAccounted = (st[q].completionAccounted \/ q \in completions \cap running)
  <2> TAKE q \in Runners
  <2>1. st[q] \in RunnerState
    BY DemandTypes DEF Undisturbed, Calm
  <2>2. CASE q \in completions \cap running
    BY <1>1, <2>1, <2>2 DEF RunnerState
  <2>3. CASE q \notin completions \cap running
    BY <1>1, <2>1, <2>3 DEF RunnerState
  <2> QED BY <2>2, <2>3
<1>3. Unspent' = Unspent
  BY <1>1, <1>2, DemandTypes DEF Undisturbed, Calm, Unspent, Occupying
<1>4. count # 0 => Late' = Late \ completions
  BY <1>1, <1>2, DemandTypes DEF Undisturbed, Calm, Late, Awaiting, Steady, SteadyRunner
<1>5. Steady'
  <2>1. \A q \in Runners : SteadyRunner(q)'
    BY <1>1, <1>2 DEF Undisturbed, Steady, SteadyRunner, Reported
  <2> QED BY <1>1, <2>1 DEF Undisturbed, Steady, Reported
<1>6. /\ Cardinality(Unspent) \in Nat /\ assigned \in Int /\ Cardinality(Unspent) <= assigned
      /\ Cardinality(Late) \in Nat
  BY <1>1, DemandSets, DemandTypes DEF Undisturbed, Calm, InUse
<1>7. (Cardinality(Late) \in Nat)'
  BY DemandSets, PTL
<1>8. InUse'
  <2>1. CASE inbox.full
    <3>1. /\ count >= 0 /\ (count = 0 => Unspent = {})
          /\ count <= assigned + Cardinality(Late \ completions)
      <4>1. Reported = completions
        BY DEF Reported
      <4> QED BY <2>1, <4>1 DEF Undisturbed, UnderWay
    <3>2. count <= assigned + Cardinality(Late')
      BY <1>4, <1>6, <1>7, <3>1
    <3> QED BY <1>1, <1>3, <1>6, <3>1, <3>2 DEF InUse
  <2>2. CASE ~inbox.full
    <3>1. count = desired /\ completions = {}
      BY <2>2 DEF Undisturbed, Steady, Reported
    <3>2. count # 0 => Late' = Late
      BY <1>4, <3>1
    <3> QED BY <1>1, <1>3, <1>6, <1>7, <3>1, <3>2 DEF Undisturbed, InUse
  <2> QED BY <2>1, <2>2
<1> QED BY <1>5, <1>8 DEF UnderWay

LEMMA DemandListener ==
  ASSUME Undisturbed, Inv', Listener, ~Fault
  PROVE  Steady' /\ InUse' /\ UnderWay'
<1> USE DEF memVars, launcherVars, loopVars, listenerVars, waiterVars, cleanupVars, shutdownVars, brokerVars
<1>1. UNCHANGED <<apc, cpc, job, res, spc, assigned, evCompleted>>
  BY DEF Listener
<1>2. inbox \in Message /\ st \in [Runners -> RunnerState] /\ lpc # "dead" /\ ~lperm /\ ~stopped /\ spc = "off"
  BY DemandTypes DEF Undisturbed, Calm, Quiet, QuietCalls, Steady
<1>3. ASSUME \A q \in Runners : LeavesRunner(q), UNCHANGED <<running, pendingExits, stopped, desired, left>>,
             inbox'.full = inbox.full, inbox'.count = inbox.count, Reported' \subseteq Reported,
             Late \cap Reported' = Late \cap Reported,
             lpc' = "cleanup" => \A q \in ltodo' : st'[q].cleanupStarted
      PROVE  Steady' /\ InUse' /\ UnderWay'
  <2>1. Steady' /\ Late' = Late /\ Unspent' \subseteq Unspent
    <3>1. ~inbox'.full => Reported' = {}
      BY <1>3 DEF Undisturbed, Steady
    <3>2. running' \subseteq Runners
      BY <1>3, DemandTypes DEF Undisturbed, Calm
    <3>3. Reported' \cup evCompleted' \subseteq Reported \cup evCompleted
      BY <1>1, <1>3
    <3> QED BY <1>1, <1>3, <3>1, <3>2, <3>3, SteadyKept
  <2>2. Late \ Reported \subseteq Late' \ Reported'
    BY <1>3, <2>1
  <2> QED BY <1>1, <1>3, <2>1, <2>2, DemandKept
<1>4. ASSUME NEW r \in Runners, HandleJobStarted(r) PROVE Steady' /\ InUse' /\ UnderWay'
  <2>1. \A q \in Runners : LeavesRunner(q)
    <3>1. UNCHANGED running /\ st' \in {st, [st EXCEPT ![r] = [st[r] EXCEPT !.busy = TRUE]]}
      BY <1>4 DEF HandleJobStarted
    <3> QED BY <1>1, <1>2, <3>1 DEF LeavesRunner, RunnerState
  <2>2. inbox'.full = inbox.full /\ inbox'.count = inbox.count /\ inbox'.completed = inbox.completed
    BY <1>2, <1>4 DEF HandleJobStarted, Message
  <2>3. UNCHANGED <<running, pendingExits, stopped, desired, left, completions, lpc>> /\ lpc = "idle"
    BY <1>4 DEF HandleJobStarted, ListenerReady
  <2> QED BY <1>3, <2>1, <2>2, <2>3 DEF Reported
<1>5. ASSUME NEW r \in Runners, HandleJobCompleted(r) PROVE Steady' /\ InUse' /\ UnderWay'
  <2>1. /\ inbox'.full = inbox.full /\ inbox'.count = inbox.count /\ inbox'.completed = inbox.completed \ {r}
        /\ r \in inbox.completed
    BY <1>2, <1>5 DEF HandleJobCompleted, Message
  <2>2. /\ UNCHANGED <<running, pendingExits, stopped, desired, left, st, lpc>> /\ lpc = "idle"
        /\ completions' = IF r \in running \cup pendingExits THEN completions \cup {r} ELSE completions
    BY <1>5 DEF HandleJobCompleted, ListenerReady
  <2>3. r \notin running \cup pendingExits => r \notin Late
    BY DEF Late, Awaiting, Undisturbed, Steady, SteadyRunner
  <2>4. Reported' \subseteq Reported /\ Late \cap Reported' = Late \cap Reported
    BY <2>1, <2>2, <2>3 DEF Reported
  <2> QED BY <1>1, <1>3, <2>1, <2>2, <2>4 DEF LeavesRunner
<1>6. ASSUME HandleDesiredRunnerCount PROVE Steady' /\ InUse' /\ UnderWay'
  <2>1. inbox' = NoMessage /\ inbox.full /\ inbox.completed = {} /\ ApplyStatistics(inbox.count)
    BY <1>6 DEF HandleDesiredRunnerCount
  <2>2. inbox.count \in Int /\ ~inbox'.full /\ inbox'.completed = {}
    BY <1>2, <2>1 DEF NoMessage, Message
  <2> QED BY <1>1, <2>1, <2>2, DemandApply
<1>7. ASSUME Heartbeat PROVE Steady' /\ InUse' /\ UnderWay'
  <2>1. inbox' = inbox /\ ~inbox.full /\ ApplyStatistics(desired) /\ inbox.completed = {} /\ desired \in Int
    BY <1>7, DemandTypes DEF Heartbeat, Undisturbed, Calm, Steady, Reported
  <2>2. ~inbox'.full /\ inbox'.completed = {}
    BY <2>1
  <2>3. PICK count : count = desired
    OBVIOUS
  <2>4. count \in Int /\ ApplyStatistics(count)
    BY <2>1, <2>3
  <2> QED BY <1>1, <2>1, <2>2, <2>3, <2>4, DemandApply
<1>8. ASSUME NEW r \in Runners, RetryRegistration(r) PROVE Steady' /\ InUse' /\ UnderWay'
  <2>1. UNCHANGED <<running, pendingExits, completions, desired, stopped, st, lpc, inbox, left>> /\ lpc = "regs"
    BY <1>8 DEF RetryRegistration
  <2> QED BY <1>1, <1>3, <2>1 DEF Reported, LeavesRunner
<1>9. ASSUME RetryCleanupBegin PROVE Steady' /\ InUse' /\ UnderWay'
  <2>1. /\ UNCHANGED <<running, pendingExits, completions, desired, stopped, st, inbox, left>>
        /\ lpc' = "cleanup" => ltodo' = PendingCleanup
    BY <1>2, <1>9 DEF RetryCleanupBegin
  <2> QED BY <1>1, <1>3, <2>1 DEF Reported, LeavesRunner, PendingCleanup
<1>10. ASSUME LaunchLoopBegin PROVE Steady' /\ InUse' /\ UnderWay'
  <2>1. /\ UNCHANGED <<running, pendingExits, completions, desired, stopped, st, inbox>> /\ lpc' # "cleanup"
        /\ left' = left \/ (left' = Allowed(desired) /\ Allowed(desired) # 0)
    BY <1>2, <1>10 DEF LaunchLoopBegin
  <2>2. CASE left' = left
    BY <1>1, <1>3, <2>1, <2>2 DEF Reported, LeavesRunner
  <2>3. CASE left' = Allowed(desired) /\ Allowed(desired) # 0
    <3>1. Steady' /\ Late' = Late /\ Unspent' \subseteq Unspent
      <4>1. ~inbox'.full => Reported' = {}
        BY <2>1 DEF Undisturbed, Steady, Reported
      <4>2. running' \subseteq Runners /\ \A q \in Runners : LeavesRunner(q)
        BY <1>1, <2>1, DemandTypes DEF Undisturbed, Calm, LeavesRunner
      <4> QED BY <1>1, <2>1, <4>1, <4>2, SteadyKept DEF Reported
    <3>2. Allowed(desired) > 0
      BY <2>3, DemandAllowed
    <3> QED BY <1>1, <2>1, <2>3, <3>1, <3>2, DemandLoop
  <2> QED BY <2>1, <2>2, <2>3
<1> QED
  BY <1>4, <1>5, <1>6, <1>7, <1>8, <1>9, <1>10 DEF Listener
LEMMA DemandLaunchLoop ==
  ASSUME Undisturbed, Inv', LaunchLoop, ~Fault
  PROVE  Steady' /\ InUse' /\ UnderWay'
<1> USE DEF cleanupVars, shutdownVars, brokerVars
<1>1. /\ UNCHANGED <<cpc, spc, stopped, pendingExits, completions, desired, ltodo, job, inbox, assigned, evCompleted>>
      /\ Reported' = Reported /\ ~stopped /\ spc = "off"
  BY DEF LaunchLoop, Reported, Undisturbed, Steady
<1>2. /\ Inv /\ FoundInv /\ Quiet /\ Steady /\ InUse /\ UnderWay /\ launch # "unregister"
      /\ lpc = "cleanup" => \A q \in ltodo : st[q].cleanupStarted
      /\ ~inbox'.full => Reported' = {}
  BY <1>1 DEF Undisturbed, Calm, Quiet, QuietCalls, Steady
<1>3. ASSUME left' \in {0, left}, UNCHANGED <<running, st>>, lpc' = "cleanup" => lpc = "cleanup",
             \A q \in Runners : /\ apc'[q] = "wait" <=> apc[q] = "wait"
                                /\ apc'[q] = "none" => apc[q] = "none"
                                /\ res'[q] = "alive" => res[q] = "alive"
                                /\ job[q] = "running" => res'[q] = res[q]
      PROVE  Steady' /\ InUse' /\ UnderWay'
  <2>1. running' \subseteq Runners /\ \A q \in Runners : LeavesRunner(q)
    BY <1>1, <1>2, <1>3, DemandTypes DEF LeavesRunner
  <2>2. Steady' /\ Late' = Late /\ Unspent' \subseteq Unspent
    BY <1>1, <1>2, <1>3, <2>1, SteadyKept
  <2> QED BY <1>1, <1>3, <2>2, DemandKept
<1>4. ASSUME NameFailure PROVE Steady' /\ InUse' /\ UnderWay'
  <2>1. left' = 0 /\ UNCHANGED <<running, st, res>> /\ lpc' \in {lpc, "idle"}
        /\ apc' = [q \in Runners |-> IF apc[q] = "launching" THEN "done" ELSE apc[q]]
    BY <1>4 DEF NameFailure, LoopEnd
  <2> QED BY <1>3, <2>1
<1>5. ASSUME NEW r \in Runners, GenerateJIT(r) PROVE Steady' /\ InUse' /\ UnderWay'
  <2>1. UNCHANGED <<left, lpc, apc, running, st, res>>
    BY <1>5 DEF GenerateJIT
  <2> QED BY <1>3, <2>1
<1>6. ASSUME NEW r \in Runners, BackendCreate(r) PROVE Steady' /\ InUse' /\ UnderWay'
  <2>1. /\ UNCHANGED <<left, lpc, apc, running, st>> /\ res' = [res EXCEPT ![r] = "created"]
        /\ job[r] = "none"
    BY <1>2, <1>6 DEF BackendCreate, Quiet, QuietCalls
  <2> QED BY <1>2, <1>3, <2>1, DemandTypes
<1>7. ASSUME NEW r \in Runners, BackendStart(r) PROVE Steady' /\ InUse' /\ UnderWay'
  <2>1. /\ fresh = {r} /\ apc[r] = "none" /\ cpc[r] = "free" /\ job[r] = "none" /\ r \notin running \cup ltodo
        /\ res' = [res EXCEPT ![r] = "alive"] /\ running' = running \cup {r} /\ left >= 1
        /\ st' = [st EXCEPT ![r] = NewState(FALSE)] /\ LoopNext(r)
    BY <1>2, <1>7, FreshFacts DEF BackendStart, Inv, LoopInv, UnusedInv, Quiet, QuietCalls
  <2>2. /\ left' = left - 1 /\ apc'[r] = "wait" /\ lpc' \in {lpc, "idle"}
        /\ \A q \in Runners \ {r} : /\ apc'[q] = "wait" <=> apc[q] = "wait"
                                    /\ apc'[q] = "none" => apc[q] = "none"
    BY <1>2, <2>1, DemandTypes DEF LoopNext
  <2>3. /\ ~st'[r].cleanupStarted /\ ~st'[r].completionAccounted /\ st'[r].occupiesCapacity
        /\ \A q \in Runners \ {r} : st'[q] = st[q]
    BY <1>2, <2>1, DemandTypes DEF NewState
  <2>4. r \notin pendingExits /\ r \notin Reported \cup evCompleted
    BY <1>2, <2>1 DEF Steady, SteadyRunner
  <2>5. Late' = Late
    BY <1>1, <2>1, <2>2, <2>3, <2>4 DEF Late, Awaiting
  <2>6. Unspent' = Unspent \cup {r} /\ r \notin Unspent
    BY <1>1, <1>2, <2>1, <2>3, DemandTypes DEF Unspent, Occupying
  <2>7. Cardinality(Unspent') <= Cardinality(Unspent) + 1
    BY <1>2, <2>6, DemandSets, AddBound
  <2>8. Steady'
    <3>1. \A q \in Runners \ {r} : SteadyRunner(q)'
      BY <1>1, <1>2, <2>1, <2>2, <2>3, DemandTypes DEF Steady, SteadyRunner
    <3>2. SteadyRunner(r)'
      BY <1>1, <1>2, <2>1, <2>2, <2>3, <2>4, DemandTypes DEF SteadyRunner
    <3>3. ASSUME lpc' = "cleanup", NEW q \in ltodo' PROVE st'[q].cleanupStarted
      <4>1. lpc = "cleanup" /\ q \in ltodo /\ q \in Runners \ {r}
        BY <1>1, <1>2, <2>1, <2>2, <3>3, DemandTypes
      <4>2. st'[q] = st[q]
        BY <2>3, <4>1
      <4> QED BY <1>2, <4>1, <4>2
    <3> QED BY <1>1, <1>2, <3>1, <3>2, <3>3 DEF Steady
  <2>9. /\ Cardinality(Unspent) \in Nat /\ Cardinality(Late) \in Nat /\ left \in Nat /\ desired \in Int
        /\ assigned \in Int /\ inbox.count \in Int
    BY <1>2, DemandSets, DemandTypes
  <2>10. (Cardinality(Unspent) \in Nat)'
    BY DemandSets, PTL
  <2>11. InUse'
    BY <1>1, <1>2, <2>1, <2>2, <2>5, <2>7, <2>9, <2>10 DEF InUse
  <2>12. UnderWay'
    BY <1>1, <1>2, <2>1, <2>2, <2>5, <2>9 DEF UnderWay
  <2> QED BY <2>8, <2>11, <2>12
<1>8. ~(\E r \in Runners : RemoveUnused(r))
  BY <1>2 DEF RemoveUnused
<1> QED
  BY <1>4, <1>5, <1>6, <1>7, <1>8 DEF LaunchLoop

LEMMA DemandAwaitExit ==
  ASSUME Undisturbed, Inv', NEW r \in Runners, AwaitExit(r), ~Fault
  PROVE  Steady' /\ InUse' /\ UnderWay'
<1> USE DEF worldVars, listenerVars, cleanupVars, shutdownVars, brokerVars, loopVars
<1>1. /\ UNCHANGED <<cpc, spc, stopped, running, st, res, completions, desired, lpc, ltodo, job, inbox, assigned,
                    evCompleted>>
      /\ Reported' = Reported /\ ~stopped
  BY DEF AwaitExit, Reported, Undisturbed, Steady
<1>2. /\ Inv /\ Quiet /\ Steady /\ InUse /\ UnderWay
      /\ lpc' = "cleanup" => \A q \in ltodo' : st'[q].cleanupStarted
      /\ ~inbox'.full => Reported' = {}
  BY <1>1 DEF Undisturbed, Calm, Steady
<1>3. ASSUME AwaitCleanExit(r) PROVE Steady' /\ InUse' /\ UnderWay'
  <2>1. /\ apc[r] = "wait" /\ apc' = [apc EXCEPT ![r] = "finish"] /\ left' = left
        /\ pendingExits' = IF HeldBack(r) THEN pendingExits \cup {r} ELSE pendingExits
        /\ res[r] = "exit0"
    BY <1>3 DEF AwaitCleanExit
  <2>2. Steady'
    <3>1. \A q \in Runners : SteadyRunner(q)'
      BY <1>1, <1>2, <2>1, DemandTypes DEF Steady, SteadyRunner
    <3> QED BY <1>1, <1>2, <3>1 DEF Steady
  <2>3. Unspent' = Unspent
    BY <1>1 DEF Unspent, Occupying
  <2>4. CASE HeldBack(r) \/ st[r].completionAccounted
    <3>1. Late \subseteq Late'
      BY <1>1, <1>2, <2>1, <2>4, DemandTypes DEF Late, Awaiting, Steady, SteadyRunner
    <3>2. InUse' /\ UnderWay'
      BY <1>1, <2>1, <2>3, <3>1, DemandKept
    <3> QED BY <2>2, <3>2
  <2>5. CASE ~(HeldBack(r) \/ st[r].completionAccounted)
    <3>1. desired = 0 /\ desired' = 0
      BY <1>1, <1>2, <2>5, DemandTypes DEF HeldBack, InUse
    <3>2. (Cardinality(Late) \in Nat /\ Cardinality(Late \ Reported) \in Nat)'
      BY DemandSets, PTL
    <3>3. Cardinality(Unspent) \in Nat /\ left \in Nat /\ assigned \in Int /\ inbox.count \in Int
      BY <1>2, DemandSets, DemandTypes
    <3>4. InUse'
      BY <1>1, <1>2, <2>1, <2>3, <3>1, <3>2, <3>3 DEF InUse
    <3>5. UnderWay'
      BY <1>1, <1>2, <2>1, <2>3, <3>1, <3>2, <3>3 DEF UnderWay
    <3> QED BY <2>2, <3>4, <3>5
  <2> QED BY <2>4, <2>5
<1>4. ~AwaitFailure(r)
  BY <1>2 DEF AwaitFailure, Steady, SteadyRunner, Quiet, QuietCalls, AwaitedRunner
<1>5. ASSUME Refill(r) PROVE Steady' /\ InUse' /\ UnderWay'
  <2>1. /\ UNCHANGED pendingExits
        /\ \A q \in Runners : /\ apc'[q] = "wait" <=> apc[q] = "wait"
                              /\ apc'[q] = "none" => apc[q] = "none"
        /\ left' = left \/ (left' = Allowed(desired) /\ Allowed(desired) # 0)
    BY <1>2, <1>5, DemandTypes DEF Refill
  <2>2. Steady' /\ Late' = Late /\ Unspent' \subseteq Unspent
    <3>1. running' \subseteq Runners /\ \A q \in Runners : LeavesRunner(q)
      BY <1>1, <1>2, <2>1, DemandTypes DEF LeavesRunner
    <3> QED BY <1>1, <1>2, <2>1, <3>1, SteadyKept
  <2>3. CASE left' = left
    BY <1>1, <2>2, <2>3, DemandKept
  <2>4. CASE left' = Allowed(desired) /\ Allowed(desired) # 0
    <3>1. Allowed(desired) > 0
      BY <2>4, DemandAllowed
    <3> QED BY <1>1, <2>2, <2>4, <3>1, DemandLoop
  <2> QED BY <2>1, <2>3, <2>4
<1> QED BY <1>3, <1>4, <1>5 DEF AwaitExit
LEMMA DemandFinishRunner ==
  ASSUME Undisturbed, Inv', NEW r \in Runners, FinishRunner(r), ~Fault
  PROVE  Steady' /\ InUse' /\ UnderWay'
<1> USE DEF loopVars, brokerVars, cleanupVars
<1>1. /\ UNCHANGED <<left, assigned, evCompleted, pendingExits, completions, desired, stopped, lpc, spc, job, inbox>>
      /\ Reported' = Reported /\ ~stopped /\ spc = "off"
  BY DEF FinishRunner, Reported, Undisturbed, Steady
<1>2. /\ Inv /\ Quiet /\ Steady
      /\ lpc = "cleanup" => \A q \in ltodo : st[q].cleanupStarted
      /\ ~inbox'.full => Reported' = {}
  BY <1>1 DEF Undisturbed, Calm, Steady
<1>3. apc[r] # "wait" /\ res[r] # "alive" /\ job[r] # "running"
  <2>1. ASSUME NEW owner \in Owners, FinishBegin(r, owner) PROVE apc[r] # "wait"
    BY <1>1, <1>2, <2>1 DEF FinishBegin, Wants, Steady, SteadyRunner
  <2>2. CASE cpc[r] # "free"
    BY <1>2, <2>2 DEF Steady, SteadyRunner
  <2>3. apc[r] # "wait"
    BY <2>1, <2>2 DEF FinishRunner, FinishKill, FinishMark, FinishDeregister, FinishRemove, FinishSettle
  <2> QED BY <1>2, <2>3 DEF Steady, SteadyRunner
<1>4. /\ apc' = apc \/ apc' \in {[apc EXCEPT ![r] = "refill"], [apc EXCEPT ![r] = "done"]}
      /\ ltodo' \subseteq ltodo
      /\ \E x : res' = [res EXCEPT ![r] = x] \/ res' = res
  BY DEF FinishRunner, FinishBegin, FinishKill, FinishMark, FinishDeregister, FinishRemove, FinishSettle,
     Return, Release, KillError, Killed, Removed
<1>5. res'[r] # "alive" /\ \A q \in Runners \ {r} : res'[q] = res[q]
  <2>1. res' \in {res, Killed(r), Removed(r)}
    BY DEF FinishRunner, FinishBegin, FinishKill, FinishMark, FinishDeregister, FinishRemove, FinishSettle
  <2> QED BY <1>2, <1>3, <2>1, DemandTypes DEF Killed, Removed
<1>6. running' \subseteq running /\ \A q \in Runners \ {r} : (q \in running) => q \in running'
  BY DEF FinishRunner, FinishBegin, FinishKill, FinishMark, FinishDeregister, FinishRemove, FinishSettle
<1>7. \A q \in Runners \ {r} : cpc'[q] = cpc[q]
  <2>1. \E x : cpc' = [cpc EXCEPT ![r] = x] \/ cpc' = cpc
    BY DEF FinishRunner, FinishBegin, FinishKill, FinishMark, FinishDeregister, FinishRemove, FinishSettle,
       Release, KillError
  <2> QED BY <1>2, <2>1, DemandTypes
<1>8. /\ \A q \in Runners \ {r} : st'[q] = st[q]
      /\ st'[r].occupiesCapacity => st[r].occupiesCapacity
      /\ st'[r].completionAccounted = st[r].completionAccounted
      /\ st[r].cleanupStarted => st'[r].cleanupStarted
  <2>0. st \in [Runners -> RunnerState] /\ st[r] \in RunnerState
    BY <1>2, DemandTypes
  <2>1. ASSUME NEW owner \in Owners, FinishBegin(r, owner)
        PROVE  st' \in {st, [st EXCEPT ![r] = st[r]],
                        [st EXCEPT ![r] = [st[r] EXCEPT !.cleanupStarted = TRUE,
                                   !.needsDeregistration = Terminates(r, owner) \/ ~st[r].busy]]}
    BY <2>1 DEF FinishBegin
  <2>2. ASSUME NEW owner \in Owners,
               st' = [st EXCEPT ![r] = [st[r] EXCEPT !.cleanupStarted = TRUE,
                                 !.needsDeregistration = Terminates(r, owner) \/ ~st[r].busy]]
        PROVE  /\ \A q \in Runners \ {r} : st'[q] = st[q]
               /\ st'[r].occupiesCapacity => st[r].occupiesCapacity
               /\ st'[r].completionAccounted = st[r].completionAccounted
               /\ st[r].cleanupStarted => st'[r].cleanupStarted
    BY <2>0, <2>2 DEF RunnerState
  <2>3. CASE st' = [st EXCEPT ![r].terminated = TRUE, ![r].occupiesCapacity = FALSE, ![r].stopReported = TRUE]
    BY <2>0, <2>3 DEF RunnerState
  <2>4. CASE st' = [st EXCEPT ![r].registrationRemoved = TRUE]
    BY <2>0, <2>4 DEF RunnerState
  <2>5. CASE st' = [st EXCEPT ![r].cleaned = TRUE]
    BY <2>0, <2>5 DEF RunnerState
  <2>6. CASE st' = st \/ st' = [st EXCEPT ![r] = st[r]]
    BY <2>0, <2>6
  <2> QED
    BY <2>1, <2>2, <2>3, <2>4, <2>5, <2>6
       DEF FinishRunner, FinishKill, FinishMark, FinishDeregister, FinishRemove, FinishSettle
<1>9. running' \subseteq Runners /\ \A q \in Runners : LeavesRunner(q)
  <2>1. running' \subseteq Runners
    BY <1>2, <1>6, DemandTypes
  <2>2. LeavesRunner(r)
    BY <1>2, <1>3, <1>4, <1>5, <1>6, <1>8, DemandTypes DEF LeavesRunner
  <2>3. \A q \in Runners \ {r} : LeavesRunner(q)
    BY <1>2, <1>4, <1>5, <1>6, <1>7, <1>8, DemandTypes DEF LeavesRunner
  <2> QED BY <2>1, <2>2, <2>3
<1>10. ASSUME lpc' = "cleanup", NEW q \in ltodo' PROVE st'[q].cleanupStarted
  <2>1. lpc = "cleanup" /\ q \in ltodo /\ q \in Runners
    BY <1>1, <1>2, <1>4, <1>10, DemandTypes
  <2>2. st[q].cleanupStarted
    BY <1>2, <2>1
  <2>3. CASE q = r BY <1>8, <2>2, <2>3
  <2>4. CASE q # r
    <3>1. st'[q] = st[q] BY <1>8, <2>1, <2>4
    <3> QED BY <2>2, <3>1
  <2> QED BY <2>3, <2>4
<1>11. Steady' /\ Late' = Late /\ Unspent' \subseteq Unspent
  BY <1>1, <1>2, <1>9, <1>10, SteadyKept
<1> QED BY <1>1, <1>11, DemandKept

\* A message that samples the number of jobs is in order at the moment it does.
LEMMA DemandSample ==
  ASSUME Undisturbed, Inv', Late' = Late, Unspent' = Unspent, UNCHANGED <<desired, left, assigned>>,
         inbox'.count = assigned
  PROVE  InUse' /\ UnderWay'
<1>1. /\ desired \in Int /\ assigned \in Int /\ left \in Nat
      /\ Cardinality(Late) \in Nat /\ Cardinality(Unspent) \in Nat /\ Unspent \subseteq Runners
  BY DemandTypes, DemandSets DEF Undisturbed, Calm
<1>2. (Cardinality(Late \ Reported) \in Nat)'
  BY DemandSets, PTL
<1>3. InUse'
  BY DEF Undisturbed, InUse
<1>4. /\ assigned >= 0 /\ desired <= assigned + Cardinality(Late)
      /\ assigned = 0 => Cardinality(Unspent) = 0 /\ left = 0
  BY <1>1 DEF Undisturbed, InUse
<1>5. Cardinality(Unspent) = 0 => Unspent = {}
  <2>1. IsFiniteSet(Unspent)
    BY <1>1, ConstantsAssumption, FS_Subset
  <2> QED BY <2>1, FS_EmptySet
<1>6. UnderWay'
  BY <1>1, <1>2, <1>4, <1>5 DEF UnderWay
<1> QED BY <1>3, <1>6

LEMMA DemandReconcile ==
  ASSUME Undisturbed, Inv', Reconcile, ~Fault
  PROVE  Steady' /\ InUse' /\ UnderWay'
<1> USE DEF memVars, launcherVars, loopVars, waiterVars, cleanupVars, shutdownVars, brokerVars
<1>1. /\ UNCHANGED <<running, st, pendingExits, completions, desired, stopped, left, apc, cpc, spc, assigned, evCompleted,
                     job, ltodo>>
      /\ Inv /\ Quiet /\ Steady /\ ~stopped /\ spc = "off"
  BY DEF Reconcile, Undisturbed, Calm, Steady
<1>2. lpc' = lpc
  BY <1>1 DEF Reconcile, ReconcileList, ReconcileSnapshot, ReconcileEnd, ReconcileDeregister, ReconcileRemove,
     PassOpens, Quiet, QuietCalls
<1>3. \A q \in Runners : LeavesRunner(q)
  <2>1. \A q \in Runners : res'[q] = res[q] \/ (res'[q] # "alive" /\ q \notin running)
    <3>1. ASSUME NEW r \in Runners, ReconcileRemove(r)
          PROVE  \A q \in Runners : res'[q] = res[q] \/ (res'[q] # "alive" /\ q \notin running)
      <4>1. res' = Removed(r) /\ rpc = "scan" /\ r \in rcur
        BY <3>1 DEF ReconcileRemove
      <4>2. r \notin running
        BY <1>1, <4>1 DEF Inv, ReconcileInv, ReconcileSparesTracked, Identified, Quiet, QuietCalls
      <4> QED BY <1>1, <4>1, <4>2, DemandTypes DEF Removed, Listed
    <3> QED BY <3>1 DEF Reconcile, ReconcileList, ReconcileSnapshot, ReconcileEnd, ReconcileDeregister
  <2>2. \A q \in Runners : job[q] = "running" => q \in running
    BY <1>1 DEF Steady, SteadyRunner
  <2> QED BY <1>1, <2>1, <2>2 DEF LeavesRunner
<1>4. inbox' = inbox \/ inbox' = Statistics
  BY DEF Reconcile, ReconcileList, ReconcileSnapshot, ReconcileEnd, ReconcileDeregister, ReconcileRemove
<1>5. Unspent' = Unspent
  BY <1>1 DEF Unspent, Occupying
<1>6. CASE inbox' = inbox
  <2>1. Reported' = Reported /\ (~inbox'.full => Reported' = {})
    BY <1>1, <1>6 DEF Reported, Steady
  <2>2. Steady' /\ Late' = Late
    BY <1>1, <1>2, <1>3, <2>1, SteadyKept, DemandTypes DEF Steady
  <2> QED BY <1>1, <1>5, <1>6, <2>1, <2>2, DemandKept
<1>7. CASE inbox' = Statistics
  <2>1. inbox'.full /\ inbox'.completed = {} /\ inbox'.count = assigned
    BY <1>7 DEF Statistics
  <2>2. Reported' \subseteq Reported
    BY <1>1, <2>1 DEF Reported
  <2>3. Steady' /\ Late' = Late
    BY <1>1, <1>2, <1>3, <2>1, <2>2, SteadyKept, DemandTypes DEF Steady
  <2> QED BY <1>1, <1>5, <2>1, <2>3, DemandSample
<1> QED BY <1>4, <1>6, <1>7
LEMMA DemandEnvironment ==
  ASSUME Undisturbed, Inv', GitHub \/ Host, ~Fault
  PROVE  Steady' /\ InUse' /\ UnderWay'
<1> USE DEF progVars, memVars, procVars, launcherVars, loopVars, listenerVars, waiterVars, cleanupVars, shutdownVars,
            sessionVars, brokerVars, envVars
<1>1. /\ UNCHANGED <<running, st, pendingExits, completions, desired, stopped, left, apc, cpc, spc, lpc, ltodo>>
      /\ Inv /\ Quiet /\ Steady /\ InUse /\ UnderWay /\ ~stopped /\ spc = "off"
      /\ lpc' = "cleanup" => \A q \in ltodo' : st'[q].cleanupStarted
  BY DEF GitHub, Host, Undisturbed, Calm, Steady
<1>2. /\ desired \in Int /\ assigned \in Int /\ left \in Nat /\ inbox.count \in Int
      /\ Cardinality(Late) \in Nat /\ Cardinality(Unspent) \in Nat /\ Cardinality(Late \ Reported) \in Nat
      /\ running' \subseteq Runners
  BY <1>1, DemandTypes, DemandSets
<1>3. ASSUME UNCHANGED <<job, assigned>>, \A q \in Runners : LeavesRunner(q),
             UNCHANGED <<inbox, evCompleted>> \/ (inbox'.full /\ inbox'.count = assigned),
             Reported' \cup evCompleted' \subseteq Reported \cup evCompleted
      PROVE  Steady' /\ InUse' /\ UnderWay'
  <2>1. ~inbox'.full => Reported' = {}
    BY <1>1, <1>3 DEF Steady, Reported
  <2>2. Steady' /\ Late' = Late /\ Unspent' = Unspent
    <3>1. Unspent' = Unspent
      BY <1>1, <1>3 DEF Unspent, Occupying
    <3> QED BY <1>1, <1>2, <1>3, <2>1, <3>1, SteadyKept
  <2>3. CASE UNCHANGED <<inbox, evCompleted>>
    <3>1. Reported' = Reported
      BY <1>1, <2>3 DEF Reported
    <3> QED BY <1>1, <1>3, <2>2, <2>3, <3>1, DemandKept
  <2>4. CASE inbox'.full /\ inbox'.count = assigned
    BY <1>1, <1>3, <2>2, <2>4, DemandSample
  <2> QED BY <1>3, <2>3, <2>4
<1>4. ASSUME JobAssigned PROVE Steady' /\ InUse' /\ UnderWay'
  <2>1. UNCHANGED <<res, job, evCompleted, inbox>> /\ assigned' = assigned + 1
    BY <1>4 DEF JobAssigned
  <2>2. Reported' = Reported /\ Late' = Late /\ Unspent' = Unspent
    BY <1>1, <2>1 DEF Reported, Late, Awaiting, Unspent, Occupying
  <2>3. Steady'
    BY <1>1, <2>1, <2>2 DEF Steady, SteadyRunner
  <2>4. InUse' /\ UnderWay'
    BY <1>1, <1>2, <2>1, <2>2 DEF InUse, UnderWay
  <2> QED BY <2>3, <2>4
<1>5. ASSUME SendMessage PROVE Steady' /\ InUse' /\ UnderWay'
  <2>1. /\ ~inbox.full /\ UNCHANGED <<res, job, assigned>> /\ evCompleted' = {}
        /\ inbox'.full /\ inbox'.completed = evCompleted /\ inbox'.count = assigned
    BY <1>5 DEF SendMessage
  <2>2. Reported' = evCompleted
    BY <1>1, <2>1 DEF Reported, Steady
  <2> QED BY <1>1, <1>3, <2>1, <2>2 DEF LeavesRunner
<1>6. ASSUME LoseMessage PROVE Steady' /\ InUse' /\ UnderWay'
  <2>1. UNCHANGED <<res, job, assigned, evCompleted>> /\ inbox' = Statistics
    BY <1>6 DEF LoseMessage
  <2>2. inbox'.full /\ inbox'.completed = {} /\ inbox'.count = assigned
    BY <2>1 DEF Statistics
  <2>3. Reported' \subseteq Reported
    BY <1>1, <2>2 DEF Reported
  <2> QED BY <1>1, <1>3, <2>1, <2>2, <2>3 DEF LeavesRunner
<1>7. ASSUME NEW r \in Runners, JobStarted(r) PROVE Steady' /\ InUse' /\ UnderWay'
  <2>1. /\ UNCHANGED <<res, assigned, evCompleted, inbox>> /\ job' = [job EXCEPT ![r] = "running"]
        /\ job[r] = "none" /\ res[r] = "alive"
    BY <1>7 DEF JobStarted
  <2>2. Reported' = Reported /\ Late' = Late /\ Unspent' = Unspent
    BY <1>1, <2>1, DemandTypes DEF Reported, Late, Awaiting, Unspent, Occupying
  <2>3. \A q \in Runners : SteadyRunner(q)'
    BY <1>1, <2>1, <2>2, DemandTypes DEF Steady, SteadyRunner
  <2>4. Steady'
    BY <1>1, <2>1, <2>2, <2>3 DEF Steady
  <2> QED BY <1>1, <2>1, <2>2, <2>4, DemandKept
<1>8. ASSUME NEW r \in Runners, JobCompleted(r) PROVE Steady' /\ InUse' /\ UnderWay'
  <2>1. /\ UNCHANGED <<res, inbox>> /\ job' = [job EXCEPT ![r] = "done"] /\ job[r] = "running"
        /\ assigned' = assigned - 1 /\ evCompleted' = evCompleted \cup {r}
    BY <1>8 DEF JobCompleted
  <2>2. /\ r \in Unspent /\ apc[r] = "wait" /\ r \notin Reported /\ r \notin pendingExits
        /\ ~st[r].completionAccounted
    BY <1>1, <2>1 DEF Steady, SteadyRunner, Unspent, Occupying
  <2>3. /\ Unspent' = Unspent \ {r} /\ Late' = Late \cup {r} /\ Reported' = Reported /\ r \notin Late
        /\ (Late \ Reported)' = (Late \ Reported) \cup {r}
    BY <1>1, <2>1, <2>2, DemandTypes DEF Unspent, Occupying, Late, Awaiting, Reported
  <2>4. /\ Cardinality(Unspent') = Cardinality(Unspent) - 1 /\ Cardinality(Late') = Cardinality(Late) + 1
        /\ Cardinality(Late' \ Reported') = Cardinality(Late \ Reported) + 1
    <3>1. IsFiniteSet(Unspent) /\ IsFiniteSet(Late) /\ IsFiniteSet(Late \ Reported)
      BY <1>1, DemandSets, ConstantsAssumption, FS_Subset
    <3> QED BY <2>2, <2>3, <3>1, FS_AddElement, FS_RemoveElement
  <2>5. \A q \in Runners : SteadyRunner(q)'
    BY <1>1, <2>1, <2>2, <2>3, DemandTypes DEF Steady, SteadyRunner
  <2>6. Steady'
    BY <1>1, <2>1, <2>3, <2>5 DEF Steady
  <2>7. InUse' /\ UnderWay'
    BY <1>1, <1>2, <2>1, <2>2, <2>3, <2>4 DEF InUse, UnderWay
  <2> QED BY <2>6, <2>7
<1>9. ASSUME NEW r \in Runners, RunnerExit(r) PROVE Steady' /\ InUse' /\ UnderWay'
  <2>1. /\ UNCHANGED <<job, assigned, evCompleted, inbox>> /\ res' = [res EXCEPT ![r] = "exit0"]
        /\ job[r] # "running"
    BY <1>9 DEF RunnerExit
  <2>2. \A q \in Runners : LeavesRunner(q)
    BY <1>1, <2>1, DemandTypes DEF LeavesRunner
  <2> QED BY <1>1, <1>3, <2>1, <2>2 DEF Reported
<1>10. ASSUME NEW r \in Runners, LateCreate(r) PROVE Steady' /\ InUse' /\ UnderWay'
  <2>1. /\ UNCHANGED <<job, assigned, evCompleted, inbox>> /\ res' = [res EXCEPT ![r] = "created"]
        /\ res[r] = "pending"
    BY <1>10 DEF LateCreate
  <2>2. \A q \in Runners : LeavesRunner(q)
    BY <1>1, <2>1, DemandTypes DEF LeavesRunner, Steady, SteadyRunner
  <2> QED BY <1>1, <1>3, <2>1, <2>2 DEF Reported
<1> QED
  BY <1>4, <1>5, <1>6, <1>7, <1>8, <1>9, <1>10 DEF GitHub, Host

LEMMA DemandStutter ==
  ASSUME Undisturbed, UNCHANGED vars
  PROVE  Steady' /\ InUse' /\ UnderWay'
<1> USE DEF vars, memVars, procVars, worldVars, envVars, launcherVars, loopVars, listenerVars, waiterVars, cleanupVars,
     shutdownVars, sessionVars, brokerVars
<1>1. Late' = Late /\ Unspent' = Unspent /\ Reported' = Reported
  BY DEF Late, Awaiting, Unspent, Occupying, Reported
<1>2. Steady'
  BY <1>1 DEF Undisturbed, Steady, SteadyRunner
<1>3. InUse' /\ UnderWay'
  BY <1>1 DEF Undisturbed, InUse, UnderWay
<1> QED BY <1>2, <1>3

LEMMA DemandNext == Inv /\ FoundInv /\ QuietInv /\ DemandInv /\ Inv' /\ [Next]_vars => DemandInv'
<1> SUFFICES ASSUME Inv, FoundInv, QuietInv, DemandInv, Inv', [Next]_vars PROVE DemandInv'
  OBVIOUS
<1>1. /\ ends' <= EndBudget /\ (ends' = EndBudget => ends = EndBudget /\ ends' = ends)
      /\ faults' = FaultBudget => faults = FaultBudget /\ ~Fault
  BY EndsFall, FaultsFall DEF DemandInv, QuietInv
<1>2. ASSUME faults = FaultBudget, ~Fault, ends = EndBudget, ends' = ends PROVE Steady' /\ InUse' /\ UnderWay'
  <2>1. Undisturbed
    BY <1>2 DEF Undisturbed, Calm, QuietInv, DemandInv
  <2>2. ~Shutdown /\ ~Restart /\ ~Crash /\ ~Ended
    <3>1. ends \in Nat /\ spc = "off" /\ lpc # "dead"
      BY <2>1 DEF Undisturbed, Calm, Inv, TypeOK, BudgetsTypeOK, Steady, Quiet, QuietCalls
    <3>2. ~Shutdown
      BY <1>2, <3>1 DEF Shutdown, ShutdownBegin, ShutdownRegistrations, ShutdownRemove, ShutdownEnd
    <3> QED BY <1>2, <3>1, <3>2 DEF Restart, Crash, Ended
  <2> QED
    BY <1>2, <2>1, <2>2, DemandListener, DemandLaunchLoop, DemandAwaitExit, DemandFinishRunner, DemandReconcile,
       DemandEnvironment, DemandStutter DEF Next
<1> QED BY <1>1, <1>2 DEF DemandInv

\* Of every launcher, whatever its cap and however many jobs, runners, passes and lost
\* messages: as long as no call fails and nothing ends, the runners that have not had their job
\* never outnumber the jobs GitHub holds, however stale the count the launcher acts on
\* (HandleDesiredRunnerCount, HandleJobCompleted, pendingExits).
THEOREM NoRunnerWithoutJob == Spec => []NoIdleSurplus
<1>1. Init => DemandInv
  <2> SUFFICES ASSUME Init PROVE DemandInv
    OBVIOUS
  <2>1. /\ Late = {} /\ Unspent = {} /\ Reported = {} /\ ~inbox.full /\ ends = EndBudget /\ desired = 0 /\ left = 0
        /\ assigned = 0
    BY DEF Init, Late, Awaiting, Unspent, Occupying, Reported, NoMessage
  <2>2. Cardinality({}) = 0
    BY FS_EmptySet
  <2>3. Steady
    BY <2>1 DEF Init, Steady, SteadyRunner, NoState, NewState
  <2>4. InUse /\ UnderWay
    BY <2>1, <2>2 DEF InUse, UnderWay
  <2> QED BY <2>1, <2>3, <2>4, ConstantsAssumption DEF DemandInv
<1>2. Inv /\ DemandInv => NoIdleSurplus
  <2> SUFFICES ASSUME Inv, InUse PROVE Cardinality(Unspent) <= assigned
    BY DEF DemandInv, NoIdleSurplus
  <2> QED BY DemandSets, DemandTypes DEF InUse
<1> QED
  BY <1>1, <1>2, QuietInvariance, FoundInvariance, DemandNext, Invariance, PTL DEF Spec
=============================================================================
