------------------------- MODULE Orchestrator_proofs -------------------------
(***************************************************************************)
(* Proofs about the loops of the orchestrator and the supervision around   *)
(* them, under any setups: any sessions, pools, workers and budgets.  Each *)
(* section is about one component under one setup P; the last one puts     *)
(* them together.                                                          *)
(***************************************************************************)
EXTENDS Orchestrator, FiniteSets, FiniteSetTheorems, TLAPS

-----------------------------------------------------------------------------
(* SessionSupervisor: every session is judged by where it is. *)

\* Where a session has a launcher at work on a scale set that matches, and where it holds
\* GitHub's message session.
Holding == {"listen", "close", "closeForGood"}
Working == {"reconcile", "open", "innerSleep", "shutdown", "shutdownFailed", "shutdownForGood"} \cup Holding
Places == {"prepare", "set", "outerSleep", "stopped", "permanent"} \cup Working

SessionTypes(P) ==
  /\ pc \in [P.Sessions -> Places] /\ available \in [P.Sessions -> BOOLEAN] /\ launcher \in [P.Sessions -> BOOLEAN]
  /\ ghSession \in [P.Sessions -> {"none", "stale", "mine"}]
  /\ scaleSet \in [P.Sessions -> {"absent", "differs", "match"}] /\ stop \in BOOLEAN

\* What is where, what is reported while nobody asked to stop, and who may have stopped.
SessionInv(s) ==
  /\ launcher[s] <=> pc[s] \in Working
  /\ pc[s] \in Working => scaleSet[s] = "match"
  /\ ghSession[s] = "mine" <=> pc[s] \in Holding
  /\ available[s] /\ ~stop => pc[s] \in Holding
  /\ pc[s] \in {"shutdown", "stopped"} => stop

SupervisorInv(P) ==
  /\ SessionTypes(P) /\ P.Sessions # {} /\ (\A s \in P.Sessions : SessionInv(s))
  /\ result # "running" => \A s \in P.Sessions : pc[s] \in Session(P)!Over
  /\ result = "nil" => \A s \in P.Sessions : pc[s] = "stopped"

\* A step of one session leaves the others alone, and is taken only while it is not over.
LEMMA SessionStep ==
  ASSUME NEW P, SupervisorInv(P), NEW s \in P.Sessions, Session(P)!Session(s) \/ Session(P)!Listen(s)
  PROVE  /\ SessionTypes(P)' /\ SessionInv(s)' /\ UNCHANGED <<stop, result>> /\ pc[s] \notin Session(P)!Over
         /\ \A t \in P.Sessions \ {s} : UNCHANGED <<pc[t], available[t], launcher[t], ghSession[t], scaleSet[t]>>
<1> DEFINE To(there) == pc' = [pc EXCEPT ![s] = there]
           Falls == available' = [available EXCEPT ![s] = FALSE]
           Same == available' = available
<1>a. SessionTypes(P) /\ SessionInv(s)
  BY DEF SupervisorInv
<1> USE DEF SessionTypes, SessionInv, Session!Over, Places, Working, Holding
<1>0. ASSUME NEW level, NEW there, Session(P)!BackOff(s, level, there) PROVE To(there) /\ Falls
  BY <1>0 DEF Session!BackOff, Session!Goto, Session!ReportsUnavailable
<1>1. CASE Session(P)!Prepare(s)
  <2>1. /\ pc[s] = "prepare" /\ UNCHANGED <<ghSession, scaleSet, launcher, stop, result>>
        /\ \/ To("set") /\ Same
           \/ (To("outerSleep") /\ Falls) \/ (To("permanent") /\ Falls) \/ (stop /\ To("stopped") /\ Same)
    BY <1>0, <1>a, <1>1 DEF Session!Prepare, Session!Goto, Session!ReportsUnavailable
  <2> QED BY <1>a, <2>1
<1>2. CASE Session(P)!EnsureSet(s)
  <2>1. /\ pc[s] = "set" /\ UNCHANGED <<ghSession, stop, result>>
        /\ \/ /\ To("reconcile") /\ Same /\ scaleSet' = [scaleSet EXCEPT ![s] = "match"]
              /\ launcher' = [launcher EXCEPT ![s] = TRUE]
           \/ /\ UNCHANGED <<scaleSet, launcher>>
              /\ (To("outerSleep") /\ Falls) \/ (To("permanent") /\ Falls) \/ (stop /\ To("stopped") /\ Same)
    BY <1>0, <1>a, <1>2 DEF Session!EnsureSet, Session!Goto, Session!ReportsUnavailable, Session!ensureScaleSet
  <2> QED BY <1>a, <2>1
<1>3. CASE Session(P)!Reconcile(s)
  BY <1>a, <1>3 DEF Session!Reconcile, Session!Goto
<1>4. CASE Session(P)!openSession(s)
  <2>1. /\ pc[s] = "open" /\ UNCHANGED <<scaleSet, launcher, stop, result>>
        /\ \/ /\ To("listen") /\ available' = [available EXCEPT ![s] = TRUE]
              /\ ghSession' = [ghSession EXCEPT ![s] = "mine"]
           \/ /\ UNCHANGED ghSession
              /\ (To("innerSleep") /\ Falls) \/ (To("shutdownForGood") /\ Falls) \/ (stop /\ To("shutdown") /\ Same)
    BY <1>0, <1>a, <1>4 DEF Session!openSession, Session!Goto, Session!ReportsUnavailable
  <2> QED BY <1>a, <2>1
<1>5. CASE Session(P)!CloseSession(s)
  <2>1. /\ pc[s] \in {"close", "closeForGood"} /\ UNCHANGED <<scaleSet, launcher, stop, result>>
        /\ \E g \in {"none", "stale"} : ghSession' = [ghSession EXCEPT ![s] = g]
        /\ (To("innerSleep") /\ Falls) \/ (To("shutdownForGood") /\ Falls) \/ (stop /\ To("shutdown") /\ Same)
    BY <1>0, <1>a, <1>5 DEF Session!CloseSession, Session!Goto, Session!ReportsUnavailable
  <2> QED BY <1>a, <2>1
<1>6. CASE Session(P)!Sleep(s)
  BY <1>a, <1>6 DEF Session!Sleep, Session!Goto
<1>7. CASE Session(P)!Shutdown(s)
  <2>1. /\ pc[s] \in {"shutdown", "shutdownFailed", "shutdownForGood"} /\ UNCHANGED <<ghSession, scaleSet, stop, result>>
        /\ launcher' = [launcher EXCEPT ![s] = FALSE]
        /\ (To("outerSleep") /\ Falls) \/ (To("permanent") /\ Falls) \/ (stop /\ To("stopped") /\ Same)
    BY <1>0, <1>a, <1>7 DEF Session!Shutdown, Session!Goto, Session!ReportsUnavailable
  <2> QED BY <1>a, <2>1
<1>8. CASE Session(P)!Listen(s)
  BY <1>a, <1>8 DEF Session!Listen, Session!Goto
<1> QED
  BY <1>1, <1>2, <1>3, <1>4, <1>5, <1>6, <1>7, <1>8 DEF Session!Session

LEMMA SupervisorNext == ASSUME NEW P PROVE SupervisorInv(P) /\ [Session(P)!Next]_(Session(P)!vars) => SupervisorInv(P)'
<1> SUFFICES ASSUME SupervisorInv(P), [Session(P)!Next]_(Session(P)!vars) PROVE SupervisorInv(P)'
  OBVIOUS
<1>1. ASSUME NEW s \in P.Sessions, Session(P)!Session(s) \/ Session(P)!Listen(s) PROVE SupervisorInv(P)'
  <2>1. /\ SessionTypes(P)' /\ SessionInv(s)' /\ UNCHANGED <<stop, result>> /\ pc[s] \notin Session(P)!Over
        /\ \A t \in P.Sessions \ {s} : UNCHANGED <<pc[t], available[t], launcher[t], ghSession[t], scaleSet[t]>>
    BY <1>1, SessionStep
  <2>2. \A t \in P.Sessions : SessionInv(t)'
    BY <2>1 DEF SupervisorInv, SessionInv
  <2>3. result = "running"
    BY <2>1 DEF SupervisorInv
  <2> QED BY <2>1, <2>2, <2>3 DEF SupervisorInv
<1>2. ASSUME NEW s \in P.Sessions, Session(P)!Expire(s) PROVE SupervisorInv(P)'
  BY <1>2 DEF Session!Expire, SupervisorInv, SessionTypes, SessionInv
<1>3. CASE Session(P)!RunSupervised
  BY <1>3 DEF Session!RunSupervised, SupervisorInv, SessionTypes, SessionInv, Session!Over
<1>4. CASE Session(P)!Stop
  BY <1>4 DEF Session!Stop, SupervisorInv, SessionTypes, SessionInv
<1>5. CASE UNCHANGED Session(P)!vars
  BY <1>5 DEF Session!vars, SupervisorInv, SessionTypes, SessionInv
<1> QED
  BY <1>1, <1>2, <1>3, <1>4, <1>5 DEF Session!Next, Session!Returned

LEMMA SupervisorInitial == ASSUME NEW P, Session(P)!SupervisorAssumption PROVE Session(P)!Init => SupervisorInv(P)
BY DEF Session!SupervisorAssumption, Session!Init, SupervisorInv, SessionTypes, SessionInv, Places, Working, Holding

LEMMA SupervisorGoal ==
  ASSUME NEW P, SupervisorInv(P) PROVE Session(P)!HealthTellsTruth /\ Session(P)!ReturnedIsOver
<1>1. Session(P)!HealthTellsTruth
  BY DEF SupervisorInv, SessionTypes, SessionInv, Session!HealthTellsTruth, Holding, Working
<1>2. Session(P)!ReturnedIsOver
  BY DEF SupervisorInv, SessionTypes, SessionInv, Session!ReturnedIsOver, Session!Over, Working, Holding
<1> QED BY <1>1, <1>2

-----------------------------------------------------------------------------
(* RunnerInstance: a run of RunOnce, wherever it is called from. *)

Runner(P) == INSTANCE RunnerInstance WITH
  Workers <- P.Workers, NameCount <- P.NameCount, Targets <- P.Targets, FaultBudget <- P.FaultBudget
Names(P) == 1..P.NameCount
Parked == {"off", "over"}
RunPlaces == {"jit", "launch", "wait", "kill", "busy", "delete"} \cup Parked

RunTypes(P) ==
  /\ P.NameCount \in Nat
  /\ pc \in [P.Workers -> RunPlaces] /\ name \in [P.Workers -> 0..P.NameCount]
  /\ reg \in [Names(P) -> P.Targets \cup {None}] /\ res \in [Names(P) -> Runner(P)!Instance]
  /\ hurt \in [Names(P) -> SUBSET Runner(P)!Call]

\* What a worker knows of its runner at each point of RunOnce, given its registration, its
\* instance and the calls that failed: where it deregisters, the instance is gone, or GitHub
\* has called it idle after a failed kill.
Known(place, g, i, h) ==
  /\ place \in {"jit", "launch"} => i = "none"
  /\ place = "jit" => g = None
  /\ place = "busy" => "kill" \in h
  /\ place = "delete" => i = "none" \/ {"kill", "idle"} \subseteq h
Severed(g, i, h) == i = "working" /\ g = None => {"kill", "idle"} \subseteq h
Explained(g, i, h) ==
  /\ i # "none" => "kill" \in h
  /\ g # None => h \cap {"jit", "kill", "delete"} # {}

WorkInv(w) ==
  /\ name[w] = 0 <=> pc[w] \in Parked
  /\ name[w] # 0 => Known(pc[w], reg[name[w]], res[name[w]], hurt[name[w]])
NameInv(P, n) ==
  /\ Severed(reg[n], res[n], hurt[n])
  /\ Runner(P)!InUse(n) \/ Explained(reg[n], res[n], hurt[n])
RunnerInv(P) ==
  /\ RunTypes(P) /\ (\A w \in P.Workers : WorkInv(w)) /\ (\A n \in Names(P) : NameInv(P, n))
  /\ \A v, w \in P.Workers : name[v] = name[w] /\ v # w => name[v] = 0

LEMMA RunnerGoal == ASSUME NEW P PROVE RunnerInv(P) => Runner(P)!RunsCleanUp
BY DEF RunnerInv, NameInv, Explained, Severed, Runner!RunsCleanUp, Runner!LeftoversExplained,
       Runner!SeveredOnlyIfSeenIdle, Names, Runner!Names

\* A step of one worker about its own name leaves every other run as it was.
LEMMA RunnerMoves ==
  ASSUME NEW P, RunnerInv(P), NEW w \in P.Workers, NEW n \in Names(P), name[w] = n \/ (name[w] = 0 /\ ~Runner(P)!InUse(n)),
         NEW there \in RunPlaces, NEW m \in {n, 0}, NEW g \in P.Targets \cup {None},
         NEW i \in Runner(P)!Instance, NEW h \in SUBSET Runner(P)!Call,
         pc' = [pc EXCEPT ![w] = there], name' = [name EXCEPT ![w] = m],
         reg' = [reg EXCEPT ![n] = g], res' = [res EXCEPT ![n] = i], hurt' = [hurt EXCEPT ![n] = h],
         m = 0 <=> there \in Parked, m # 0 => Known(there, g, i, h), Severed(g, i, h),
         m = 0 => Explained(g, i, h)
  PROVE  RunnerInv(P)'
<1>0. RunTypes(P) /\ n # 0
  BY DEF RunnerInv, Names
<1>a. RunTypes(P)' /\ pc'[w] = there /\ name'[w] = m /\ reg'[n] = g /\ res'[n] = i /\ hurt'[n] = h
  BY <1>0 DEF RunTypes, Names
<1>b. \A v \in P.Workers \ {w} : pc'[v] = pc[v] /\ name'[v] = name[v]
  BY <1>0 DEF RunTypes
<1>c. \A k \in Names(P) \ {n} : reg'[k] = reg[k] /\ res'[k] = res[k] /\ hurt'[k] = hurt[k]
  BY <1>0 DEF RunTypes
<1>1. \A v \in P.Workers \ {w} : name[v] # n
  BY <1>0 DEF RunnerInv, Runner!InUse
<1>2. ASSUME NEW v \in P.Workers PROVE WorkInv(v)'
  <2>0. CASE v = w
    BY <1>a, <2>0 DEF WorkInv
  <2>a. ASSUME v # w PROVE WorkInv(v) /\ pc'[v] = pc[v] /\ name'[v] = name[v] /\ name[v] \in 0..P.NameCount
    BY <1>0, <1>b, <2>a DEF RunnerInv, RunTypes
  <2>2. CASE v # w /\ name[v] = 0
    BY <2>a, <2>2 DEF WorkInv
  <2>3. CASE v # w /\ name[v] # 0
    <3>1. name[v] \in Names(P) \ {n}
      BY <1>1, <2>a, <2>3 DEF Names
    <3> QED BY <1>c, <2>a, <2>3, <3>1 DEF WorkInv
  <2> QED BY <2>0, <2>2, <2>3
<1>3. ASSUME NEW k \in Names(P) \ {n} PROVE NameInv(P, k)'
  <2>1. NameInv(P, k) /\ reg'[k] = reg[k] /\ res'[k] = res[k] /\ hurt'[k] = hurt[k] /\ k # 0
    BY <1>c DEF RunnerInv, Names
  <2>2. Runner(P)!InUse(k) => Runner(P)!InUse(k)'
    BY <1>b, <2>1 DEF Runner!InUse
  <2> QED BY <2>1, <2>2 DEF NameInv
<1>4. NameInv(P, n)'
  BY <1>a DEF NameInv, Runner!InUse
<1>5. ASSUME NEW u \in P.Workers, NEW v \in P.Workers, name'[u] = name'[v], u # v PROVE name'[u] = 0
  BY <1>1, <1>5, <1>a, <1>b DEF RunnerInv
<1> QED
  BY <1>a, <1>2, <1>3, <1>4, <1>5 DEF RunnerInv

LEMMA RunnerBegins ==
  ASSUME NEW P, RunnerInv(P), NEW w \in P.Workers, pc[w] = "off", Runner(P)!Begin(w)
  PROVE  RunnerInv(P)' /\ pc' = [pc EXCEPT ![w] = "jit"]
<1>1. PICK n \in Names(P) : Runner(P)!Fresh(n) /\ name' = [name EXCEPT ![w] = n] /\ hurt' = [hurt EXCEPT ![n] = {}]
  BY DEF Runner!Begin, Names, Runner!Names
<1>2. pc' = [pc EXCEPT ![w] = "jit"] /\ UNCHANGED <<reg, res>>
  BY DEF Runner!Begin, Runner!Goto
<1>3. name[w] = 0 /\ ~Runner(P)!InUse(n) /\ reg[n] = None /\ res[n] = "none" /\ n # 0
  BY <1>1 DEF RunnerInv, WorkInv, Parked, Runner!Fresh, Names
<1>4. reg' = [reg EXCEPT ![n] = None] /\ res' = [res EXCEPT ![n] = "none"]
  BY <1>2, <1>3 DEF RunnerInv, RunTypes
<1>5. Known("jit", None, "none", {}) /\ Severed(None, "none", {}) /\ "jit" \in RunPlaces \ Parked
  BY DEF Known, Severed, RunPlaces, Parked
<1>6. RunnerInv(P)'
  <2>1. "none" \in Runner(P)!Instance /\ {} \in SUBSET Runner(P)!Call
    BY DEF Runner!Instance
  <2> QED BY <1>1, <1>2, <1>3, <1>4, <1>5, <2>1, RunnerMoves
<1> QED BY <1>2, <1>6

LEMMA RunnerSteps ==
  ASSUME NEW P, RunnerInv(P), NEW w \in P.Workers, NEW t \in P.Targets, Runner(P)!GenerateJITConfig(w, t) \/ Runner(P)!RunOnce(w)
  PROVE  RunnerInv(P)' /\ pc[w] \notin Parked /\ \A v \in P.Workers \ {w} : pc'[v] = pc[v]
<1> DEFINE n == name[w]
<1>a. RunTypes(P) /\ WorkInv(w)
  BY DEF RunnerInv
<1>b. pc[w] \in {"jit", "launch", "wait", "kill", "busy", "delete"}
  BY DEF Runner!RunOnce, Runner!GenerateJITConfig, Runner!Launch, Runner!Wait, Runner!terminate,
         Runner!reclaimAfterFailedKill, Runner!deregister
<1>c. n \in Names(P) /\ NameInv(P, n) /\ Known(pc[w], reg[n], res[n], hurt[n])
  BY <1>a, <1>b DEF WorkInv, Parked, RunTypes, Names, RunnerInv
<1> HIDE DEF n
<1>n. n = name[w] /\ n # 0 /\ reg[n] \in P.Targets \cup {None} /\ res[n] \in Runner(P)!Instance /\ hurt[n] \in SUBSET Runner(P)!Call
  BY <1>a, <1>c DEF n, Names, RunTypes
<1>s. /\ name = [name EXCEPT ![w] = n] /\ reg = [reg EXCEPT ![n] = reg[n]]
      /\ res = [res EXCEPT ![n] = res[n]] /\ hurt = [hurt EXCEPT ![n] = hurt[n]]
  BY <1>a, <1>n DEF RunTypes
<1> DEFINE Sets(there, m, g, i, h) ==
             /\ pc' = [pc EXCEPT ![w] = there] /\ name' = [name EXCEPT ![w] = m]
             /\ reg' = [reg EXCEPT ![n] = g] /\ res' = [res EXCEPT ![n] = i] /\ hurt' = [hurt EXCEPT ![n] = h]
           Fits(there, m, g, i, h) ==
             /\ there \in RunPlaces /\ m \in {n, 0} /\ g \in P.Targets \cup {None} /\ i \in Runner(P)!Instance
             /\ h \in SUBSET Runner(P)!Call /\ (m = 0 <=> there \in Parked) /\ Severed(g, i, h)
             /\ (m # 0 => Known(there, g, i, h)) /\ (m = 0 => Explained(g, i, h))
           Local == RunnerInv(P)' /\ \A v \in P.Workers \ {w} : pc'[v] = pc[v]
           Hurts(call) == hurt[n] \cup {call}
<1>m. ASSUME NEW there, NEW m, NEW g, NEW i, NEW h, Sets(there, m, g, i, h), Fits(there, m, g, i, h) PROVE Local
  <2>1. RunnerInv(P)'
    BY <1>c, <1>n, <1>m, RunnerMoves
  <2> QED BY <2>1, <1>a, <1>m DEF RunTypes
<1>d. ASSUME NEW call \in Runner(P)!Call, Runner(P)!Fault(n, call) \/ Runner(P)!FaultOrCancelled(n, call)
      PROVE  hurt' = [hurt EXCEPT ![n] = Hurts(call)]
  BY <1>d DEF Runner!Fault, Runner!FaultOrCancelled
<1> USE DEF Known, NameInv, Severed, Explained, Parked, RunPlaces, Runner!Call, Runner!Instance
<1>1. ASSUME Runner(P)!GenerateJITConfig(w, t) PROVE Local
  <2>1. /\ pc[w] = "jit"
        /\ \/ Sets("launch", n, t, res[n], hurt[n])
           \/ \E g \in {reg[n], t} : Sets("over", 0, g, res[n], Hurts("jit"))
    BY <1>1, <1>d, <1>n, <1>s DEF Runner!GenerateJITConfig, Runner!Goto, Runner!Return, Runner!NoFault
  <2>2. Fits("launch", n, t, res[n], hurt[n]) /\ \A g \in {reg[n], t} : Fits("over", 0, g, res[n], Hurts("jit"))
    BY <1>c, <1>n, <2>1
  <2> HIDE DEF Sets, Fits
  <2> QED BY <1>m, <2>1, <2>2
<1>2. ASSUME Runner(P)!Launch(w) PROVE Local
  <2>1. /\ pc[w] = "launch"
        /\ \/ Sets("wait", n, reg[n], "up", hurt[n])
           \/ Sets("delete", n, reg[n], res[n], Hurts("launch"))
           \/ \E i \in {res[n], "up"} : Sets("kill", n, reg[n], i, Hurts("launch"))
    BY <1>2, <1>d, <1>n, <1>s DEF Runner!Launch, Runner!LaunchFailed, Runner!Goto, Runner!NoFault
  <2>2. /\ Fits("wait", n, reg[n], "up", hurt[n]) /\ Fits("delete", n, reg[n], res[n], Hurts("launch"))
        /\ \A i \in {res[n], "up"} : Fits("kill", n, reg[n], i, Hurts("launch"))
    BY <1>c, <1>n, <2>1
  <2> HIDE DEF Sets, Fits
  <2> QED BY <1>m, <2>1, <2>2
<1>3. ASSUME Runner(P)!Wait(w) PROVE Local
  <2>1. /\ pc[w] = "wait"
        /\ \/ Sets("kill", n, reg[n], res[n], hurt[n])
           \/ res[n] = "none" /\ Sets("delete", n, reg[n], res[n], hurt[n])
           \/ Sets("kill", n, reg[n], res[n], Hurts("wait"))
    BY <1>3, <1>d, <1>n, <1>s DEF Runner!Wait, Runner!WaitFailed, Runner!Goto, Runner!NoFault, Runner!envVars
  <2>2. /\ Fits("kill", n, reg[n], res[n], hurt[n]) /\ Fits("kill", n, reg[n], res[n], Hurts("wait"))
        /\ res[n] = "none" => Fits("delete", n, reg[n], res[n], hurt[n])
    BY <1>c, <1>n, <2>1
  <2> HIDE DEF Sets, Fits
  <2> QED BY <1>m, <2>1, <2>2
<1>4. ASSUME Runner(P)!terminate(w) PROVE Local
  <2>1. /\ pc[w] = "kill"
        /\ \/ Sets("delete", n, reg[n], "none", hurt[n])
           \/ \E i \in {res[n], "none"} : Sets("busy", n, reg[n], i, Hurts("kill"))
    BY <1>4, <1>d, <1>n, <1>s DEF Runner!terminate, Runner!KillFailed, Runner!Goto, Runner!NoFault
  <2>2. /\ Fits("delete", n, reg[n], "none", hurt[n])
        /\ \A i \in {res[n], "none"} : Fits("busy", n, reg[n], i, Hurts("kill"))
    BY <1>c, <1>n, <2>1
  <2> HIDE DEF Sets, Fits
  <2> QED BY <1>m, <2>1, <2>2
<1>5. ASSUME Runner(P)!reclaimAfterFailedKill(w) PROVE Local
  <2>1. /\ pc[w] = "busy"
        /\ \/ Sets("over", 0, reg[n], res[n], hurt[n])
           \/ Sets("over", 0, reg[n], res[n], Hurts("busy"))
           \/ Sets("delete", n, reg[n], res[n], Hurts("idle"))
    BY <1>5, <1>d, <1>n, <1>s DEF Runner!reclaimAfterFailedKill, Runner!Goto, Runner!Return, Runner!NoFault, Runner!envVars
  <2>2. /\ Fits("over", 0, reg[n], res[n], hurt[n]) /\ Fits("over", 0, reg[n], res[n], Hurts("busy"))
        /\ Fits("delete", n, reg[n], res[n], Hurts("idle"))
    BY <1>c, <1>n, <2>1
  <2> HIDE DEF Sets, Fits
  <2> QED BY <1>m, <2>1, <2>2
<1>6. ASSUME Runner(P)!deregister(w) PROVE Local
  <2>1. /\ pc[w] = "delete"
        /\ \/ Sets("over", 0, None, res[n], hurt[n])
           \/ \E g \in {reg[n], None} : Sets("over", 0, g, res[n], Hurts("delete"))
    BY <1>6, <1>d, <1>n, <1>s DEF Runner!deregister, Runner!DeleteRunner, Runner!Goto, Runner!Return, Runner!NoFault
  <2>2. /\ Fits("over", 0, None, res[n], hurt[n])
        /\ \A g \in {reg[n], None} : Fits("over", 0, g, res[n], Hurts("delete"))
    BY <1>c, <1>n, <2>1
  <2> HIDE DEF Sets, Fits
  <2> QED BY <1>m, <2>1, <2>2
<1>7. Local
  BY <1>1, <1>2, <1>3, <1>4, <1>5, <1>6 DEF Runner!RunOnce
<1> QED BY <1>7, <1>b
\* A worker whose call has returned is free again.
LEMMA RunnerFreed ==
  ASSUME NEW P, RunnerInv(P), NEW w \in P.Workers, pc[w] = "over", pc' = [pc EXCEPT ![w] = "off"],
         UNCHANGED <<name, reg, res, hurt>>
  PROVE  RunnerInv(P)'
<1>1. RunTypes(P)'
  BY DEF RunnerInv, RunTypes, RunPlaces, Parked
<1>2. ASSUME NEW v \in P.Workers PROVE WorkInv(v)'
  BY DEF RunnerInv, RunTypes, WorkInv, Parked, Known
<1>3. ASSUME NEW n \in Names(P) PROVE NameInv(P, n)'
  BY DEF RunnerInv, NameInv, Runner!InUse
<1> QED
  BY <1>1, <1>2, <1>3 DEF RunnerInv

LEMMA RunnerStill == ASSUME NEW P PROVE RunnerInv(P) /\ UNCHANGED <<pc, name, reg, res, hurt>> => RunnerInv(P)'
BY DEF RunnerInv, RunTypes, WorkInv, NameInv, Runner!InUse

\* GitHub, the runner and its job: only a registered runner gets a job, and only a working one
\* loses its registration with the end of its job.
LEMMA RunnerWorld ==
  ASSUME NEW P, RunnerInv(P), NEW n \in Names(P), Runner(P)!TakeJob(n) \/ Runner(P)!Environment(n)
  PROVE  RunnerInv(P)' /\ UNCHANGED <<pc, name>>
<1>1. UNCHANGED <<pc, name, hurt>> /\ RunTypes(P)
  BY DEF Runner!TakeJob, Runner!Environment, Runner!FinishJob, Runner!Exit, Runner!Die, Runner!runVars, RunnerInv
<1>2. RunTypes(P)' /\ \A m \in Names(P) \ {n} : reg'[m] = reg[m] /\ res'[m] = res[m]
  BY <1>1 DEF Runner!TakeJob, Runner!Environment, Runner!FinishJob, Runner!Exit, Runner!Die, RunTypes, Runner!Instance
<1>3. res[n] # "none" /\ \/ res'[n] = "none" /\ reg'[n] = reg[n]
                         \/ res'[n] # "working" /\ reg'[n] = None
                         \/ reg[n] # None /\ reg'[n] = reg[n]
  BY <1>1 DEF Runner!TakeJob, Runner!Environment, Runner!FinishJob, Runner!Exit, Runner!Die, RunTypes
<1>4. ASSUME NEW w \in P.Workers PROVE WorkInv(w)'
  <2>1. WorkInv(w) /\ name[w] \in 0..P.NameCount
    BY <1>1 DEF RunnerInv, RunTypes
  <2>2. CASE name[w] = n
    BY <1>1, <1>3, <2>1, <2>2 DEF WorkInv, Known
  <2>3. CASE name[w] # n
    BY <1>1, <1>2, <2>1, <2>3 DEF WorkInv, Names, RunTypes
  <2> QED BY <2>2, <2>3
<1>5. ASSUME NEW m \in Names(P) PROVE NameInv(P, m)'
  <2>1. NameInv(P, m) /\ (Runner(P)!InUse(m)' <=> Runner(P)!InUse(m))
    BY <1>1 DEF RunnerInv, Runner!InUse
  <2>2. CASE m = n
    BY <1>1, <1>3, <2>1, <2>2 DEF NameInv, Severed, Explained
  <2>3. CASE m # n
    BY <1>1, <1>2, <2>1, <2>3 DEF NameInv
  <2> QED BY <2>2, <2>3
<1> QED
  BY <1>1, <1>2, <1>4, <1>5 DEF RunnerInv

LEMMA RunnerInitially == ASSUME NEW P, P.NameCount \in Nat PROVE Runner(P)!InstanceInit => RunnerInv(P)
BY DEF Runner!InstanceInit, RunnerInv, RunTypes, WorkInv, NameInv, Severed, Explained,
       Parked, RunPlaces, Runner!Instance, Runner!Names, Names

-----------------------------------------------------------------------------
(* RunnerPool: the slots of the pools, and the manager above them. *)

PoolTypes(P) ==
  /\ slot \in [P.Workers -> {"new", "loop", "run", "sleep", "ended"}]
  /\ image \in [P.Pools -> {"pull", "ready", "failed", "ended"}]
  /\ {stop, cancelled} \subseteq BOOLEAN

\* A slot that is over was cancelled, or never began as its image could not be had; and a
\* cancellation is a stop or has its error in the channel.
SlotInv(P, w) ==
  /\ w[1] \in P.Pools
  /\ image[w[1]] = "pull" => slot[w] = "new"
  /\ slot[w] # "run" => pc[w] = "off"
  /\ slot[w] = "ended" => cancelled \/ image[w[1]] = "failed"
PoolInv(P) ==
  /\ PoolTypes(P) /\ RunnerInv(P) /\ (\A w \in P.Workers : SlotInv(P, w))
  /\ \A p \in P.Pools : /\ image[p] = "ended" => cancelled
                        /\ \E w \in P.Workers : w[1] = p
  /\ P.Pools # {} /\ P.RepoCount \in Nat \ {0} /\ P.RepoOf \in [0..P.RepoCount - 1 -> P.Targets]
  /\ \A w \in P.Workers : w[2] \in Nat
  /\ cancelled => stop \/ errCh # {}
  /\ mgr \in {"err", "nil"} => Pool(P)!AllDone
  /\ mgr \in {"drainNil", "nil"} => stop
\* The pools' RunOnce is the one above.
LEMMA PoolRuns ==
  ASSUME NEW P
  PROVE  /\ \A w \in P.Workers : Pool(P)!Begin(w) => Runner(P)!Begin(w)
         /\ \A w \in P.Workers, t \in P.Targets : Pool(P)!GenerateJITConfig(w, t) => Runner(P)!GenerateJITConfig(w, t)
         /\ \A w \in P.Workers : Pool(P)!RunOnce(w) => Runner(P)!RunOnce(w)
         /\ \A n \in Names(P) : Pool(P)!TakeJob(n) \/ Pool(P)!Environment(n) => Runner(P)!TakeJob(n) \/ Runner(P)!Environment(n)
         /\ Pool(P)!RunsCleanUp <=> Runner(P)!RunsCleanUp
<1>1. ASSUME NEW w \in P.Workers PROVE Pool(P)!Begin(w) => Runner(P)!Begin(w)
  BY DEF Pool!Begin, Runner!Begin, Pool!Goto, Runner!Goto, Pool!Fresh, Runner!Fresh, Pool!InUse, Runner!InUse,
         Pool!Names, Runner!Names
<1>2. ASSUME NEW w \in P.Workers, NEW t \in P.Targets PROVE Pool(P)!GenerateJITConfig(w, t) => Runner(P)!GenerateJITConfig(w, t)
  BY DEF Pool!GenerateJITConfig, Runner!GenerateJITConfig, Pool!Goto, Runner!Goto, Pool!NoFault, Runner!NoFault,
         Pool!FaultOrCancelled, Runner!FaultOrCancelled, Pool!Fault, Runner!Fault, Pool!Return, Runner!Return
<1>3. ASSUME NEW w \in P.Workers PROVE Pool(P)!RunOnce(w) => Runner(P)!RunOnce(w)
  <2>1. Pool(P)!Launch(w) => Runner(P)!Launch(w)
    BY DEF Pool!Launch, Runner!Launch, Pool!LaunchFailed, Runner!LaunchFailed, Pool!Goto, Runner!Goto,
           Pool!NoFault, Runner!NoFault, Pool!FaultOrCancelled, Runner!FaultOrCancelled, Pool!Fault, Runner!Fault
  <2>2. Pool(P)!Wait(w) => Runner(P)!Wait(w)
    BY DEF Pool!Wait, Runner!Wait, Pool!WaitFailed, Runner!WaitFailed, Pool!Goto, Runner!Goto, Pool!NoFault,
           Runner!NoFault, Pool!FaultOrCancelled, Runner!FaultOrCancelled, Pool!Fault, Runner!Fault,
           Pool!envVars, Runner!envVars
  <2>3. Pool(P)!terminate(w) => Runner(P)!terminate(w)
    BY DEF Pool!terminate, Runner!terminate, Pool!KillFailed, Runner!KillFailed, Pool!Goto, Runner!Goto,
           Pool!NoFault, Runner!NoFault, Pool!Fault, Runner!Fault
  <2>4. Pool(P)!reclaimAfterFailedKill(w) => Runner(P)!reclaimAfterFailedKill(w)
    BY DEF Pool!reclaimAfterFailedKill, Runner!reclaimAfterFailedKill, Pool!RunnerBusy, Runner!RunnerBusy,
           Pool!Goto, Runner!Goto, Pool!NoFault, Runner!NoFault, Pool!Fault, Runner!Fault, Pool!Return,
           Runner!Return, Pool!envVars, Runner!envVars
  <2>5. Pool(P)!deregister(w) => Runner(P)!deregister(w)
    BY DEF Pool!deregister, Runner!deregister, Pool!DeleteRunner, Runner!DeleteRunner, Pool!Goto, Runner!Goto,
           Pool!NoFault, Runner!NoFault, Pool!Fault, Runner!Fault, Pool!Return, Runner!Return
  <2> QED BY <2>1, <2>2, <2>3, <2>4, <2>5 DEF Pool!RunOnce, Runner!RunOnce
<1>4. ASSUME NEW n \in Names(P) PROVE Pool(P)!TakeJob(n) \/ Pool(P)!Environment(n) => Runner(P)!TakeJob(n) \/ Runner(P)!Environment(n)
  BY DEF Pool!TakeJob, Runner!TakeJob, Pool!Environment, Runner!Environment, Pool!FinishJob, Runner!FinishJob,
         Pool!Exit, Runner!Exit, Pool!Die, Runner!Die, Pool!runVars, Runner!runVars
<1>5. Pool(P)!RunsCleanUp <=> Runner(P)!RunsCleanUp
  BY DEF Pool!RunsCleanUp, Runner!RunsCleanUp, Pool!LeftoversExplained, Runner!LeftoversExplained,
         Pool!SeveredOnlyIfSeenIdle, Runner!SeveredOnlyIfSeenIdle, Pool!InUse, Runner!InUse, Pool!Names, Runner!Names
<1> QED BY <1>1, <1>2, <1>3, <1>4, <1>5

\* A slot whose image is wanted has not begun; all slots of a pool that is done are over, and
\* stay so.
LEMMA PoolNext == ASSUME NEW P PROVE PoolInv(P) /\ [Pool(P)!Next]_(Pool(P)!vars) => PoolInv(P)'
<1> SUFFICES ASSUME PoolInv(P), [Pool(P)!Next]_(Pool(P)!vars) PROVE PoolInv(P)'
  OBVIOUS
<1>a. PoolTypes(P) /\ RunnerInv(P)
  BY DEF PoolInv
<1>1. ASSUME NEW p \in P.Pools, Pool(P)!EnsureImage(p) PROVE PoolInv(P)'
  <2>1. UNCHANGED <<pc, name, reg, res, hurt, cancelled, stop, errCh, mgr>> /\ image[p] = "pull"
    BY <1>1 DEF Pool!EnsureImage, Pool!runVars, Pool!envVars
  <2>2. \E i \in {"ready", "failed", "ended"} :
          /\ image' = [image EXCEPT ![p] = i] /\ (i = "ended" => cancelled)
          /\ slot' = [w \in P.Workers |-> IF w[1] = p THEN IF i = "ready" THEN "loop" ELSE "ended" ELSE slot[w]]
    BY <1>1 DEF Pool!EnsureImage
  <2>3. PoolTypes(P)' /\ RunnerInv(P)' /\ ~Pool(P)!AllDone
    BY <1>a, <2>1, <2>2, RunnerStill DEF PoolTypes, Pool!AllDone, Pool!PoolDone
  <2>4. ASSUME NEW w \in P.Workers PROVE SlotInv(P, w)'
    BY <2>1, <2>2, <1>a DEF PoolInv, SlotInv, PoolTypes
  <2> QED BY <2>1, <2>2, <2>3, <2>4, <1>a DEF PoolInv, PoolTypes
<1>2. ASSUME NEW p \in P.Pools, Pool(P)!ReportFailure(p) PROVE PoolInv(P)'
  <2>1. /\ UNCHANGED <<pc, name, reg, res, hurt, stop, slot, mgr>> /\ image[p] = "failed"
        /\ image' = [image EXCEPT ![p] = "ended"] /\ cancelled' = TRUE /\ errCh' = errCh \cup {p}
    BY <1>2 DEF Pool!ReportFailure, Pool!runVars, Pool!envVars
  <2>2. PoolTypes(P)' /\ RunnerInv(P)' /\ ~Pool(P)!AllDone
    BY <1>a, <2>1, RunnerStill DEF PoolTypes, Pool!AllDone, Pool!PoolDone
  <2>3. ASSUME NEW w \in P.Workers PROVE SlotInv(P, w)'
    BY <2>1, <1>a DEF PoolInv, SlotInv, PoolTypes
  <2> QED BY <2>1, <2>2, <2>3, <1>a DEF PoolInv, PoolTypes
<1>3. ASSUME NEW w \in P.Workers, Pool(P)!Slot(w) PROVE PoolInv(P)'
  <2>1. UNCHANGED <<cancelled, stop, image, errCh, mgr>>
    BY <1>3 DEF Pool!Slot, Pool!runSlot, Pool!RunOneForSlot, Pool!SlotReturned, Pool!SlotSlept, Pool!poolVars,
                Pool!instanceVars, Pool!Begin, Pool!GenerateJITConfig, Pool!RunOnce, Pool!Launch, Pool!Wait,
                Pool!terminate, Pool!reclaimAfterFailedKill, Pool!deregister
  <2> DEFINE Moves == /\ RunnerInv(P)' /\ slot[w] \notin {"new", "ended"}
                      /\ \E s \in {"loop", "run", "sleep", "ended"} :
                           /\ slot' = [slot EXCEPT ![w] = s] /\ (s = "ended" => cancelled)
                           /\ s # "run" => pc'[w] = "off"
                      /\ \A v \in P.Workers \ {w} : pc'[v] = pc[v]
  <2>2. ASSUME Pool(P)!runSlot(w) PROVE Moves
    <3>1. slot[w] = "loop" /\ pc[w] = "off"
      BY <2>2 DEF Pool!runSlot, PoolInv, SlotInv
    <3>2. \/ cancelled /\ slot' = [slot EXCEPT ![w] = "ended"] /\ UNCHANGED <<pc, name, reg, res, hurt>>
          \/ slot' = [slot EXCEPT ![w] = "run"] /\ Runner(P)!Begin(w)
      BY <2>2, PoolRuns DEF Pool!runSlot, Pool!LoopEnds, Pool!instanceVars
    <3> QED BY <3>1, <3>2, <1>a, RunnerStill, RunnerBegins DEF RunnerInv, RunTypes
  <2>3. ASSUME Pool(P)!RunOneForSlot(w) PROVE Moves
    <3>1. slot[w] = "run" /\ slot' = slot /\ (Pool(P)!GenerateJITConfig(w, Pool(P)!ClientForSlot(w[2])) \/ Pool(P)!RunOnce(w))
      BY <2>3 DEF Pool!RunOneForSlot, Pool!poolVars
    <3>2. Pool(P)!ClientForSlot(w[2]) \in P.Targets
      BY DEF Pool!ClientForSlot, PoolInv
    <3>3. slot' = [slot EXCEPT ![w] = "run"]
      BY <3>1, <1>a DEF PoolTypes
    <3> QED BY <3>1, <3>2, <3>3, <1>a, PoolRuns, RunnerSteps
  <2>4. ASSUME Pool(P)!SlotReturned(w) PROVE Moves
    <3>1. /\ slot[w] = "run" /\ pc[w] = "over" /\ pc' = [pc EXCEPT ![w] = "off"] /\ UNCHANGED <<name, reg, res, hurt>>
          /\ \E s \in {"loop", "sleep", "ended"} : slot' = [slot EXCEPT ![w] = s] /\ (s = "ended" => cancelled)
      BY <2>4 DEF Pool!SlotReturned, Pool!LoopEnds, Pool!AfterFailure, Pool!envVars
    <3> QED BY <3>1, <1>a, RunnerFreed DEF RunnerInv, RunTypes
  <2>5. ASSUME Pool(P)!SlotSlept(w) PROVE Moves
    <3>1. /\ slot[w] = "sleep" /\ UNCHANGED <<pc, name, reg, res, hurt>>
          /\ \E s \in {"loop", "ended"} : slot' = [slot EXCEPT ![w] = s] /\ (s = "ended" => cancelled)
      BY <2>5 DEF Pool!SlotSlept, Pool!LoopEnds, Pool!instanceVars
    <3>2. pc[w] = "off"
      BY <3>1 DEF PoolInv, SlotInv
    <3> QED BY <3>1, <3>2, <1>a, RunnerStill
  <2>6. Moves
    BY <1>3, <2>2, <2>3, <2>4, <2>5 DEF Pool!Slot
  <2>7. PoolTypes(P)' /\ ~Pool(P)!AllDone
    BY <1>a, <2>1, <2>6 DEF PoolTypes, Pool!AllDone, Pool!PoolDone, Pool!SlotsOf, PoolInv, SlotInv
  <2>8. ASSUME NEW v \in P.Workers PROVE SlotInv(P, v)'
    BY <2>1, <2>6, <1>a DEF PoolInv, SlotInv, PoolTypes
  <2> QED BY <2>1, <2>6, <2>7, <2>8 DEF PoolInv
<1>4. ASSUME NEW n \in Names(P), Pool(P)!World(n) PROVE PoolInv(P)'
  <2>1. UNCHANGED <<cancelled, stop, image, errCh, mgr, slot, pc, name>> /\ RunnerInv(P)'
    BY <1>a, <1>4, PoolRuns, RunnerWorld DEF Pool!World, Pool!poolVars, Pool!TakeJob, Pool!Environment,
       Pool!FinishJob, Pool!Exit, Pool!Die
  <2> QED BY <2>1 DEF PoolInv, PoolTypes, SlotInv, Pool!AllDone, Pool!PoolDone, Pool!SlotsOf
<1>5. CASE Pool(P)!Stop
  <2>1. /\ UNCHANGED <<image, errCh, mgr, slot, pc, name, reg, res, hurt>> /\ stop' = TRUE /\ cancelled' = TRUE
    BY <1>5 DEF Pool!Stop, Pool!runVars, Pool!envVars
  <2>2. RunnerInv(P)'
    BY <2>1, <1>a, RunnerStill
  <2> QED BY <2>1, <2>2 DEF PoolInv, PoolTypes, SlotInv, Pool!AllDone, Pool!PoolDone, Pool!SlotsOf
<1>6. CASE Pool(P)!ManagerRun
  <2>1. UNCHANGED <<image, errCh, slot, pc, name, reg, res, hurt, stop, cancelled>>
    BY <1>6 DEF Pool!ManagerRun, Pool!instanceVars
  <2>2. RunnerInv(P)' /\ PoolTypes(P)' /\ (\A w \in P.Workers : SlotInv(P, w)') /\ (Pool(P)!AllDone' <=> Pool(P)!AllDone)
    BY <2>1, <1>a, RunnerStill DEF PoolInv, PoolTypes, SlotInv, Pool!AllDone, Pool!PoolDone, Pool!SlotsOf
  <2>3. Pool(P)!AllDone => cancelled
    BY DEF Pool!AllDone, Pool!PoolDone, Pool!SlotsOf, PoolInv, SlotInv
  <2>4. mgr' \in {"err", "nil"} => Pool(P)!AllDone
    BY <1>6 DEF Pool!ManagerRun, Pool!Drained
  <2>5. mgr' \in {"drainNil", "nil"} => stop
    BY <1>6, <2>3 DEF Pool!ManagerRun, Pool!DoneResult, PoolInv
  <2> QED BY <2>1, <2>2, <2>4, <2>5 DEF PoolInv
<1>7. CASE UNCHANGED Pool(P)!vars
  <2>1. UNCHANGED <<image, errCh, mgr, slot, pc, name, reg, res, hurt, stop, cancelled>>
    BY <1>7 DEF Pool!vars, Pool!instanceVars, Pool!poolVars
  <2>2. RunnerInv(P)'
    BY <2>1, <1>a, RunnerStill
  <2> QED BY <2>1, <2>2 DEF PoolInv, PoolTypes, SlotInv, Pool!AllDone, Pool!PoolDone, Pool!SlotsOf
<1> QED
  BY <1>1, <1>2, <1>3, <1>4, <1>5, <1>6, <1>7 DEF Pool!Next, Pool!Returned, Names, Pool!Names

LEMMA PoolInitial == ASSUME NEW P, Pool(P)!PoolAssumption, Pool(P)!Init PROVE PoolInv(P)
<1>1. P.NameCount \in Nat /\ Runner(P)!InstanceInit
  BY DEF Pool!Init, Pool!PoolAssumption, Pool!InstanceAssumption, Pool!InstanceInit,
         Runner!InstanceInit, Pool!Names, Runner!Names
<1>2. \A w \in P.Workers : w[1] \in P.Pools /\ w[2] \in Nat
  BY DEF Pool!PoolAssumption
<1>3. ASSUME NEW p \in P.Pools PROVE \E w \in P.Workers : w[1] = p
  <2>1. <<p, 0>> \in P.Workers
    BY DEF Pool!PoolAssumption
  <2> QED BY <2>1
<1>4. PoolTypes(P) /\ pc = [w \in P.Workers |-> "off"]
  BY <1>1 DEF Pool!Init, PoolTypes, Runner!InstanceInit
<1>5. RunnerInv(P) /\ \A w \in P.Workers : SlotInv(P, w)
  BY <1>1, <1>2, <1>4, RunnerInitially DEF Pool!Init, SlotInv
<1>6. \A p \in P.Pools : image[p] # "ended"
  BY DEF Pool!Init
<1>7. cancelled = FALSE
  BY <1>1 DEF Runner!InstanceInit
<1>8. mgr = "select" /\ P.Pools # {} /\ P.RepoCount \in Nat \ {0} /\ P.RepoOf \in [0..P.RepoCount - 1 -> P.Targets]
  BY DEF Pool!Init, Pool!PoolAssumption
<1> QED BY <1>2, <1>3, <1>4, <1>5, <1>6, <1>7, <1>8 DEF PoolInv

LEMMA PoolGoal == ASSUME NEW P, PoolInv(P) PROVE Pool(P)!RunsCleanUp /\ Pool(P)!ReturnedIsOver
<1>1. Pool(P)!ManagerResult
  BY DEF PoolInv, SlotInv, Pool!ManagerResult, Pool!AllDone, Pool!PoolDone, Pool!SlotsOf
<1>2. Pool(P)!StopLeavesNothing
  <2> SUFFICES ASSUME mgr = "nil", NEW n \in Names(P), hurt[n] \cap {"jit", "kill", "delete"} = {}
               PROVE  reg[n] = None /\ res[n] = "none"
    BY DEF Pool!StopLeavesNothing, Pool!Names, Names
  <2>1. \A w \in P.Workers : pc[w] = "off"
    BY <1>1 DEF Pool!ManagerResult
  <2>2. ~Runner(P)!InUse(n)
    BY <2>1 DEF PoolInv, RunnerInv, WorkInv, Parked, Names, Runner!InUse
  <2> QED BY <2>2 DEF PoolInv, RunnerInv, NameInv, Explained
<1>3. Pool(P)!RunsCleanUp
  BY RunnerGoal, PoolRuns DEF PoolInv
<1> QED
  BY <1>1, <1>2, <1>3 DEF Pool!ReturnedIsOver

-----------------------------------------------------------------------------
(* Autoscale: the launches of a webhook or a poll. *)

\* The jobs that may ever be launched for: those of a managed repository.
ManagedJobs(P) == {j \in DOMAIN P.JobSpec : P.JobSpec[j].repo \in Scaler(P)!Managed}

\* A token is given only for a job its pool may serve.
Serves(P, w, j) ==
  /\ j \in ManagedJobs(P)
  /\ P.PoolSpec[w[1]].repo \in {"any", P.JobSpec[j].repo}
  /\ P.PoolSpec[w[1]].workflows # {} => P.JobSpec[j].workflow \in P.PoolSpec[w[1]].workflows

ScalerConstants(P) ==
  /\ IsFiniteSet(DOMAIN P.JobSpec)
  /\ \A w \in P.Workers : w[1] \in DOMAIN P.PoolSpec
  /\ P.Targets = Scaler(P)!Managed \X DOMAIN P.PoolSpec
  /\ P.Repos \in Seq(Scaler(P)!Managed) /\ P.Repos # <<>>
ScalerInv(P) ==
  /\ ScalerConstants(P) /\ RunnerInv(P)
  /\ resolving \subseteq ManagedJobs(P) /\ plist \in Seq(ManagedJobs(P)) /\ {poll, polled} \subseteq Nat
  /\ want \in [P.Workers -> DOMAIN P.JobSpec \cup {None}]
  /\ \A w \in P.Workers : want[w] # None => Serves(P, w, want[w])

\* The autoscaler's RunOnce is the one above.
LEMMA ScalerRuns ==
  ASSUME NEW P
  PROVE  /\ \A w \in P.Workers : Scaler(P)!Begin(w) => Runner(P)!Begin(w)
         /\ \A w \in P.Workers, t \in P.Targets : Scaler(P)!GenerateJITConfig(w, t) => Runner(P)!GenerateJITConfig(w, t)
         /\ \A w \in P.Workers : Scaler(P)!RunOnce(w) => Runner(P)!RunOnce(w)
         /\ \A n \in Names(P) : Scaler(P)!TakeJob(n) \/ Scaler(P)!Environment(n) => Runner(P)!TakeJob(n) \/ Runner(P)!Environment(n)
         /\ Scaler(P)!RunsCleanUp <=> Runner(P)!RunsCleanUp
<1>1. ASSUME NEW w \in P.Workers PROVE Scaler(P)!Begin(w) => Runner(P)!Begin(w)
  BY DEF Scaler!Begin, Runner!Begin, Scaler!Goto, Runner!Goto, Scaler!Fresh, Runner!Fresh, Scaler!InUse, Runner!InUse,
         Scaler!Names, Runner!Names
<1>2. ASSUME NEW w \in P.Workers, NEW t \in P.Targets PROVE Scaler(P)!GenerateJITConfig(w, t) => Runner(P)!GenerateJITConfig(w, t)
  BY DEF Scaler!GenerateJITConfig, Runner!GenerateJITConfig, Scaler!Goto, Runner!Goto, Scaler!NoFault, Runner!NoFault,
         Scaler!FaultOrCancelled, Runner!FaultOrCancelled, Scaler!Fault, Runner!Fault, Scaler!Return, Runner!Return
<1>3. ASSUME NEW w \in P.Workers PROVE Scaler(P)!RunOnce(w) => Runner(P)!RunOnce(w)
  <2>1. Scaler(P)!Launch(w) => Runner(P)!Launch(w)
    BY DEF Scaler!Launch, Runner!Launch, Scaler!LaunchFailed, Runner!LaunchFailed, Scaler!Goto, Runner!Goto,
           Scaler!NoFault, Runner!NoFault, Scaler!FaultOrCancelled, Runner!FaultOrCancelled, Scaler!Fault, Runner!Fault
  <2>2. Scaler(P)!Wait(w) => Runner(P)!Wait(w)
    BY DEF Scaler!Wait, Runner!Wait, Scaler!WaitFailed, Runner!WaitFailed, Scaler!Goto, Runner!Goto, Scaler!NoFault,
           Runner!NoFault, Scaler!FaultOrCancelled, Runner!FaultOrCancelled, Scaler!Fault, Runner!Fault,
           Scaler!envVars, Runner!envVars
  <2>3. Scaler(P)!terminate(w) => Runner(P)!terminate(w)
    BY DEF Scaler!terminate, Runner!terminate, Scaler!KillFailed, Runner!KillFailed, Scaler!Goto, Runner!Goto,
           Scaler!NoFault, Runner!NoFault, Scaler!Fault, Runner!Fault
  <2>4. Scaler(P)!reclaimAfterFailedKill(w) => Runner(P)!reclaimAfterFailedKill(w)
    BY DEF Scaler!reclaimAfterFailedKill, Runner!reclaimAfterFailedKill, Scaler!RunnerBusy, Runner!RunnerBusy,
           Scaler!Goto, Runner!Goto, Scaler!NoFault, Runner!NoFault, Scaler!Fault, Runner!Fault, Scaler!Return,
           Runner!Return, Scaler!envVars, Runner!envVars
  <2>5. Scaler(P)!deregister(w) => Runner(P)!deregister(w)
    BY DEF Scaler!deregister, Runner!deregister, Scaler!DeleteRunner, Runner!DeleteRunner, Scaler!Goto, Runner!Goto,
           Scaler!NoFault, Runner!NoFault, Scaler!Fault, Runner!Fault, Scaler!Return, Runner!Return
  <2> QED BY <2>1, <2>2, <2>3, <2>4, <2>5 DEF Scaler!RunOnce, Runner!RunOnce
<1>4. ASSUME NEW n \in Names(P) PROVE Scaler(P)!TakeJob(n) \/ Scaler(P)!Environment(n) => Runner(P)!TakeJob(n) \/ Runner(P)!Environment(n)
  BY DEF Scaler!TakeJob, Runner!TakeJob, Scaler!Environment, Runner!Environment, Scaler!FinishJob, Runner!FinishJob,
         Scaler!Exit, Runner!Exit, Scaler!Die, Runner!Die, Scaler!runVars, Runner!runVars
<1>5. Scaler(P)!RunsCleanUp <=> Runner(P)!RunsCleanUp
  BY DEF Scaler!RunsCleanUp, Runner!RunsCleanUp, Scaler!LeftoversExplained, Runner!LeftoversExplained,
         Scaler!SeveredOnlyIfSeenIdle, Runner!SeveredOnlyIfSeenIdle, Scaler!InUse, Runner!InUse, Scaler!Names, Runner!Names
<1> QED BY <1>1, <1>2, <1>3, <1>4, <1>5

\* launchFor gives a token only to an authorised pool.
LEMMA LaunchServes ==
  ASSUME NEW P, ScalerInv(P), NEW j \in ManagedJobs(P), NEW resolved \in BOOLEAN, Scaler(P)!launchFor(j, resolved)
  PROVE  /\ want' \in [P.Workers -> DOMAIN P.JobSpec \cup {None}]
         /\ \A w \in P.Workers : want'[w] # None => Serves(P, w, want'[w])
<1>1. CASE want' = want
  BY <1>1 DEF ScalerInv
<1>2. CASE want' # want
  <2>1. PICK i \in DOMAIN P.PoolSeq : Scaler(P)!Allows(P.PoolSeq[i], j, resolved) /\ Scaler(P)!tryLaunch(P.PoolSeq[i], j)
    BY <1>2 DEF Scaler!launchFor
  <2>2. PICK w \in P.Workers : w[1] = P.PoolSeq[i] /\ want' = [want EXCEPT ![w] = j]
    BY <2>1 DEF Scaler!tryLaunch, Scaler!FreeTokens
  <2>3. Serves(P, w, j)
    BY <2>1, <2>2 DEF Serves, Scaler!Allows
  <2> QED BY <2>2, <2>3 DEF ScalerInv, ManagedJobs
<1> QED BY <1>1, <1>2

\* A poll finds jobs of the repository it asks, which is a managed one.
LEMMA PollFinds ==
  ASSUME NEW P, ScalerInv(P), NEW r \in Scaler(P)!Managed, NEW found,
         found \in Scaler(P)!Injection(1..Scaler(P)!Cardinality(Scaler(P)!QueuedWorkflowJobs(r)), Scaler(P)!QueuedWorkflowJobs(r))
  PROVE  found \in Seq(ManagedJobs(P))
<1> DEFINE S == Scaler(P)!QueuedWorkflowJobs(r)
<1>1. S \subseteq ManagedJobs(P) /\ S \subseteq DOMAIN P.JobSpec
  BY DEF Scaler!QueuedWorkflowJobs, ManagedJobs, Scaler!Jobs
<1>2. IsFiniteSet(S)
  BY <1>1, FS_Subset DEF ScalerInv, ScalerConstants
<1>3. Scaler(P)!Cardinality(S) = Cardinality(S)
  BY DEF Scaler!Cardinality, Cardinality, Scaler!IsFiniteSet, IsFiniteSet
<1>4. found \in [1..Scaler(P)!Cardinality(S) -> S]
  BY DEF Scaler!Injection
<1> HIDE DEF S
<1>5. Cardinality(S) \in Nat
  BY <1>2, FS_CardinalityType
<1> QED BY <1>1, <1>3, <1>4, <1>5

LEMMA ScalerNext == ASSUME NEW P PROVE ScalerInv(P) /\ [Scaler(P)!Next]_(Scaler(P)!vars) => ScalerInv(P)'
<1> SUFFICES ASSUME ScalerInv(P), [Scaler(P)!Next]_(Scaler(P)!vars) PROVE ScalerInv(P)'
  OBVIOUS
<1>a. ScalerConstants(P)' /\ RunnerInv(P)
  BY DEF ScalerInv, ScalerConstants, Scaler!Managed
<1> DEFINE RunStill == UNCHANGED <<pc, name, reg, res, hurt>>
           PollStill == UNCHANGED <<plist, poll, polled>>
           Asks == resolving \subseteq ManagedJobs(P) /\ plist \in Seq(ManagedJobs(P)) /\ {poll, polled} \subseteq Nat
           Given == /\ want \in [P.Workers -> DOMAIN P.JobSpec \cup {None}]
                    /\ \A w \in P.Workers : want[w] # None => Serves(P, w, want[w])
<1>b. Asks /\ Given
  BY DEF ScalerInv
<1>c. RunStill => RunnerInv(P)'
  BY <1>a, RunnerStill
<1>d. RunnerInv(P)' /\ Asks' /\ Given' => ScalerInv(P)'
  BY <1>a DEF ScalerInv
<1>e. want' = want => Given'
  BY <1>b DEF Serves
<1>f. UNCHANGED <<resolving, plist, poll, polled>> => Asks'
  BY <1>b
<1>1. ASSUME NEW j \in Scaler(P)!Jobs, Scaler(P)!Queue(j) PROVE ScalerInv(P)'
  <2>1. RunStill /\ UNCHANGED <<resolving, plist, poll, polled, want>>
    BY <1>1 DEF Scaler!Queue, Scaler!instanceVars, Scaler!pollVars
  <2> QED BY <2>1, <1>c, <1>d, <1>e, <1>f
<1>2. ASSUME NEW j \in Scaler(P)!Jobs, Scaler(P)!handle(j) PROVE ScalerInv(P)'
  <2>1. RunStill /\ PollStill
    BY <1>2 DEF Scaler!handle, Scaler!instanceVars, Scaler!pollVars
  <2>2. CASE UNCHANGED <<resolving, want>>
    BY <2>1, <2>2, <1>c, <1>d, <1>e, <1>f
  <2>3. CASE P.JobSpec[j].repo \in Scaler(P)!Managed /\ resolving' = resolving \cup {j} /\ UNCHANGED want
    <3>1. j \in ManagedJobs(P)
      BY <2>3 DEF ManagedJobs, Scaler!Jobs
    <3> QED BY <2>1, <2>3, <3>1, <1>b, <1>c, <1>d, <1>e
  <2>4. CASE P.JobSpec[j].repo \in Scaler(P)!Managed /\ Scaler(P)!launchFor(j, FALSE) /\ UNCHANGED resolving
    <3>1. j \in ManagedJobs(P)
      BY <2>4 DEF ManagedJobs, Scaler!Jobs
    <3>2. Given'
      BY <2>4, <3>1, LaunchServes
    <3> QED BY <2>1, <2>4, <3>2, <1>c, <1>d, <1>f
  <2> QED BY <1>2, <2>2, <2>3, <2>4 DEF Scaler!handle, Scaler!OnQueued
<1>3. ASSUME NEW j \in Scaler(P)!Jobs, Scaler(P)!ResolveQueuedJob(j) PROVE ScalerInv(P)'
  <2>1. RunStill /\ PollStill /\ j \in ManagedJobs(P) /\ resolving' = resolving \ {j}
    BY <1>3, <1>b DEF Scaler!ResolveQueuedJob, Scaler!runVars, Scaler!envVars, Scaler!pollVars
  <2>2. Given'
    BY <1>3, <2>1, <1>e, LaunchServes DEF Scaler!ResolveQueuedJob
  <2> QED BY <2>1, <2>2, <1>b, <1>c, <1>d
<1>4. CASE Scaler(P)!EnsureImages
  <2>1. RunStill /\ UNCHANGED <<resolving, plist, poll, polled, want>>
    BY <1>4 DEF Scaler!EnsureImages, Scaler!runVars, Scaler!envVars, Scaler!pollVars
  <2> QED BY <2>1, <1>c, <1>d, <1>e, <1>f
<1>5. CASE Scaler(P)!StartPoll
  <2>1. RunStill /\ UNCHANGED <<resolving, want>> /\ plist' = <<>> /\ polled' = 0 /\ poll' = (poll + 1) % Len(P.Repos)
    BY <1>5 DEF Scaler!StartPoll, Scaler!instanceVars
  <2>2. poll' \in Nat
    BY <2>1, <1>b DEF ScalerInv, ScalerConstants
  <2> QED BY <2>1, <2>2, <1>b, <1>c, <1>d, <1>e
<1>6. CASE Scaler(P)!PollRepository
  <2> DEFINE r == P.Repos[((poll + Len(P.Repos) - 1 + polled) % Len(P.Repos)) + 1]
  <2>1. r \in Scaler(P)!Managed
    BY <1>b DEF ScalerInv, ScalerConstants
  <2>2. RunStill /\ UNCHANGED <<resolving, want, poll>> /\ polled' = polled + 1
    BY <1>6 DEF Scaler!PollRepository, Scaler!runVars, Scaler!envVars
  <2> DEFINE All == Scaler(P)!Injection(1..Scaler(P)!Cardinality(Scaler(P)!QueuedWorkflowJobs(r)), Scaler(P)!QueuedWorkflowJobs(r))
  <2>3. plist' = plist \/ \E found \in All : plist' = plist \o found
    BY <1>6 DEF Scaler!PollRepository
  <2>4. plist' \in Seq(ManagedJobs(P))
    <3> HIDE DEF r
    <3>1. All \subseteq Seq(ManagedJobs(P))
      BY <2>1, PollFinds
    <3>2. ASSUME NEW S, NEW q \in Seq(S), NEW found \in Seq(S) PROVE q \o found \in Seq(S)
      OBVIOUS
    <3> HIDE DEF All
    <3> QED BY <2>3, <1>b, <3>1, <3>2
  <2> QED BY <2>2, <2>4, <1>b, <1>c, <1>d, <1>e
<1>7. CASE Scaler(P)!PollLaunch
  <2>1. RunStill /\ UNCHANGED <<resolving, poll, polled>>
    BY <1>7 DEF Scaler!PollLaunch, Scaler!instanceVars
  <2>2. CASE UNCHANGED <<plist, want>>
    BY <2>1, <2>2, <1>c, <1>d, <1>e, <1>f
  <2>3. CASE plist # <<>> /\ Scaler(P)!launchFor(Head(plist), TRUE) /\ plist' = Tail(plist)
    <3>1. Head(plist) \in ManagedJobs(P) /\ plist' \in Seq(ManagedJobs(P))
      BY <2>3, <1>b
    <3>2. Given'
      BY <2>3, <3>1, LaunchServes
    <3> QED BY <2>1, <3>1, <3>2, <1>b, <1>c, <1>d
  <2> QED BY <1>7, <2>2, <2>3 DEF Scaler!PollLaunch
<1>8. ASSUME NEW w \in P.Workers, Scaler(P)!RunJob(w) PROVE ScalerInv(P)'
  <2>1. pc[w] = "off" /\ Scaler(P)!Begin(w) /\ UNCHANGED <<resolving, plist, poll, polled, want>>
    BY <1>8 DEF Scaler!RunJob, Scaler!scaleVars, Scaler!pollVars
  <2>2. RunnerInv(P)'
    BY <2>1, <1>a, ScalerRuns, RunnerBegins
  <2> QED BY <2>1, <2>2, <1>d, <1>e, <1>f
<1>9. ASSUME NEW w \in P.Workers, Scaler(P)!RunJobStep(w) PROVE ScalerInv(P)'
  <2> DEFINE t == <<P.JobSpec[want[w]].repo, w[1]>>
  <2>1. /\ want[w] # None /\ UNCHANGED <<resolving, plist, poll, polled, want>>
        /\ Scaler(P)!GenerateJITConfig(w, t) \/ Scaler(P)!RunOnce(w)
    BY <1>9 DEF Scaler!RunJobStep, Scaler!pollVars
  <2>2. t \in P.Targets
    BY <2>1, <1>b DEF ScalerInv, ScalerConstants, Serves, ManagedJobs
  <2>3. RunnerInv(P)'
    BY <2>1, <2>2, <1>a, ScalerRuns, RunnerSteps
  <2> QED BY <2>1, <2>3, <1>d, <1>e, <1>f
<1>10. ASSUME NEW w \in P.Workers, Scaler(P)!Release(w) PROVE ScalerInv(P)'
  <2>1. /\ pc[w] = "over" /\ pc' = [pc EXCEPT ![w] = "off"] /\ want' = [want EXCEPT ![w] = None]
        /\ UNCHANGED <<name, reg, res, hurt, resolving, plist, poll, polled>>
    BY <1>10 DEF Scaler!Release, Scaler!envVars, Scaler!pollVars
  <2>2. RunnerInv(P)'
    BY <2>1, <1>a, RunnerFreed
  <2>3. Given'
    BY <2>1, <1>b
  <2> QED BY <2>1, <2>2, <2>3, <1>d, <1>f
<1>11. ASSUME NEW n \in Names(P), Scaler(P)!RunnerStep(n) PROVE ScalerInv(P)'
  <2>1. Scaler(P)!Environment(n) /\ UNCHANGED <<resolving, plist, poll, polled, want>>
    BY <1>11 DEF Scaler!RunnerStep, Scaler!pollVars
  <2>2. RunnerInv(P)'
    BY <2>1, <1>a, ScalerRuns, RunnerWorld
  <2> QED BY <2>1, <2>2, <1>d, <1>e, <1>f
<1>12. ASSUME NEW n \in Names(P), NEW j \in Scaler(P)!Jobs, Scaler(P)!Assign(n, j) PROVE ScalerInv(P)'
  <2>1. Scaler(P)!TakeJob(n) /\ UNCHANGED <<resolving, plist, poll, polled, want>>
    BY <1>12 DEF Scaler!Assign, Scaler!pollVars
  <2>2. RunnerInv(P)'
    BY <2>1, <1>a, ScalerRuns, RunnerWorld
  <2> QED BY <2>1, <2>2, <1>d, <1>e, <1>f
<1>13. CASE Scaler(P)!StopScaler
  <2>1. RunStill /\ UNCHANGED <<resolving, plist, poll, polled, want>>
    BY <1>13 DEF Scaler!StopScaler, Scaler!Cancel, Scaler!runVars, Scaler!envVars, Scaler!instanceVars, Scaler!pollVars
  <2> QED BY <2>1, <1>c, <1>d, <1>e, <1>f
<1>14. CASE UNCHANGED Scaler(P)!vars
  <2>1. RunStill /\ UNCHANGED <<resolving, plist, poll, polled, want>>
    BY <1>14 DEF Scaler!vars, Scaler!instanceVars, Scaler!scaleVars, Scaler!pollVars
  <2> QED BY <2>1, <1>c, <1>d, <1>e, <1>f
<1> HIDE DEF RunStill, PollStill, Asks, Given
<1> QED
  BY <1>1, <1>2, <1>3, <1>4, <1>5, <1>6, <1>7, <1>8, <1>9, <1>10, <1>11, <1>12, <1>13, <1>14
     DEF Scaler!Next, Scaler!Over, Names, Scaler!Names

LEMMA ScalerInitial == ASSUME NEW P, Scaler(P)!AutoscaleAssumption, Scaler(P)!Init PROVE ScalerInv(P)
<1>1. P.NameCount \in Nat /\ Runner(P)!InstanceInit
  BY DEF Scaler!Init, Scaler!AutoscaleAssumption, Scaler!InstanceAssumption, Scaler!InstanceInit,
         Runner!InstanceInit, Scaler!Names, Runner!Names
<1>2. IsFiniteSet(DOMAIN P.JobSpec)
  BY DEF Scaler!AutoscaleAssumption, IsFiniteSet, Scaler!IsFiniteSet
<1>3. ScalerConstants(P)
  BY <1>2 DEF Scaler!AutoscaleAssumption, ScalerConstants, Scaler!Managed
<1> QED BY <1>1, <1>3, RunnerInitially DEF Scaler!Init, ScalerInv

LEMMA ScalerGoal == ASSUME NEW P, ScalerInv(P) PROVE Scaler(P)!LaunchesAreAuthorised /\ Scaler(P)!RunsCleanUp
<1>1. Scaler(P)!LaunchesAreAuthorised
  BY DEF ScalerInv, Serves, ManagedJobs, Scaler!LaunchesAreAuthorised
<1>2. Scaler(P)!RunsCleanUp
  BY RunnerGoal, ScalerRuns DEF ScalerInv
<1> QED BY <1>1, <1>2

-----------------------------------------------------------------------------
(* QueuedJobPoll: what has been found, and what is still to be listed. *)

Elements(s) == {s[i] : i \in DOMAIN s}
Distinct(s) == \A i, j \in DOMAIN s : s[i] = s[j] => i = j
Apart(s, t) == Distinct(s) /\ Distinct(t) /\ Elements(s) \cap Elements(t) = {}

LEMMA ConcatElements ==
  ASSUME NEW S, NEW s \in Seq(S), NEW t \in Seq(S)
  PROVE  s \o t \in Seq(S) /\ Elements(s \o t) = Elements(s) \cup Elements(t)
<1> DEFINE c == s \o t
<1>1. c \in Seq(S) /\ Len(c) = Len(s) + Len(t)
  OBVIOUS
<1>2. /\ \A i \in 1..Len(s) : i \in DOMAIN c /\ c[i] = s[i]
      /\ \A i \in 1..Len(t) : Len(s) + i \in DOMAIN c /\ c[Len(s) + i] = t[i]
  OBVIOUS
<1>3. \A i \in DOMAIN c : i \in 1..Len(s) \/ (i - Len(s) \in 1..Len(t) /\ c[i] = t[i - Len(s)])
  OBVIOUS
<1> HIDE DEF c
<1>4. Elements(s) \cup Elements(t) \subseteq Elements(c)
  BY <1>2 DEF Elements
<1>5. Elements(c) \subseteq Elements(s) \cup Elements(t)
  BY <1>2, <1>3 DEF Elements
<1> QED BY <1>1, <1>4, <1>5 DEF c

LEMMA ConcatDistinct ==
  ASSUME NEW S, NEW s \in Seq(S), NEW t \in Seq(S), Apart(s, t)
  PROVE  Distinct(s \o t)
<1> DEFINE c == s \o t
<1>1. Len(c) = Len(s) + Len(t) /\ DOMAIN c = 1..Len(c)
  OBVIOUS
<1>2. /\ \A i \in 1..Len(s) : c[i] = s[i] /\ c[i] \in Elements(s)
      /\ \A i \in DOMAIN c : i \notin 1..Len(s) =>
           i - Len(s) \in 1..Len(t) /\ c[i] = t[i - Len(s)] /\ c[i] \in Elements(t)
  BY DEF Elements
<1> HIDE DEF c
<1> SUFFICES ASSUME NEW i \in DOMAIN c, NEW j \in DOMAIN c, c[i] = c[j] PROVE i = j
  BY DEF Distinct, c
<1>3. (i \in 1..Len(s)) <=> (j \in 1..Len(s))
  BY <1>2 DEF Apart
<1>4. CASE i \in 1..Len(s)
  BY <1>2, <1>3, <1>4 DEF Apart, Distinct
<1>5. CASE i \notin 1..Len(s)
  <2>1. i - Len(s) = j - Len(s)
    BY <1>2, <1>3, <1>5 DEF Apart, Distinct
  <2> QED BY <1>1, <2>1
<1> QED BY <1>4, <1>5

\* The first of the runs is dropped.
LEMMA DropHead ==
  ASSUME NEW S, NEW t \in Seq(S), t # <<>>, Distinct(t)
  PROVE  /\ Head(t) \in S /\ Tail(t) \in Seq(S) /\ Distinct(Tail(t))
         /\ Elements(t) = Elements(Tail(t)) \cup {Head(t)} /\ Head(t) \notin Elements(Tail(t))
<1> DEFINE h == Head(t)
           u == Tail(t)
<1>1. /\ h \in S /\ u \in Seq(S) /\ h = t[1] /\ 1 \in DOMAIN t
      /\ Len(t) \in Nat /\ Len(t) # 0 /\ Len(u) = Len(t) - 1
  OBVIOUS
<1>2. /\ \A i \in 1..Len(u) : i + 1 \in DOMAIN t /\ u[i] = t[i + 1]
      /\ \A i \in DOMAIN t : i = 1 \/ (i - 1 \in 1..Len(u) /\ t[i] = u[i - 1])
  BY <1>1
<1>3. DOMAIN u = 1..Len(u) /\ Len(u) \in Nat
  OBVIOUS
<1> HIDE DEF h, u
<1>4. Elements(t) = Elements(u) \cup {h}
  <2>1. \A i \in DOMAIN t : t[i] = h \/ t[i] \in Elements(u)
    BY <1>1, <1>2, <1>3 DEF Elements
  <2>2. h \in Elements(t)
    BY <1>1 DEF Elements
  <2>3. ASSUME NEW i \in DOMAIN u PROVE u[i] \in Elements(t)
    <3>1. i + 1 \in DOMAIN t /\ u[i] = t[i + 1]
      BY <1>2, <1>3
    <3> QED BY <3>1 DEF Elements
  <2> QED BY <2>1, <2>2, <2>3 DEF Elements
<1>5. Distinct(u) /\ h \notin Elements(u)
  <2>1. ASSUME NEW i \in DOMAIN u, NEW j \in DOMAIN u, u[i] = u[j] PROVE i = j
    <3>1. i + 1 = j + 1
      BY <1>2, <1>3, <2>1 DEF Distinct
    <3> QED BY <1>3, <3>1
  <2>2. ASSUME NEW i \in DOMAIN u, u[i] = h PROVE FALSE
    <3>0. i + 1 \in DOMAIN t /\ t[i + 1] = t[1]
      BY <1>1, <1>2, <1>3, <2>2
    <3>1. i + 1 = 1
      BY <1>1, <3>0 DEF Distinct
    <3> QED BY <1>3, <3>1
  <2> QED BY <2>1, <2>2 DEF Distinct, Elements
<1> QED BY <1>1, <1>4, <1>5 DEF h, u

\* A set in a sequence without repetition, all of it.
LEMMA Enumerated ==
  ASSUME NEW S, IsFiniteSet(S), NEW f \in [1..Cardinality(S) -> S], Distinct(f)
  PROVE  f \in Seq(S) /\ Elements(f) = S
<1>1. Cardinality(S) \in Nat
  BY FS_CardinalityType
<1>2. f \in Seq(S)
  BY <1>1
<1>3. f \in Injection(1..Cardinality(S), S)
  BY DEF Injection, IsInjective, Distinct
<1>4. Cardinality(1..Cardinality(S)) = Cardinality(S)
  BY <1>1, FS_Interval
<1>5. f \in Surjection(1..Cardinality(S), S)
  BY <1>3, <1>4, FS_Injection
<1>6. Elements(f) = S
  BY <1>5 DEF Surjection, Elements
<1> QED BY <1>2, <1>6

JobIDs(P) == (1..P.RunCount) \X (1..P.JobCount)

PollTypes(P) ==
  /\ Poll(P)!PollAssumption
  /\ run \in [1..P.RunCount -> {"pending", "queued", "in_progress", "completed"}]
  /\ job \in [JobIDs(P) -> {"queued", "in_progress", "completed"}]
  /\ ppc \in {"idle", "runs", "jobs", "done", "error"} /\ status \in 1..4 /\ page \in Nat
  /\ runIDs \in Seq(1..P.RunCount) /\ queued \in [JobIDs(P) -> 0..1] /\ steady \subseteq JobIDs(P)

\* The jobs of the runs found that are on pages not yet asked for.
ToAsk(P, j) == j[1] \in Elements(runIDs) /\ (j[1] = Head(runIDs) => (page - 1) * P.PageSize < j[2])

\* What was found of the jobs that stay queued, when every list of runs fits a page.
Covered(P) ==
  /\ ppc = "runs" => /\ page = 1
                     /\ \A j \in steady, i \in 1..3 :
                          i < status /\ run[j[1]] = <<"queued", "in_progress", "pending">>[i] => j[1] \in Elements(runIDs)
  /\ ppc = "jobs" => \A j \in steady : ToAsk(P, j) \/ queued[j] = 1
  /\ ppc = "done" => \A j \in steady : queued[j] = 1

PollInv(P) ==
  /\ PollTypes(P) /\ Distinct(runIDs)
  /\ \A j \in steady : job[j] = "queued" /\ run[j[1]] \in {"queued", "in_progress", "pending"}
  /\ ppc = "runs" => status < 4 /\ \A j \in JobIDs(P) : queued[j] = 0
  /\ ppc = "jobs" => \A j \in JobIDs(P) : ToAsk(P, j) => queued[j] = 0
  /\ P.PageSize >= P.RunCount => Covered(P)

LEMMA SizeOfInterval == ASSUME NEW n \in Nat PROVE IsFiniteSet(1..n) /\ Cardinality(1..n) = n
<1>1. IsFiniteSet(1..n) /\ Cardinality(1..n) = IF 1 > n THEN 0 ELSE n - 1 + 1
  BY FS_Interval
<1> QED BY <1>1

LEMMA PollOperators ==
  ASSUME NEW P
  PROVE  /\ \A S : Poll(P)!Cardinality(S) = Cardinality(S)
         /\ \A s : Poll(P)!Range(s) = Elements(s)
         /\ \A s : Poll(P)!IsInjective(s) <=> Distinct(s)
<1>1. \A S : Poll(P)!Cardinality(S) = Cardinality(S)
  BY DEF Poll!Cardinality, Cardinality, Poll!IsFiniteSet, IsFiniteSet
<1>2. \A s : Poll(P)!Range(s) = Elements(s)
  BY DEF Poll!Range, Elements
<1>3. \A s : Poll(P)!IsInjective(s) <=> Distinct(s)
  BY DEF Poll!IsInjective, Distinct
<1> QED BY <1>1, <1>2, <1>3

\* A page adds the runs of it that are not there, once.
LEMMA PageFinds ==
  ASSUME NEW P, PollInv(P), NEW R, R \subseteq 1..P.RunCount, NEW found,
         found \in Poll(P)!NewestFirst(Poll(P)!NotSeen(R))
  PROVE  /\ runIDs \o found \in Seq(1..P.RunCount) /\ Distinct(runIDs \o found)
         /\ Elements(runIDs \o found) = Elements(runIDs) \cup R
<1>1. PICK S : S = Poll(P)!NotSeen(R)
  OBVIOUS
<1>2. S = R \ Elements(runIDs)
  BY <1>1, PollOperators DEF Poll!NotSeen
<1>3. found \in [1..Cardinality(S) -> S] /\ Distinct(found)
  BY <1>1, PollOperators DEF Poll!NewestFirst, Poll!Injection
<1>4. IsFiniteSet(1..P.RunCount)
  BY SizeOfInterval DEF PollInv, PollTypes, Poll!PollAssumption
<1>5. IsFiniteSet(S) /\ S \subseteq 1..P.RunCount
  BY <1>2, <1>4, FS_Subset
<1>6. found \in Seq(S) /\ Elements(found) = S
  BY <1>3, <1>5, Enumerated
<1>7. found \in Seq(1..P.RunCount) /\ runIDs \in Seq(1..P.RunCount)
  <2>1. \A T : S \subseteq T => found \in Seq(T)
    BY <1>6
  <2> QED BY <1>5, <2>1 DEF PollInv, PollTypes
<1>8. Apart(runIDs, found)
  BY <1>2, <1>3, <1>6 DEF PollInv, Apart
<1>9. PICK s : s = runIDs
  OBVIOUS
<1>10. s \o found \in Seq(1..P.RunCount) /\ Elements(s \o found) = Elements(s) \cup Elements(found) /\ Distinct(s \o found)
  BY <1>7, <1>8, <1>9, ConcatElements, ConcatDistinct
<1> QED BY <1>2, <1>6, <1>9, <1>10

\* With no more runs than fit a page, the first page is the last and has all of them.
LEMMA OnePageSuffices ==
  ASSUME NEW P, PollTypes(P), P.PageSize >= P.RunCount, NEW s
  PROVE  Poll(P)!LastPage(s, 1) /\ Poll(P)!Page(s, 1) = Poll(P)!Listed(s)
<1>1. P.RunCount \in Nat /\ P.PageSize \in Nat
  BY DEF PollTypes, Poll!PollAssumption
<1>2. IsFiniteSet(1..P.RunCount) /\ Cardinality(1..P.RunCount) = P.RunCount
  BY <1>1, SizeOfInterval
<1>3. PICK L : L = Poll(P)!Listed(s)
  OBVIOUS
<1>4. L \in SUBSET (1..P.RunCount)
  BY <1>3 DEF Poll!Listed, Poll!Runs
<1>5. IsFiniteSet(L) /\ Cardinality(L) \in Nat /\ Cardinality(L) <= P.RunCount
  <2>1. IsFiniteSet(L) /\ Cardinality(L) <= Cardinality(1..P.RunCount)
    BY <1>2, <1>4, FS_Subset
  <2> QED BY <1>2, <2>1, FS_CardinalityType
<1>6. Poll(P)!LastPage(s, 1)
  BY <1>1, <1>3, <1>5, PollOperators DEF Poll!LastPage
<1>7. ASSUME NEW r \in L PROVE r \in Poll(P)!Page(s, 1)
  <2>1. PICK N : N = Poll(P)!Newer(r, s)
    OBVIOUS
  <2>2. N \in SUBSET L /\ r \notin N
    BY <1>1, <1>3, <1>4, <2>1 DEF Poll!Newer
  <2>3. IsFiniteSet(N) /\ Cardinality(N) \in Nat /\ Cardinality(N) <= Cardinality(L) /\ Cardinality(N) # Cardinality(L)
    BY <1>5, <1>7, <2>2, FS_Subset, FS_CardinalityType
  <2>4. (1 - 1) * P.PageSize = 0 /\ 1 * P.PageSize = P.PageSize
    BY <1>1
  <2>5. 0 <= Cardinality(N) /\ Cardinality(N) < P.PageSize
    BY <1>1, <1>5, <2>3
  <2> QED BY <1>3, <1>7, <2>1, <2>4, <2>5, PollOperators DEF Poll!Page
<1>8. Poll(P)!Page(s, 1) \subseteq L
  BY <1>3 DEF Poll!Page
<1> QED BY <1>3, <1>6, <1>7, <1>8

LEMMA PollNext == ASSUME NEW P PROVE PollInv(P) /\ [Poll(P)!Next]_(Poll(P)!vars) => PollInv(P)'
<1> SUFFICES ASSUME PollInv(P), [Poll(P)!Next]_(Poll(P)!vars) PROVE PollInv(P)'
  OBVIOUS
<1>t. /\ PollTypes(P) /\ Distinct(runIDs) /\ P.RunCount \in Nat /\ P.JobCount \in Nat
      /\ P.PageSize \in Nat /\ P.PageSize > 0
  BY DEF PollInv, PollTypes, Poll!PollAssumption
<1>e. Elements(<<>>) = {} /\ Distinct(<<>>)
  BY DEF Elements, Distinct
<1>j. /\ Poll(P)!Runs = 1..P.RunCount /\ Poll(P)!Jobs = JobIDs(P)
      /\ Poll(P)!Nothing = [j \in JobIDs(P) |-> 0] /\ Poll(P)!Nothing \in [JobIDs(P) -> 0..1]
  BY DEF Poll!Runs, Poll!Jobs, Poll!Nothing, JobIDs
<1>i. \A j \in JobIDs(P) : j[1] \in 1..P.RunCount /\ j[2] \in 1..P.JobCount
  BY DEF JobIDs
<1>1. CASE Poll(P)!StartPoll
  <2>1. PollTypes(P)'
    BY <1>1, <1>t, <1>j DEF Poll!StartPoll, Poll!github, PollTypes, Poll!PollAssumption
  <2>2. \A j \in steady' : job'[j] = "queued" /\ run'[j[1]] \in {"queued", "in_progress", "pending"}
    <3> SUFFICES ASSUME NEW j \in steady' PROVE job'[j] = "queued" /\ run'[j[1]] \in {"queued", "in_progress", "pending"}
      OBVIOUS
    <3>1. j \in JobIDs(P) /\ run[j[1]] # "completed" /\ job[j] = "queued" /\ UNCHANGED <<run, job>>
      BY <1>1, <1>j DEF Poll!StartPoll, Poll!github
    <3> QED BY <1>t, <1>i, <3>1 DEF PollTypes
  <2>3. ppc' = "runs" /\ status' = 1 /\ page' = 1 /\ runIDs' = <<>> /\ queued' = [j \in JobIDs(P) |-> 0]
    BY <1>1, <1>j DEF Poll!StartPoll
  <2> QED BY <1>e, <2>1, <2>2, <2>3 DEF PollInv, Covered
<1>2. CASE Poll(P)!ListRepositoryWorkflowRuns
  <2> DEFINE s == Poll(P)!Statuses[status]
             R == Poll(P)!Page(s, page)
  <2>1. /\ ppc = "runs" /\ status \in 1..3 /\ (\A j \in JobIDs(P) : queued[j] = 0)
        /\ UNCHANGED <<run, job, queued, steady>>
        /\ IF Poll(P)!LastPage(s, page) THEN status' = status + 1 /\ page' = 1 ELSE page' = page + 1 /\ status' = status
        /\ ppc' = IF status' > 3 THEN "jobs" ELSE "runs"
    BY <1>2, <1>t DEF Poll!ListRepositoryWorkflowRuns, Poll!Statuses, Poll!github, PollInv, PollTypes
  <2>2. R \subseteq 1..P.RunCount
    BY DEF Poll!Page, Poll!Listed, Poll!Runs
  <2>3. PICK found \in Poll(P)!NewestFirst(Poll(P)!NotSeen(R)) : runIDs' = runIDs \o found
    BY <1>2 DEF Poll!ListRepositoryWorkflowRuns
  <2>4. runIDs' \in Seq(1..P.RunCount) /\ Distinct(runIDs') /\ Elements(runIDs') = Elements(runIDs) \cup R
    <3> HIDE DEF R
    <3>1. PICK X : X = R
      OBVIOUS
    <3> QED BY <2>2, <2>3, <3>1, PageFinds
  <2>5. PollTypes(P)'
    BY <1>t, <2>1, <2>4 DEF PollTypes, Poll!PollAssumption
  <2>7. P.PageSize >= P.RunCount => Covered(P)'
    <3> SUFFICES ASSUME P.PageSize >= P.RunCount PROVE Covered(P)'
      OBVIOUS
    <3>1. page = 1 /\ \A j \in steady, i \in 1..3 :
            i < status /\ run[j[1]] = <<"queued", "in_progress", "pending">>[i] => j[1] \in Elements(runIDs)
      BY <2>1 DEF PollInv, Covered
    <3>2. PICK z : z = s
      OBVIOUS
    <3>3. Poll(P)!LastPage(z, 1) /\ Poll(P)!Page(z, 1) = Poll(P)!Listed(z)
      BY <1>t, OnePageSuffices
    <3>4. status' = status + 1 /\ page' = 1 /\ R = Poll(P)!Listed(z)
      BY <2>1, <3>1, <3>2, <3>3
    <3>5. \A j \in steady : run[j[1]] = z => j[1] \in R
      BY <1>t, <1>i, <1>j, <3>4 DEF Poll!Listed, PollTypes
    <3>6. z = <<"queued", "in_progress", "pending">>[status]
      BY <3>2 DEF Poll!Statuses
    <3>7. \A j \in steady, i \in 1..3 :
            i <= status /\ run[j[1]] = <<"queued", "in_progress", "pending">>[i] => j[1] \in Elements(runIDs')
      <4> SUFFICES ASSUME NEW j \in steady, NEW i \in 1..3, i <= status,
                          run[j[1]] = <<"queued", "in_progress", "pending">>[i]
                   PROVE  j[1] \in Elements(runIDs')
        OBVIOUS
      <4>1. CASE i < status
        BY <2>4, <3>1, <4>1
      <4>2. CASE i = status
        BY <2>4, <3>5, <3>6, <4>2
      <4> QED BY <2>1, <4>1, <4>2
    <3>8. CASE status < 3
      <4>1. ppc' = "runs" /\ \A i \in 1..3 : i < status' => i <= status
        BY <2>1, <3>4, <3>8
      <4> QED BY <2>1, <3>4, <3>7, <4>1 DEF Covered
    <3>9. CASE status = 3
      <4>1. ppc' = "jobs"
        BY <2>1, <3>4, <3>9
      <4>2. ASSUME NEW j \in steady PROVE ToAsk(P, j)'
        <5>1. \E i \in 1..3 : run[j[1]] = <<"queued", "in_progress", "pending">>[i]
          <6>1. run[j[1]] \in {"queued", "in_progress", "pending"}
            BY DEF PollInv
          <6> QED BY <6>1
        <5>2. j[1] \in Elements(runIDs')
          BY <3>7, <3>9, <5>1
        <5>3. (1 - 1) * P.PageSize < j[2]
          BY <1>t, <1>i DEF PollTypes
        <5> QED BY <3>4, <5>2, <5>3 DEF ToAsk
      <4> QED BY <2>1, <4>1, <4>2 DEF Covered
    <3> QED BY <2>1, <3>8, <3>9
  <2>8. ppc' = "runs" => status' < 4
    BY <2>1, <2>5 DEF PollTypes
  <2> HIDE DEF s, R
  <2> QED BY <2>1, <2>4, <2>5, <2>7, <2>8 DEF PollInv
<1>3. CASE Poll(P)!queuedJobsForRun
  <2>1. ppc = "jobs" /\ UNCHANGED <<run, job, status, steady>>
    BY <1>3 DEF Poll!queuedJobsForRun, Poll!github
  <2>2. CASE runIDs = <<>> /\ ppc' = "done" /\ UNCHANGED <<runIDs, page, queued>>
    <3>1. PollTypes(P)'
      BY <1>t, <2>1, <2>2 DEF PollTypes, Poll!PollAssumption
    <3>2. P.PageSize >= P.RunCount => Covered(P)'
      BY <1>e, <2>1, <2>2 DEF PollInv, Covered, ToAsk
    <3> QED BY <2>1, <2>2, <3>1, <3>2 DEF PollInv
  <2>3. CASE runIDs # <<>>
    <3> DEFINE asked(j) == j[1] = Head(runIDs) /\ Poll(P)!OnJobPage(j, page) /\ job[j] = "queued"
    <3>1. /\ ppc' = "jobs" /\ queued' = [j \in JobIDs(P) |-> IF asked(j) THEN queued[j] + 1 ELSE queued[j]]
          /\ IF Poll(P)!LastJobPage(page) THEN page' = 1 /\ runIDs' = Tail(runIDs)
                                         ELSE page' = page + 1 /\ runIDs' = runIDs
      BY <1>3, <1>j, <2>1, <2>3 DEF Poll!queuedJobsForRun
    <3>2. PICK B, E : B = (page - 1) * P.PageSize /\ E = page * P.PageSize
      OBVIOUS
    <3>3. B \in Int /\ E \in Int /\ B < E /\ (page + 1 - 1) * P.PageSize = E /\ (1 - 1) * P.PageSize = 0
      <4>1. \A a, b \in Int : (a - 1) * b = a * b - b /\ (a + 1 - 1) * b = a * b /\ a * b \in Int /\ (1 - 1) * b = 0
        OBVIOUS
      <4> QED BY <1>t, <3>2, <4>1 DEF PollTypes
    <3>4. \A j \in JobIDs(P) : asked(j) <=> j[1] = Head(runIDs) /\ B < j[2] /\ j[2] <= E /\ job[j] = "queued"
      BY <3>2 DEF Poll!OnJobPage
    <3>5. Poll(P)!LastJobPage(page) <=> E >= P.JobCount
      BY <3>2 DEF Poll!LastJobPage
    <3> HIDE DEF asked
    <3>l. /\ Poll(P)!LastJobPage(page) => (page' - 1) * P.PageSize = 0
          /\ ~Poll(P)!LastJobPage(page) => (page' - 1) * P.PageSize = E
      <4>1. CASE Poll(P)!LastJobPage(page)
        <5>1. page' = 1
          BY <3>1, <4>1
        <5> QED BY <3>3, <4>1, <5>1
      <4>2. CASE ~Poll(P)!LastJobPage(page)
        <5>1. page' = page + 1
          BY <3>1, <4>2
        <5>2. page' - 1 = page
          BY <1>t, <5>1 DEF PollTypes
        <5> QED BY <3>2, <4>2, <5>2
      <4> QED BY <4>1, <4>2
    <3>6. PICK t, h, u : t = runIDs /\ h = Head(t) /\ u = Tail(t)
      OBVIOUS
    <3>7. PICK S : S = 1..P.RunCount
      OBVIOUS
    <3>8. /\ h \in S /\ u \in Seq(S) /\ Distinct(u) /\ Elements(t) = Elements(u) \cup {h} /\ h \notin Elements(u)
      <4>1. t \in Seq(S) /\ t # <<>> /\ Distinct(t)
        BY <1>t, <2>3, <3>6, <3>7 DEF PollTypes
      <4> QED BY <3>6, <4>1, DropHead
    <3>9. \A j \in JobIDs(P) : asked(j) => queued[j] = 0
      <4> SUFFICES ASSUME NEW j \in JobIDs(P), asked(j) PROVE queued[j] = 0
        OBVIOUS
      <4>1. ToAsk(P, j)
        BY <3>2, <3>4, <3>6, <3>8 DEF ToAsk
      <4> QED BY <2>1, <4>1 DEF PollInv
    <3>10. queued' \in [JobIDs(P) -> 0..1] /\ \A j \in JobIDs(P) : queued'[j] = IF asked(j) THEN 1 ELSE queued[j]
      <4>1. ASSUME NEW j \in JobIDs(P)
            PROVE  queued'[j] = (IF asked(j) THEN 1 ELSE queued[j]) /\ queued'[j] \in 0..1
        <5>1. queued[j] \in 0..1
          BY <1>t DEF PollTypes
        <5>2. queued'[j] = IF asked(j) THEN queued[j] + 1 ELSE queued[j]
          BY <3>1
        <5> QED BY <3>9, <5>1, <5>2
      <4>2. queued' = [j \in JobIDs(P) |-> queued'[j]]
        BY <3>1
      <4> QED BY <4>1, <4>2
    <3>11. runIDs' \in Seq(1..P.RunCount) /\ Distinct(runIDs') /\ page' \in Nat
      <4>1. (page' = 1 /\ runIDs' = u) \/ (page' = page + 1 /\ runIDs' = runIDs)
        BY <3>1, <3>6
      <4> QED BY <1>t, <3>7, <3>8, <4>1 DEF PollTypes
    <3>12. PollTypes(P)'
      BY <1>t, <2>1, <3>1, <3>10, <3>11 DEF PollTypes, Poll!PollAssumption
    <3>13. ASSUME NEW j \in JobIDs(P), ToAsk(P, j)' PROVE ToAsk(P, j) /\ ~asked(j)
      <4>1. CASE Poll(P)!LastJobPage(page)
        <5>1. j[1] \in Elements(u)
          BY <3>1, <3>6, <3>13, <4>1 DEF ToAsk
        <5> QED BY <3>4, <3>6, <3>8, <5>1 DEF ToAsk
      <4>2. CASE ~Poll(P)!LastJobPage(page)
        <5>1. j[1] \in Elements(runIDs) /\ (j[1] = Head(runIDs) => E < j[2])
          BY <3>1, <3>l, <3>13, <4>2 DEF ToAsk
        <5>2. j[2] \in Int
          BY <1>i
        <5> QED BY <3>2, <3>3, <3>4, <5>1, <5>2 DEF ToAsk
      <4> QED BY <4>1, <4>2
    <3>14. \A j \in JobIDs(P) : ToAsk(P, j)' => queued'[j] = 0
      BY <2>1, <3>10, <3>13 DEF PollInv
    <3>15. ASSUME P.PageSize >= P.RunCount, NEW j \in steady PROVE ToAsk(P, j)' \/ queued'[j] = 1
      <4>1. /\ j \in JobIDs(P) /\ job[j] = "queued" /\ j[2] \in Int /\ j[2] > 0 /\ j[2] <= P.JobCount
            /\ ToAsk(P, j) \/ queued[j] = 1
        BY <1>t, <1>i, <2>1, <3>15 DEF PollInv, PollTypes, Covered
      <4>2. CASE queued[j] = 1
        BY <3>10, <4>1, <4>2
      <4>3. CASE ToAsk(P, j) /\ j[1] # h
        <5>1. j[1] \in Elements(u) /\ j[1] \in Elements(runIDs) /\ j[1] # Head(runIDs)
          BY <3>6, <3>8, <4>3 DEF ToAsk
        <5>2. CASE Poll(P)!LastJobPage(page)
          BY <3>1, <3>3, <3>6, <4>1, <5>1, <5>2 DEF ToAsk
        <5>3. CASE ~Poll(P)!LastJobPage(page)
          BY <3>1, <5>1, <5>3 DEF ToAsk
        <5> QED BY <5>2, <5>3
      <4>4. CASE ToAsk(P, j) /\ j[1] = h
        <5>1. B < j[2] /\ j[1] = Head(runIDs) /\ j[1] \in Elements(runIDs)
          BY <3>2, <3>6, <4>4 DEF ToAsk
        <5>2. CASE j[2] <= E
          BY <3>4, <3>10, <4>1, <5>1, <5>2
        <5>3. CASE ~(j[2] <= E)
          <6>1. ~Poll(P)!LastJobPage(page) /\ E < j[2]
            BY <1>t, <3>3, <3>5, <4>1, <5>3
          <6> QED BY <3>1, <3>l, <5>1, <6>1 DEF ToAsk
        <5> QED BY <5>2, <5>3
      <4> QED BY <4>1, <4>2, <4>3, <4>4
    <3>16. P.PageSize >= P.RunCount => Covered(P)'
      BY <2>1, <3>1, <3>15 DEF Covered
    <3> QED BY <2>1, <3>1, <3>11, <3>12, <3>14, <3>16 DEF PollInv
  <2> QED BY <1>3, <2>2, <2>3 DEF Poll!queuedJobsForRun
<1>4. CASE Poll(P)!RequestFails
  <2>1. ppc' = "error" /\ queued' = [j \in JobIDs(P) |-> 0] /\ UNCHANGED <<run, job, status, page, runIDs, steady>>
    BY <1>4, <1>j DEF Poll!RequestFails, Poll!github
  <2>2. PollTypes(P)'
    BY <1>t, <2>1 DEF PollTypes, Poll!PollAssumption
  <2> QED BY <1>t, <2>1, <2>2 DEF PollInv, Covered
<1>5. ASSUME NEW r \in Poll(P)!Runs, Poll(P)!RunMoves(r) PROVE PollInv(P)'
  <2>1. /\ steady' \subseteq steady /\ UNCHANGED <<job, ppc, status, page, runIDs, queued>>
        /\ \A j \in steady' : run'[j[1]] = run[j[1]]
    BY <1>5, <1>t, <1>i, <1>j DEF Poll!RunMoves, PollTypes
  <2>2. PollTypes(P)'
    BY <1>5, <1>t, <1>j, <2>1 DEF Poll!RunMoves, PollTypes, Poll!PollAssumption
  <2>3. P.PageSize >= P.RunCount => Covered(P)'
    BY <2>1 DEF PollInv, Covered, ToAsk
  <2> QED BY <1>t, <2>1, <2>2, <2>3 DEF PollInv, ToAsk
<1>6. ASSUME NEW j \in Poll(P)!Jobs, Poll(P)!JobMoves(j) PROVE PollInv(P)'
  <2>1. /\ steady' = steady \ {j} /\ UNCHANGED <<run, ppc, status, page, runIDs, queued>>
        /\ \A q \in steady' : job'[q] = job[q]
    BY <1>6, <1>t, <1>j DEF Poll!JobMoves, PollTypes
  <2>2. PollTypes(P)'
    BY <1>6, <1>t, <1>j, <2>1 DEF Poll!JobMoves, PollTypes, Poll!PollAssumption
  <2>3. P.PageSize >= P.RunCount => Covered(P)'
    BY <2>1 DEF PollInv, Covered, ToAsk
  <2> QED BY <1>t, <2>1, <2>2, <2>3 DEF PollInv, ToAsk
<1>7. CASE UNCHANGED Poll(P)!vars
  BY <1>7 DEF Poll!vars, PollInv, PollTypes, Poll!PollAssumption, Covered, ToAsk
<1> QED
  BY <1>1, <1>2, <1>3, <1>4, <1>5, <1>6, <1>7 DEF Poll!Next

LEMMA PollInitial == ASSUME NEW P, Poll(P)!PollAssumption PROVE Poll(P)!Init => PollInv(P)
<1> SUFFICES ASSUME Poll(P)!Init PROVE PollInv(P)
  OBVIOUS
<1>1. PollTypes(P)
  BY DEF Poll!Init, Poll!Runs, Poll!Jobs, Poll!Nothing, JobIDs, PollTypes
<1>2. Distinct(runIDs)
  BY DEF Poll!Init, Distinct
<1> QED BY <1>1, <1>2 DEF Poll!Init, PollInv, Covered

LEMMA PollGoal == ASSUME NEW P, PollInv(P) PROVE Poll(P)!JobsReportedOnce /\ Poll(P)!SteadyJobsAreFound
<1>1. Poll(P)!JobsReportedOnce
  <2>1. Poll(P)!Jobs = JobIDs(P)
    BY DEF Poll!Jobs, Poll!Runs, JobIDs
  <2>2. \A j \in JobIDs(P) : queued[j] \in 0..1
    BY DEF PollInv, PollTypes
  <2> QED BY <2>1, <2>2 DEF Poll!JobsReportedOnce
<1>2. Poll(P)!SteadyJobsAreFound
  BY DEF PollInv, Covered, Poll!SteadyJobsAreFound
<1> QED BY <1>1, <1>2

-----------------------------------------------------------------------------
(* ServiceSupervisor: the worker and its host. *)

\* Until a call fails or the host is killed, there is a worker process only where the host
\* watches it or stops it.
ServiceInv(P) ==
  /\ P.FaultBudget \in Nat
  /\ budget \in [faults : 0..P.FaultBudget, stops : Int]
  /\ budget.faults = P.FaultBudget => worker = "none" \/ host \in {"watch", "stopWorker"}

LEMMA ServiceNext == ASSUME NEW P PROVE ServiceInv(P) /\ [Service(P)!Next]_(Service(P)!vars) => ServiceInv(P)'
<1> SUFFICES ASSUME ServiceInv(P), [Service(P)!Next]_(Service(P)!vars) PROVE ServiceInv(P)'
  OBVIOUS
<1>a. Service(P)!Fault => budget' \in [faults : 0..P.FaultBudget, stops : Int] /\ budget'.faults < P.FaultBudget
  BY DEF Service!Fault, ServiceInv
<1>1. CASE Service(P)!OperatorStart
  BY <1>1 DEF Service!OperatorStart, Service!StartHost, ServiceInv
<1>2. CASE Service(P)!ManagerStart
  BY <1>2 DEF Service!ManagerStart, Service!StartHost, ServiceInv
<1>3. CASE Service(P)!Check
  BY <1>a, <1>3 DEF Service!Check, ServiceInv
<1>4. CASE Service(P)!Spawn
  BY <1>a, <1>4 DEF Service!Spawn, ServiceInv
<1>5. CASE Service(P)!Watch
  BY <1>5 DEF Service!Watch, ServiceInv
<1>6. CASE Service(P)!stopSupervisedProcess
  BY <1>a, <1>6 DEF Service!stopSupervisedProcess, ServiceInv
<1>7. CASE Service(P)!waitForServiceOutput
  BY <1>7 DEF Service!waitForServiceOutput, ServiceInv
<1>8. CASE Service(P)!fail
  BY <1>8 DEF Service!fail, ServiceInv
<1>9. CASE Service(P)!RecordRead
  BY <1>9 DEF Service!RecordRead, ServiceInv
<1>10. CASE Service(P)!RecordWrite
  BY <1>a, <1>10 DEF Service!RecordWrite, Service!Exits, ServiceInv
<1>11. CASE Service(P)!stopCrashLoop
  BY <1>11 DEF Service!stopCrashLoop, Service!Exits, ServiceInv
<1>12. CASE Service(P)!WorkerExits
  BY <1>12 DEF Service!WorkerExits, ServiceInv
<1>13. CASE Service(P)!Stop
  BY <1>13 DEF Service!Stop, ServiceInv
<1>14. CASE Service(P)!StopClear
  BY <1>a, <1>14 DEF Service!StopClear, ServiceInv
<1>15. CASE Service(P)!StopReturns
  BY <1>15 DEF Service!StopReturns, Service!TimeIsUp, Service!Exits, ServiceInv
<1>16. CASE Service(P)!HostCrash
  BY <1>a, <1>16 DEF Service!HostCrash, Service!Exits, ServiceInv
<1>17. CASE Service(P)!Tick
  BY <1>17 DEF Service!Tick, ServiceInv
<1>18. CASE UNCHANGED Service(P)!vars
  BY <1>18 DEF Service!vars, ServiceInv
<1> QED
  BY <1>1, <1>2, <1>3, <1>4, <1>5, <1>6, <1>7, <1>8, <1>9, <1>10, <1>11, <1>12, <1>13, <1>14, <1>15, <1>16,
     <1>17, <1>18 DEF Service!Next, Service!Host, Service!Stopper

LEMMA ServiceInitial == ASSUME NEW P, Service(P)!ServiceAssumption PROVE Service(P)!Init => ServiceInv(P)
BY DEF Service!ServiceAssumption, Service!Init, ServiceInv

LEMMA ServiceGoal == ASSUME NEW P, ServiceInv(P) PROVE Service(P)!ReturnedIsOver
BY DEF ServiceInv, Service!ReturnedIsOver

(* The recovery budget: starts against recorded failures. *)

Later(S, t) == {x \in S : x[1] > t}
IsTimes(S, n) == IsFiniteSet(S) /\ S \subseteq (0..n) \X Nat

LEMMA LaterIsFinite ==
  ASSUME NEW S, NEW t, IsFiniteSet(S)
  PROVE  IsFiniteSet(Later(S, t)) /\ Cardinality(Later(S, t)) \in Nat
BY FS_Subset, FS_CardinalityType DEF Later

LEMMA LaterShrinks ==
  ASSUME NEW S, NEW T, NEW t \in Int, NEW u \in Int, NEW n \in Nat, IsTimes(S, n), Later(T, t) \subseteq S, t >= u
  PROVE  Cardinality(Later(T, t)) <= Cardinality(Later(S, u))
<1>1. \A x \in S : x[1] \in Int
  BY DEF IsTimes
<1>2. Later(T, t) \in SUBSET Later(S, u)
  BY <1>1 DEF Later
<1> QED BY <1>2, LaterIsFinite, FS_Subset DEF IsTimes

LEMMA LaterOfMore ==
  ASSUME NEW S, NEW x, NEW t, IsFiniteSet(S), x \notin S
  PROVE  Cardinality(Later(S \cup {x}, t)) = Cardinality(Later(S, t)) + IF x[1] > t THEN 1 ELSE 0
<1>1. Later(S \cup {x}, t) = IF x[1] > t THEN Later(S, t) \cup {x} ELSE Later(S, t)
  BY DEF Later
<1>2. x \notin Later(S, t)
  BY DEF Later
<1>3. CASE x[1] > t
  BY <1>1, <1>2, <1>3, LaterIsFinite, FS_AddElement
<1>4. CASE ~(x[1] > t)
  BY <1>1, <1>4, LaterIsFinite
<1> QED BY <1>3, <1>4

LEMMA ServiceCounts == ASSUME NEW P PROVE \A S : Service(P)!Cardinality(S) = Cardinality(S)
BY DEF Service!Cardinality, Cardinality, Service!IsFiniteSet, IsFiniteSet

\* There is always a number for one more time.
LEMMA OneMoreTime ==
  ASSUME NEW P, NEW S, now \in Nat, IsTimes(S, now)
  PROVE  /\ IsTimes(Service(P)!Another(S), now)
         /\ \A t : Cardinality(Later(Service(P)!Another(S), t)) = Cardinality(Later(S, t)) + IF now > t THEN 1 ELSE 0
<1> DEFINE n == Cardinality(S)
<1>1. n \in Nat
  BY FS_CardinalityType DEF IsTimes
<1>2. \E k \in 0..n : <<now, k>> \notin S
  <2> SUFFICES ASSUME \A k \in 0..n : <<now, k>> \in S PROVE FALSE
    OBVIOUS
  <2> DEFINE f == [k \in 0..n |-> <<now, k>>]
  <2>1. f \in [0..n -> S]
    OBVIOUS
  <2>2. IsFiniteSet(0..n) /\ n < Cardinality(0..n)
    BY <1>1, FS_Interval
  <2>3. PICK j, k \in 0..n : j # k /\ f[j] = f[k]
    <3> HIDE DEF f
    <3> QED BY <2>1, <2>2, FS_PigeonHole DEF IsTimes
  <2> QED BY <2>3
<1>3. PICK j : j = CHOOSE k \in 0..Service(P)!Cardinality(S) : <<now, k>> \notin S
  OBVIOUS
<1>4. j \in 0..n /\ <<now, j>> \notin S
  BY <1>2, <1>3, ServiceCounts
<1>5. PICK x : x = <<now, j>>
  OBVIOUS
<1>6. x \notin S /\ x \in (0..now) \X Nat /\ x[1] = now
  BY <1>1, <1>4, <1>5
<1>a. Service(P)!Another(S) = S \cup {x}
  BY <1>3, <1>5, Zenon DEF Service!Another
<1>7. IsTimes(S \cup {x}, now)
  BY <1>6, FS_AddElement DEF IsTimes
<1>8. \A t : Cardinality(Later(S \cup {x}, t)) = Cardinality(Later(S, t)) + IF x[1] > t THEN 1 ELSE 0
  BY <1>6, LaterOfMore DEF IsTimes
<1> QED BY <1>6, <1>a, <1>7, <1>8

\* Where a start is that has no record yet, and where one is still to come.
Begun == {"watch", "stopWorker", "killed", "failed", "read", "write", "done"}
Unbegun == {"check", "spawn"}

\* A start that goes on will be recorded, or a stop has been counted for it.
Owed == CASE host \in Begun /\ stopper = "none" -> 1
          [] host \in Unbegun /\ stopper # "none" -> -1
          [] OTHER -> 0

RecoveryTypes(P) ==
  /\ Service(P)!ServiceAssumption /\ now \in Nat
  /\ host \in Begun \cup Unbegun \cup {"off", "exhausted"} /\ stopper \in {"none", "clear", "wait"}
  /\ budget \in [faults : 0..P.FaultBudget, stops : 0..P.StopBudget]
  /\ IsTimes(failures, now) /\ IsTimes(read, now) /\ IsTimes(starts, now)

\* In every window that is not over, starts have records, but for what is owed and unrecorded.
Ledger(P) ==
  \A t \in Int : t >= now - P.FailureWindow =>
    Cardinality(Later(starts, t)) <= Cardinality(Later(failures, t)) + Owed + Service(P)!Unrecorded

RecoveryInv(P) ==
  /\ RecoveryTypes(P) /\ Ledger(P)
  /\ stopper # "none" => budget.stops < P.StopBudget
  /\ mgr \in {"stopped", "delay"} => host = "off"
  /\ host = "write" => Later(failures, now - P.FailureWindow) \subseteq read
  /\ host = "spawn" => Cardinality(Later(failures, now - P.FailureWindow)) < P.CrashLoopFailureCount
  /\ Cardinality(Later(starts, now - P.FailureWindow)) <= P.CrashLoopFailureCount + Service(P)!Unrecorded

LEMMA RecoveryNumbers ==
  ASSUME NEW P, RecoveryTypes(P)
  PROVE  /\ Service(P)!Unrecorded \in Nat /\ Owed \in Int /\ now - P.FailureWindow \in Int
         /\ P.CrashLoopFailureCount \in Nat /\ P.CrashLoopFailureCount > 0
         /\ \A t : Cardinality(Later(starts, t)) \in Nat /\ Cardinality(Later(failures, t)) \in Nat
         /\ Service(P)!recentFailures(failures) = Later(failures, now - P.FailureWindow)
<1>1. Owed \in Int
  BY DEF Owed
<1>2. Service(P)!Unrecorded \in Nat /\ now - P.FailureWindow \in Int
      /\ P.CrashLoopFailureCount \in Nat /\ P.CrashLoopFailureCount > 0
  BY DEF RecoveryTypes, Service!ServiceAssumption, Service!Unrecorded
<1>3. \A t : Cardinality(Later(starts, t)) \in Nat /\ Cardinality(Later(failures, t)) \in Nat
  BY LaterIsFinite DEF RecoveryTypes, IsTimes
<1>4. Service(P)!recentFailures(failures) = Later(failures, now - P.FailureWindow)
  <2>1. \A x \in failures : x[1] <= now
    BY DEF RecoveryTypes, IsTimes
  <2> QED BY <2>1 DEF Service!recentFailures, Later
<1> QED BY <1>1, <1>2, <1>3, <1>4

\* A step that touches neither the file nor the starts, and pays for what it no longer owes.
Pays(P) ==
  /\ UNCHANGED <<failures, starts, now>>
  /\ host' \in Begun \cup Unbegun \cup {"off", "exhausted"} /\ stopper' \in {"none", "clear", "wait"}
  /\ budget' \in [faults : 0..P.FaultBudget, stops : 0..P.StopBudget]
  /\ Owed + Service(P)!Unrecorded <= Owed' + Service(P)!Unrecorded'
  /\ Service(P)!Unrecorded <= Service(P)!Unrecorded'
  /\ stopper' # "none" => budget'.stops < P.StopBudget
  /\ mgr' \in {"stopped", "delay"} => host' = "off"

LEMMA PayingStep ==
  ASSUME NEW P, RecoveryInv(P), Pays(P), IsTimes(read', now),
         host' = "write" => Later(failures, now - P.FailureWindow) \subseteq read',
         host' = "spawn" => Cardinality(Later(failures, now - P.FailureWindow)) < P.CrashLoopFailureCount
  PROVE  RecoveryInv(P)'
<1>1. RecoveryTypes(P)'
  BY DEF RecoveryInv, RecoveryTypes, Pays, Service!ServiceAssumption
<1>2. PICK a, b, c, d : a = Owed /\ b = Owed' /\ c = Service(P)!Unrecorded /\ d = Service(P)!Unrecorded'
  OBVIOUS
<1>3. a \in Int /\ c \in Nat /\ P.CrashLoopFailureCount \in Nat
      /\ \A t : Cardinality(Later(starts, t)) \in Nat /\ Cardinality(Later(failures, t)) \in Nat
  BY <1>2, RecoveryNumbers DEF RecoveryInv
<1>4. b \in Int /\ d \in Nat
  BY <1>1, <1>2 DEF Owed, RecoveryTypes, Service!ServiceAssumption, Service!Unrecorded
<1>5. a + c <= b + d /\ c <= d
  BY <1>2 DEF Pays
<1>6. \A t \in Int : t >= now - P.FailureWindow =>
        Cardinality(Later(starts, t)) <= Cardinality(Later(failures, t)) + b + d
  <2> SUFFICES ASSUME NEW t \in Int, t >= now - P.FailureWindow
               PROVE  Cardinality(Later(starts, t)) <= Cardinality(Later(failures, t)) + b + d
    OBVIOUS
  <2>1. Cardinality(Later(starts, t)) <= Cardinality(Later(failures, t)) + a + c
    BY <1>2 DEF RecoveryInv, Ledger
  <2>2. PICK x, y : x = Cardinality(Later(starts, t)) /\ y = Cardinality(Later(failures, t))
    OBVIOUS
  <2> QED BY <1>3, <1>4, <1>5, <2>1, <2>2
<1>7. Ledger(P)'
  BY <1>2, <1>6 DEF Ledger, Pays
<1>8. PICK x : x = Cardinality(Later(starts, now - P.FailureWindow))
  OBVIOUS
<1>9. x <= P.CrashLoopFailureCount + d
  <2>1. x \in Nat /\ x <= P.CrashLoopFailureCount + c
    BY <1>2, <1>3, <1>8 DEF RecoveryInv
  <2> QED BY <1>3, <1>4, <1>5, <2>1
<1>10. Cardinality(Later(starts', now' - P.FailureWindow)) <= P.CrashLoopFailureCount + Service(P)!Unrecorded'
  BY <1>2, <1>8, <1>9 DEF Pays
<1> QED BY <1>1, <1>7, <1>10 DEF RecoveryInv, Pays

\* The file and the starts are cleared.
LEMMA ClearingStep ==
  ASSUME NEW P, RecoveryInv(P), RecoveryTypes(P)', failures' = {}, starts' = {}, Owed' + Service(P)!Unrecorded' >= 0,
         stopper' # "none" => budget'.stops < P.StopBudget, mgr' \in {"stopped", "delay"} => host' = "off"
  PROVE  RecoveryInv(P)'
<1>1. \A t : Later({}, t) = {}
  BY DEF Later
<1>2. Cardinality({}) = 0
  BY FS_EmptySet
<1>3. PICK a, c : a = Owed' /\ c = Service(P)!Unrecorded'
  OBVIOUS
<1>4. a \in Int /\ c \in Nat /\ P.CrashLoopFailureCount \in Nat /\ P.CrashLoopFailureCount > 0 /\ a + c >= 0
  BY <1>3 DEF Owed, RecoveryTypes, Service!ServiceAssumption, Service!Unrecorded
<1>5. 0 <= 0 + a + c /\ 0 <= P.CrashLoopFailureCount + c
  BY <1>4
<1>6. Ledger(P)'
  BY <1>1, <1>2, <1>3, <1>5 DEF Ledger
<1>7. Cardinality(Later(starts', now' - P.FailureWindow)) <= P.CrashLoopFailureCount + Service(P)!Unrecorded'
  BY <1>1, <1>2, <1>3, <1>5
<1>8. Later(failures', now' - P.FailureWindow) = {}
  BY <1>1
<1> QED BY <1>2, <1>4, <1>6, <1>7, <1>8 DEF RecoveryInv

LEMMA RecoveryNext == ASSUME NEW P PROVE RecoveryInv(P) /\ [Service(P)!Next]_(Service(P)!vars) => RecoveryInv(P)'
<1> SUFFICES ASSUME RecoveryInv(P), [Service(P)!Next]_(Service(P)!vars) PROVE RecoveryInv(P)'
  OBVIOUS
<1> DEFINE start == now - P.FailureWindow
<1>t. RecoveryTypes(P) /\ P.FaultBudget \in Nat /\ P.StopBudget \in Nat
      /\ (stopper # "none" => budget.stops < P.StopBudget) /\ (mgr \in {"stopped", "delay"} => host = "off")
  BY DEF RecoveryInv, RecoveryTypes, Service!ServiceAssumption
<1>f. ASSUME Service(P)!Fault
      PROVE  /\ budget' \in [faults : 0..P.FaultBudget, stops : 0..P.StopBudget] /\ budget'.stops = budget.stops
             /\ Service(P)!Unrecorded' = Service(P)!Unrecorded + 1
  BY <1>t, <1>f DEF Service!Fault, RecoveryTypes, Service!Unrecorded
<1>s. ASSUME budget.stops > 0, budget' = [budget EXCEPT !.stops = @ - 1]
      PROVE  /\ budget' \in [faults : 0..P.FaultBudget, stops : 0..P.StopBudget] /\ budget'.stops < P.StopBudget
             /\ Service(P)!Unrecorded' = Service(P)!Unrecorded + 1
  BY <1>t, <1>s DEF RecoveryTypes, Service!Unrecorded
<1>u. ASSUME UNCHANGED budget
      PROVE  /\ budget' \in [faults : 0..P.FaultBudget, stops : 0..P.StopBudget] /\ budget'.stops = budget.stops
             /\ Service(P)!Unrecorded' = Service(P)!Unrecorded
  BY <1>t, <1>u DEF RecoveryTypes, Service!Unrecorded
<1>n. Service(P)!Unrecorded \in Nat /\ Owed \in Int
  BY <1>t, RecoveryNumbers
<1>r. IsTimes(read, now) /\ IsTimes({}, now)
  BY <1>t, FS_EmptySet DEF RecoveryTypes, IsTimes
<1> DEFINE Kept == /\ IsTimes(read', now) /\ (host' = "write" => Later(failures, start) \subseteq read')
                   /\ host' = "spawn" => Cardinality(Later(failures, start)) < P.CrashLoopFailureCount
<1>p. ASSUME Pays(P), Kept PROVE RecoveryInv(P)'
  BY <1>p, PayingStep
<1>h. IsTimes(Service(P)!recentFailures(failures), now)
  BY <1>t, FS_Subset DEF RecoveryTypes, IsTimes, Service!recentFailures
<1>k. /\ host = "write" => Later(failures, start) \subseteq read
      /\ host = "spawn" => Cardinality(Later(failures, start)) < P.CrashLoopFailureCount
  BY DEF RecoveryInv
<1>1. CASE Service(P)!OperatorStart
  <2>1. RecoveryTypes(P)' /\ Owed' = 0 /\ Service(P)!Unrecorded' = Service(P)!Unrecorded
    BY <1>1, <1>t, <1>u, <1>r DEF Service!OperatorStart, Service!StartHost, RecoveryTypes, Owed, Begun, Unbegun,
       Service!ServiceAssumption
  <2> QED BY <1>1, <1>n, <2>1, ClearingStep DEF Service!OperatorStart, Service!StartHost
<1>2. CASE Service(P)!ManagerStart
  <2>1. Pays(P)
    BY <1>2, <1>t, <1>s, <1>u, <1>n DEF Service!ManagerStart, Service!StartHost, Pays, Owed, Begun, Unbegun, RecoveryTypes
  <2>2. Kept
    BY <1>2, <1>r DEF Service!ManagerStart, Service!StartHost
  <2> QED BY <2>1, <2>2, <1>p
<1>3. CASE Service(P)!Check
  <2>1. Pays(P)
    BY <1>3, <1>t, <1>f, <1>u, <1>n DEF Service!Check, Pays, Owed, Begun, Unbegun, RecoveryTypes
  <2>2. Kept
    BY <1>3, <1>r, <1>t, RecoveryNumbers, ServiceCounts DEF Service!Check, Service!Exhausted
  <2> QED BY <2>1, <2>2, <1>p
<1>4. CASE Service(P)!Spawn
  <2>1. PICK U, V, o, n : /\ U = Service(P)!Unrecorded /\ V = Service(P)!Unrecorded' /\ n = Owed'
                          /\ o = Owed
    OBVIOUS
  <2>2. /\ budget' \in [faults : 0..P.FaultBudget, stops : 0..P.StopBudget] /\ budget'.stops = budget.stops
        /\ U \in Nat /\ V \in Nat /\ U <= V
    BY <1>4, <1>f, <1>u, <1>n, <2>1 DEF Service!Spawn
  <2>3. /\ host = "spawn" /\ host' \in {"watch", "failed"} /\ starts' = Service(P)!Another(starts)
        /\ UNCHANGED <<mgr, stopper, failures, read, now>>
    BY <1>4 DEF Service!Spawn
  <2>4. RecoveryTypes(P)'
    BY <1>t, <2>2, <2>3, OneMoreTime DEF RecoveryTypes, Begun, Service!ServiceAssumption
  <2>5. o \in Int /\ o <= 0 /\ n = o + 1
    BY <1>t, <2>1, <2>3 DEF Owed, Begun, Unbegun, RecoveryTypes
  <2>6. \A t : /\ Cardinality(Later(starts, t)) \in Nat /\ Cardinality(Later(failures, t)) \in Nat
               /\ Cardinality(Later(starts', t)) <= Cardinality(Later(starts, t)) + 1
    BY <1>t, <2>3, OneMoreTime, RecoveryNumbers DEF RecoveryTypes
  <2>7. Ledger(P)'
    <3> SUFFICES ASSUME NEW t \in Int, t >= start
                 PROVE  Cardinality(Later(starts', t)) <= Cardinality(Later(failures, t)) + n + V
      BY <2>1, <2>3 DEF Ledger
    <3>1. PICK x, y, z : x = Cardinality(Later(starts, t)) /\ y = Cardinality(Later(starts', t))
                         /\ z = Cardinality(Later(failures, t))
      OBVIOUS
    <3>2. x \in Nat /\ z \in Nat /\ y <= x + 1
      BY <2>6, <3>1
    <3>y. y \in Nat
      BY <2>4, <3>1, LaterIsFinite DEF RecoveryTypes, IsTimes
    <3>3. x <= z + o + U
      BY <2>1, <3>1 DEF RecoveryInv, Ledger
    <3> QED BY <2>2, <2>5, <3>1, <3>2, <3>y, <3>3
  <2>8. Cardinality(Later(starts', start)) <= P.CrashLoopFailureCount + V
    <3>1. PICK x, y, z : x = Cardinality(Later(starts, start)) /\ y = Cardinality(Later(starts', start))
                         /\ z = Cardinality(Later(failures, start))
      OBVIOUS
    <3>2. x \in Nat /\ z \in Nat /\ y <= x + 1
      BY <2>6, <3>1
    <3>y. y \in Nat
      BY <2>4, <3>1, LaterIsFinite DEF RecoveryTypes, IsTimes
    <3>3. x <= z + o + U
      BY <1>t, <2>1, <3>1, RecoveryNumbers DEF RecoveryInv, Ledger
    <3>4. z < P.CrashLoopFailureCount /\ P.CrashLoopFailureCount \in Nat
      BY <1>t, <1>k, <2>3, <3>1, RecoveryNumbers
    <3> QED BY <2>2, <2>5, <3>1, <3>2, <3>y, <3>3, <3>4
  <2> QED BY <1>t, <2>1, <2>2, <2>3, <2>4, <2>7, <2>8 DEF RecoveryInv
<1>5. CASE Service(P)!Watch
  <2>1. Pays(P)
    BY <1>5, <1>t, <1>u, <1>n DEF Service!Watch, Pays, Owed, Begun, Unbegun, RecoveryTypes
  <2>2. Kept
    BY <1>5, <1>r DEF Service!Watch
  <2> QED BY <2>1, <2>2, <1>p
<1>6. CASE Service(P)!stopSupervisedProcess
  <2>1. Pays(P)
    BY <1>6, <1>t, <1>f, <1>u, <1>n DEF Service!stopSupervisedProcess, Pays, Owed, Begun, Unbegun, RecoveryTypes
  <2>2. Kept
    BY <1>6, <1>r DEF Service!stopSupervisedProcess
  <2> QED BY <2>1, <2>2, <1>p
<1>7. CASE Service(P)!waitForServiceOutput
  <2>1. Pays(P)
    BY <1>7, <1>t, <1>u, <1>n DEF Service!waitForServiceOutput, Pays, Owed, Begun, Unbegun, RecoveryTypes
  <2>2. Kept
    BY <1>7, <1>r DEF Service!waitForServiceOutput
  <2> QED BY <2>1, <2>2, <1>p
<1>8. CASE Service(P)!fail
  <2>1. Pays(P)
    BY <1>8, <1>t, <1>u, <1>n DEF Service!fail, Service!FailureCounts, Pays, Owed, Begun, Unbegun, RecoveryTypes
  <2>2. Kept
    BY <1>8, <1>r DEF Service!fail
  <2> QED BY <2>1, <2>2, <1>p
<1>9. CASE Service(P)!RecordRead
  <2>1. Pays(P)
    BY <1>9, <1>t, <1>u, <1>n DEF Service!RecordRead, Pays, Owed, Begun, Unbegun, RecoveryTypes
  <2>2. Kept
    BY <1>9, <1>r, <1>t, <1>h, RecoveryNumbers DEF Service!RecordRead
  <2> QED BY <2>1, <2>2, <1>p
<1>10. CASE Service(P)!RecordWrite
  <2>1. CASE failures' = Service(P)!Another(read) /\ UNCHANGED budget
    <3>1. PICK U, o, n : U = Service(P)!Unrecorded /\ o = Owed /\ n = Owed'
      OBVIOUS
    <3>2. /\ host = "write" /\ host' = "off" /\ stopper' = "none" /\ UNCHANGED <<read, now, starts>>
      BY <1>10 DEF Service!RecordWrite, Service!Exits
    <3>3. RecoveryTypes(P)'
      BY <1>t, <1>u, <2>1, <3>2, OneMoreTime DEF RecoveryTypes, Service!ServiceAssumption
    <3>4. U \in Nat /\ o \in Int /\ o <= 1 /\ n = 0 /\ Service(P)!Unrecorded' = U
      BY <1>t, <1>n, <1>u, <2>1, <3>1, <3>2 DEF Owed, Begun, Unbegun, RecoveryTypes
    <3>5. Ledger(P)'
      <4> SUFFICES ASSUME NEW t \in Int, t >= start
                   PROVE  Cardinality(Later(starts, t)) <= Cardinality(Later(failures', t)) + n + U
        BY <3>1, <3>2, <3>4 DEF Ledger
      <4>1. PICK x, y, z, r : /\ x = Cardinality(Later(starts, t)) /\ y = Cardinality(Later(failures', t))
                              /\ z = Cardinality(Later(failures, t)) /\ r = Cardinality(Later(read, t))
        OBVIOUS
      <4>2. x \in Nat /\ z \in Nat /\ r \in Nat /\ y = r + IF now > t THEN 1 ELSE 0
        BY <1>t, <2>1, <4>1, OneMoreTime, RecoveryNumbers, LaterIsFinite DEF RecoveryTypes, IsTimes
      <4>3. z <= r
        <5>1. Later(failures, t) \subseteq read
          <6>1. start \in Int /\ \A f \in failures : f[1] \in Int
            BY <1>t, RecoveryNumbers DEF RecoveryTypes, IsTimes
          <6>2. Later(failures, start) \subseteq read
            BY <1>k, <3>2
          <6> QED BY <6>1, <6>2 DEF Later
        <5> QED BY <1>t, <4>1, <5>1, LaterShrinks DEF RecoveryTypes
      <4>4. x <= z + o + U
        BY <3>1, <4>1 DEF RecoveryInv, Ledger
      <4>5. CASE now > t
        BY <3>4, <4>1, <4>2, <4>3, <4>4, <4>5
      <4>6. CASE ~(now > t)
        <5>1. Later(starts, t) = {}
          BY <1>t, <4>6 DEF RecoveryTypes, IsTimes, Later
        <5>2. x = 0
          BY <4>1, <5>1, FS_EmptySet
        <5> QED BY <3>4, <4>1, <4>2, <5>2
      <4> QED BY <4>5, <4>6
    <3>6. Cardinality(Later(starts, start)) <= P.CrashLoopFailureCount + U
      BY <3>1 DEF RecoveryInv
    <3> QED BY <3>1, <3>2, <3>3, <3>4, <3>5, <3>6 DEF RecoveryInv
  <2>2. CASE Service(P)!Fault /\ UNCHANGED failures
    <3>1. Pays(P)
      BY <1>10, <2>2, <1>t, <1>f, <1>n DEF Service!RecordWrite, Service!Exits, Pays, Owed, Begun, Unbegun, RecoveryTypes
    <3>2. Kept
      BY <1>10, <1>r DEF Service!RecordWrite, Service!Exits
    <3> QED BY <3>1, <3>2, <1>p
  <2> QED BY <1>10, <2>1, <2>2 DEF Service!RecordWrite
<1>11. CASE Service(P)!stopCrashLoop
  <2>1. Pays(P)
    BY <1>11, <1>t, <1>u, <1>n DEF Service!stopCrashLoop, Service!Exits, Pays, Owed, Begun, Unbegun, RecoveryTypes
  <2>2. Kept
    BY <1>11, <1>r DEF Service!stopCrashLoop, Service!Exits
  <2> QED BY <2>1, <2>2, <1>p
<1>12. CASE Service(P)!WorkerExits
  <2>1. Pays(P)
    BY <1>12, <1>t, <1>u, <1>n DEF Service!WorkerExits, Pays, Owed, Begun, Unbegun, RecoveryTypes
  <2>2. Kept
    BY <1>12, <1>r, <1>k DEF Service!WorkerExits
  <2> QED BY <2>1, <2>2, <1>p
<1>13. CASE Service(P)!Stop
  <2>1. Pays(P)
    BY <1>13, <1>t, <1>s, <1>n DEF Service!Stop, Pays, Owed, Begun, Unbegun, RecoveryTypes
  <2>2. Kept
    BY <1>13, <1>r, <1>k DEF Service!Stop
  <2> QED BY <2>1, <2>2, <1>p
<1>14. CASE Service(P)!StopClear
  <2>1. CASE failures' = {} /\ starts' = {} /\ UNCHANGED budget
    <3>1. RecoveryTypes(P)'
      BY <1>14, <2>1, <1>t, <1>u, <1>r DEF Service!StopClear, RecoveryTypes, Service!ServiceAssumption
    <3>2. Service(P)!Unrecorded' = Service(P)!Unrecorded /\ Service(P)!Unrecorded > 0
      BY <1>14, <2>1, <1>t, <1>u DEF Service!StopClear, RecoveryTypes, Service!Unrecorded
    <3>3. Owed' \in {0, -1}
      BY <1>14 DEF Service!StopClear, Owed
    <3> QED BY <1>14, <1>t, <1>n, <2>1, <3>1, <3>2, <3>3, ClearingStep DEF Service!StopClear
  <2>2. CASE Service(P)!Fault /\ UNCHANGED <<failures, starts>>
    <3>1. Pays(P)
      BY <1>14, <2>2, <1>t, <1>f, <1>n DEF Service!StopClear, Pays, Owed, Begun, Unbegun, RecoveryTypes
    <3>2. Kept
      BY <1>14, <1>r, <1>k DEF Service!StopClear
    <3> QED BY <3>1, <3>2, <1>p
  <2> QED BY <1>14, <2>1, <2>2 DEF Service!StopClear
<1>15. CASE Service(P)!StopReturns
  <2>1. Pays(P)
    BY <1>15, <1>t, <1>u, <1>n DEF Service!StopReturns, Service!TimeIsUp, Service!Exits, Pays, Owed, Begun, Unbegun, RecoveryTypes
  <2>2. Kept
    BY <1>15, <1>r DEF Service!StopReturns, Service!Exits
  <2> QED BY <2>1, <2>2, <1>p
<1>16. CASE Service(P)!HostCrash
  <2>1. Pays(P)
    BY <1>16, <1>t, <1>f, <1>n DEF Service!HostCrash, Service!Exits, Pays, Owed, Begun, Unbegun, RecoveryTypes
  <2>2. Kept
    BY <1>16, <1>r DEF Service!HostCrash, Service!Exits
  <2> QED BY <2>1, <2>2, <1>p
<1>17. CASE Service(P)!Tick
  <2>1. /\ now' = now + 1 /\ UNCHANGED <<mgr, host, stopper, failures, read, budget, starts>>
    BY <1>17 DEF Service!Tick
  <2>2. start \in Int /\ now' - P.FailureWindow \in Int /\ now' - P.FailureWindow >= start
    BY <1>t, <2>1 DEF RecoveryTypes, Service!ServiceAssumption
  <2>3. /\ Owed' = Owed /\ Service(P)!Unrecorded' = Service(P)!Unrecorded
    BY <2>1, <1>u DEF Owed
  <2>4. \A S : IsTimes(S, now) => IsTimes(S, now')
    BY <1>t, <2>1 DEF RecoveryTypes, IsTimes
  <2>5. RecoveryTypes(P)'
    BY <1>t, <2>1, <2>4 DEF RecoveryTypes, Service!ServiceAssumption
  <2>6. Ledger(P)'
    <3> SUFFICES ASSUME NEW t \in Int, t >= now' - P.FailureWindow
                 PROVE  Cardinality(Later(starts, t)) <= Cardinality(Later(failures, t)) + Owed + Service(P)!Unrecorded
      BY <2>1, <2>3 DEF Ledger
    <3>1. t >= start
      BY <2>2
    <3> QED BY <3>1 DEF RecoveryInv, Ledger
  <2>7. /\ \A S : IsTimes(S, now) => Later(S, now' - P.FailureWindow) \subseteq Later(S, start)
        /\ \A S : IsTimes(S, now) =>
             Cardinality(Later(S, now' - P.FailureWindow)) <= Cardinality(Later(S, start))
    <3> SUFFICES ASSUME NEW S, IsTimes(S, now)
                 PROVE  /\ Later(S, now' - P.FailureWindow) \subseteq Later(S, start)
                        /\ Cardinality(Later(S, now' - P.FailureWindow)) <= Cardinality(Later(S, start))
      OBVIOUS
    <3>1. PICK u : u = now' - P.FailureWindow
      OBVIOUS
    <3>2. u \in Int /\ u >= start
      BY <2>2, <3>1
    <3>3. Later(S, u) \subseteq Later(S, start) /\ Later(S, u) \subseteq S
      BY <2>2, <3>2 DEF Later, IsTimes
    <3>4. Cardinality(Later(S, u)) <= Cardinality(Later(S, start))
      BY <1>t, <2>2, <3>2, <3>3, LaterShrinks DEF RecoveryTypes
    <3> QED BY <3>1, <3>3, <3>4
  <2>8. Cardinality(Later(starts, now' - P.FailureWindow)) <= P.CrashLoopFailureCount + Service(P)!Unrecorded
    <3>1. PICK x, y : x = Cardinality(Later(starts, now' - P.FailureWindow)) /\ y = Cardinality(Later(starts, start))
      OBVIOUS
    <3>2. x \in Nat /\ y \in Nat /\ x <= y
      BY <1>t, <2>7, <3>1, LaterIsFinite DEF RecoveryTypes, IsTimes
    <3>3. y <= P.CrashLoopFailureCount + Service(P)!Unrecorded /\ P.CrashLoopFailureCount \in Nat
      BY <1>t, <3>1, RecoveryNumbers DEF RecoveryInv
    <3> QED BY <1>n, <3>1, <3>2, <3>3
  <2>9. host = "spawn" => Cardinality(Later(failures, now' - P.FailureWindow)) < P.CrashLoopFailureCount
    <3> SUFFICES ASSUME host = "spawn"
                 PROVE  Cardinality(Later(failures, now' - P.FailureWindow)) < P.CrashLoopFailureCount
      OBVIOUS
    <3>1. PICK x, y : x = Cardinality(Later(failures, now' - P.FailureWindow)) /\ y = Cardinality(Later(failures, start))
      OBVIOUS
    <3>2. x \in Nat /\ y \in Nat /\ x <= y
      BY <1>t, <2>7, <3>1, LaterIsFinite DEF RecoveryTypes, IsTimes
    <3>3. y < P.CrashLoopFailureCount /\ P.CrashLoopFailureCount \in Nat
      BY <1>t, <1>k, <3>1, RecoveryNumbers
    <3> QED BY <3>1, <3>2, <3>3
  <2>10. host = "write" => Later(failures, now' - P.FailureWindow) \subseteq read
    BY <1>t, <1>k, <2>7 DEF RecoveryTypes
  <2> QED BY <1>t, <2>1, <2>3, <2>5, <2>6, <2>8, <2>9, <2>10 DEF RecoveryInv
<1>18. CASE UNCHANGED Service(P)!vars
  <2>1. UNCHANGED <<mgr, host, stopper, failures, read, now, budget, starts>>
    BY <1>18 DEF Service!vars
  <2>2. Pays(P)
    BY <2>1, <1>t, <1>u, <1>n DEF Pays, Owed, RecoveryTypes
  <2>3. Kept
    BY <2>1, <1>r, <1>k
  <2> QED BY <2>2, <2>3, <1>p
<1> QED
  BY <1>1, <1>2, <1>3, <1>4, <1>5, <1>6, <1>7, <1>8, <1>9, <1>10, <1>11, <1>12, <1>13, <1>14, <1>15, <1>16,
     <1>17, <1>18 DEF Service!Next, Service!Host, Service!Stopper

LEMMA RecoveryInitial == ASSUME NEW P, Service(P)!ServiceAssumption PROVE Service(P)!Init => RecoveryInv(P)
<1> SUFFICES ASSUME Service(P)!Init PROVE RecoveryInv(P)
  OBVIOUS
<1>1. RecoveryTypes(P)
  BY FS_EmptySet DEF RecoveryTypes, IsTimes, Service!Init, Service!ServiceAssumption
<1>2. Later(failures, now - P.FailureWindow) = {} /\ (\A t : Later(starts, t) = {} /\ Later(failures, t) = {})
  BY DEF Later, Service!Init
<1>3. Cardinality({}) = 0
  BY FS_EmptySet
<1>4. Owed = 0 /\ Service(P)!Unrecorded = 0 /\ P.CrashLoopFailureCount \in Nat
  BY DEF Owed, Begun, Unbegun, Service!Unrecorded, Service!Init, Service!ServiceAssumption
<1>5. Ledger(P)
  <2>1. \A t : Cardinality(Later(starts, t)) = 0 /\ Cardinality(Later(failures, t)) = 0
    BY <1>2, <1>3
  <2> QED BY <1>4, <2>1 DEF Ledger
<1>6. Cardinality(Later(starts, now - P.FailureWindow)) <= P.CrashLoopFailureCount + Service(P)!Unrecorded
  BY <1>2, <1>3, <1>4
<1> QED BY <1>1, <1>5, <1>6 DEF RecoveryInv, Service!Init

LEMMA RecoveryGoal == ASSUME NEW P, RecoveryInv(P) PROVE Service(P)!RecoveryIsBounded
<1>1. Service(P)!Recent(starts) = Later(starts, now - P.FailureWindow)
  BY DEF Service!Recent, Later
<1> QED BY <1>1, ServiceCounts DEF RecoveryInv, Service!RecoveryIsBounded

-----------------------------------------------------------------------------
(* The orchestrator: the component at work keeps its invariant, and the others do not move. *)

PoolsSafe == \A i \in DOMAIN PoolSetups : at = <<"pool", i>> => PoolInv(PoolSetups[i])
ScalersSafe == \A i \in DOMAIN ScalerSetups : at = <<"scaler", i>> => ScalerInv(ScalerSetups[i])
PollsSafe == \A i \in DOMAIN PollSetups : at = <<"poll", i>> => PollInv(PollSetups[i])
SessionsSafe == \A i \in DOMAIN SessionSetups : at = <<"session", i>> => SupervisorInv(SessionSetups[i])
ServicesSafe == \A i \in DOMAIN ServiceSetups : at = <<"service", i>> => ServiceInv(ServiceSetups[i]) /\ RecoveryInv(ServiceSetups[i])
OrchestratorInv == PoolsSafe /\ ScalersSafe /\ PollsSafe /\ SessionsSafe /\ ServicesSafe

\* Who moves: a step is one of the component at work, under its setup.
Stays == at' = at
LEMMA OneMoves ==
  ASSUME [Next]_vars
  PROVE  /\ Stays
         /\ \A i \in DOMAIN PoolSetups : at = <<"pool", i>> => [Pool(PoolSetups[i])!Next]_(Pool(PoolSetups[i])!vars)
         /\ \A i \in DOMAIN ScalerSetups :
              at = <<"scaler", i>> => [Scaler(ScalerSetups[i])!Next]_(Scaler(ScalerSetups[i])!vars)
         /\ \A i \in DOMAIN PollSetups : at = <<"poll", i>> => [Poll(PollSetups[i])!Next]_(Poll(PollSetups[i])!vars)
         /\ \A i \in DOMAIN SessionSetups :
              at = <<"session", i>> => [Session(SessionSetups[i])!Next]_(Session(SessionSetups[i])!vars)
         /\ \A i \in DOMAIN ServiceSetups :
              at = <<"service", i>> => [Service(ServiceSetups[i])!Next]_(Service(ServiceSetups[i])!vars)
<1>1. CASE UNCHANGED vars
  <2>1. UNCHANGED <<at, shared, instOwn, poolOwn, scaleOwn, pollOwn, sessionOwn, serviceOwn>>
    BY <1>1 DEF vars
  <2>2. \A P : UNCHANGED Pool(P)!vars /\ UNCHANGED Scaler(P)!vars
    BY <2>1 DEF shared, instOwn, poolOwn, scaleOwn, Pool!vars, Pool!instanceVars, Pool!poolVars,
                Scaler!vars, Scaler!instanceVars, Scaler!scaleVars, Scaler!demandVars, Scaler!pollVars
  <2>3. \A P : UNCHANGED Session(P)!vars /\ UNCHANGED Service(P)!vars
    BY <2>1 DEF shared, sessionOwn, serviceOwn, Session!vars, Service!vars
  <2>4. \A P : UNCHANGED Poll(P)!vars
    BY <2>1 DEF shared, pollOwn, Poll!vars
  <2> QED BY <2>1, <2>2, <2>3, <2>4 DEF Stays
<1>2. CASE Next
  BY <1>2 DEF Next, Stays, notPool, notScale, notPoll, notSession, notService
<1> QED BY <1>1, <1>2

LEMMA OrchestratorInitial == ASSUME OrchestratorAssumption, Init PROVE OrchestratorInv
<1>1. PoolsSafe
  BY PoolInitial DEF Init, OrchestratorAssumption, PoolsSafe
<1>2. ScalersSafe
  BY ScalerInitial DEF Init, OrchestratorAssumption, ScalersSafe
<1>3. SessionsSafe
  BY SupervisorInitial DEF Init, OrchestratorAssumption, SessionsSafe
<1>5. PollsSafe
  BY PollInitial DEF Init, OrchestratorAssumption, PollsSafe
<1>4. ServicesSafe
  BY ServiceInitial, RecoveryInitial DEF Init, OrchestratorAssumption, ServicesSafe
<1> QED BY <1>1, <1>2, <1>3, <1>4, <1>5 DEF OrchestratorInv

LEMMA OrchestratorStep == ASSUME OrchestratorInv, [Next]_vars PROVE OrchestratorInv'
<1>0. Stays
  BY OneMoves
<1>1. PoolsSafe'
  BY <1>0, OneMoves, PoolNext DEF OrchestratorInv, PoolsSafe, Stays
<1>2. ScalersSafe'
  BY <1>0, OneMoves, ScalerNext DEF OrchestratorInv, ScalersSafe, Stays
<1>3. SessionsSafe'
  BY <1>0, OneMoves, SupervisorNext DEF OrchestratorInv, SessionsSafe, Stays
<1>5. PollsSafe'
  BY <1>0, OneMoves, PollNext DEF OrchestratorInv, PollsSafe, Stays
<1>4. ServicesSafe'
  BY <1>0, OneMoves, ServiceNext, RecoveryNext DEF OrchestratorInv, ServicesSafe, Stays
<1> QED BY <1>1, <1>2, <1>3, <1>4, <1>5 DEF OrchestratorInv

LEMMA OrchestratorInvariance == ASSUME OrchestratorAssumption PROVE Spec => []OrchestratorInv
BY OrchestratorInitial, OrchestratorStep, PTL DEF Spec

\* What a run of RunOnce leaves behind has a reason, in a pool and under the autoscaler: an
\* instance only after a failed kill, a registration only when the answer to its creation was
\* lost, its removal failed or a failed kill left its fate to GitHub; and a job is severed only
\* after GitHub called its runner idle (RunOnce, reclaimAfterFailedKill), whatever fails and
\* whenever it is cancelled.
THEOREM RunsAlwaysCleanUp == ASSUME OrchestratorAssumption PROVE Spec => []RunsCleanUp
<1>1. OrchestratorInv => RunsCleanUp
  BY PoolGoal, ScalerGoal DEF OrchestratorInv, PoolsSafe, ScalersSafe, RunsCleanUp
<1> QED BY <1>1, OrchestratorInvariance, PTL

\* A pool bound to a repository and a workflow is launched only for a job of them, and no pool
\* for a repository that is not managed, whatever a delivery leaves out and however old the list
\* of a poll is (Allows, OnQueued, ResolveQueuedJob, reconcile).
THEOREM LaunchesStayAuthorised == ASSUME OrchestratorAssumption PROVE Spec => []LaunchesAreAuthorised
<1>1. OrchestratorInv => LaunchesAreAuthorised
  BY ScalerGoal DEF OrchestratorInv, ScalersSafe, LaunchesAreAuthorised
<1> QED BY <1>1, OrchestratorInvariance, PTL

\* A poll reports no job twice, whatever runs change their status between its lists and however
\* the pages shift, and one whose lists fit a page has every job that was queued throughout
\* (seen, the statuses and queuedJobsForRun in QueuedWorkflowJobs).
THEOREM PollsStayExact == ASSUME OrchestratorAssumption PROVE Spec => []PollsAreExact
<1>1. OrchestratorInv => PollsAreExact
  BY PollGoal DEF OrchestratorInv, PollsSafe, PollsAreExact
<1> QED BY <1>1, OrchestratorInvariance, PTL

\* What returns is over. Manager.Run returns only when every slot is over, returns nil only after
\* a stop, and then leaves nothing behind that no failed call explains. RunSupervised returns only
\* when no launcher works and no session is held, and nil only after a stop. No worker process
\* runs without its host, unless a call failed or the host was killed: the deadline of
\* program.Stop lets the host end the worker first (stopSupervisedProcess).
THEOREM WhatReturnsIsOver == ASSUME OrchestratorAssumption PROVE Spec => []ReturnedIsOver
<1>1. OrchestratorInv => ReturnedIsOver
  BY PoolGoal, SupervisorGoal, ServiceGoal DEF OrchestratorInv, PoolsSafe, SessionsSafe, ServicesSafe, ReturnedIsOver
<1> QED BY <1>1, OrchestratorInvariance, PTL

\* /health tells the truth: a session reported available, with nobody asking for a stop, listens on
\* the message session that GitHub gave it, or is just closing it, for a scale set with the
\* configured labels and a launcher at work (reportSessionState in openSession and superviseSession).
THEOREM HealthIsTrue == ASSUME OrchestratorAssumption PROVE Spec => []HealthTellsTruth
<1>1. OrchestratorInv => HealthTellsTruth
  BY SupervisorGoal DEF OrchestratorInv, SessionsSafe, HealthTellsTruth
<1> QED BY <1>1, OrchestratorInvariance, PTL

\* A service that fails over and over is started a bounded number of times in any window: each start
\* is paid for by a record in the file, a failed call or crash, or a stop, across restarts of the
\* host and whatever a stop races (superviseServiceWorker, RecordFailure, program.Stop).
THEOREM RecoveryStaysBounded == ASSUME OrchestratorAssumption PROVE Spec => []RecoveryIsBounded
<1>1. OrchestratorInv => RecoveryIsBounded
  BY RecoveryGoal DEF OrchestratorInv, ServicesSafe, RecoveryIsBounded
<1> QED BY <1>1, OrchestratorInvariance, PTL
=============================================================================
