--------------------------- MODULE RunnerInstance ---------------------------
(***************************************************************************)
(* The life of one ephemeral runner: runner.RunOnce asks GitHub for a      *)
(* just-in-time registration, launches the runner on a backend, waits for  *)
(* it, and cleans up.  A worker is a goroutine that calls RunOnce: a slot  *)
(* of a pool (RunnerPool) or a holder of a token of the autoscaler's       *)
(* semaphore (Autoscale).  GitHub, the backend and the runner are the      *)
(* environment.                                                            *)
(***************************************************************************)
EXTENDS Integers, FiniteSets

CONSTANTS
  Workers,     \* the goroutines that call RunOnce
  NameCount,   \* bound: how many runner names are tracked
  Targets,     \* where a runner can be registered (repositories)
  None,        \* no target
  FaultBudget  \* bound: how many external calls fail

InstanceAssumption ==
  /\ IsFiniteSet(Workers)
  /\ NameCount \in Nat
  /\ None \notin Targets
  /\ FaultBudget \in Nat

VARIABLES
  pc,        \* per worker: where its RunOnce is
  name,      \* per worker: the name of its runner, 0 when it has none
  failed,    \* per worker: its last RunOnce returned an error
  cancelled, \* the context of the runs is cancelled
  reg,       \* per name: the target it is registered at, or none
  res,       \* per name: the instance on the backend
  hurt,      \* per name: the calls of its run that failed, and "idle" when GitHub said so
  faults

runVars == <<pc, name, failed>>
envVars == <<reg, res>>
instanceVars == <<pc, name, failed, cancelled, reg, res, hurt, faults>>

Names == 1..NameCount
\* "up": started and idle; "working": on its job; "finished": job over, not yet exited.
Instance == {"none", "up", "working", "finished"}
Call == {"jit", "launch", "wait", "kill", "busy", "delete", "idle"}
Phase == {"off", "jit", "launch", "wait", "kill", "busy", "delete", "over"}

InstanceInit ==
  /\ pc = [w \in Workers |-> "off"]
  /\ name = [w \in Workers |-> 0]
  /\ failed = [w \in Workers |-> FALSE]
  /\ cancelled = FALSE
  /\ reg = [n \in Names |-> None]
  /\ res = [n \in Names |-> "none"]
  /\ hurt = [n \in Names |-> {}]
  /\ faults = FaultBudget

InUse(n) == \E w \in Workers : name[w] = n
\* runnerName draws a name at random. One that left nothing behind is as good as new.
Fresh(n) == reg[n] = None /\ res[n] = "none" /\ ~InUse(n)

Goto(w, there) == pc' = [pc EXCEPT ![w] = there]

NoFault == UNCHANGED <<hurt, faults>>
\* An external call about n fails.
Fault(n, call) ==
  /\ faults > 0 /\ faults' = faults - 1
  /\ hurt' = [hurt EXCEPT ![n] = @ \cup {call}]
\* A call made with the run's context fails too when that is cancelled.
FaultOrCancelled(n, call) ==
  \/ Fault(n, call)
  \/ cancelled /\ hurt' = [hurt EXCEPT ![n] = @ \cup {call}] /\ UNCHANGED faults

-----------------------------------------------------------------------------
(* RunOnce. *)

\* The call begins: a fresh name is drawn.
Begin(w) ==
  /\ \E n \in Names :
       /\ Fresh(n) /\ \A m \in Names : Fresh(m) => n <= m
       /\ name' = [name EXCEPT ![w] = n]
       /\ hurt' = [hurt EXCEPT ![n] = {}]
  /\ Goto(w, "jit")
  /\ UNCHANGED <<failed, cancelled, reg, res, faults>>

\* RunOnce returns, with or without an error.
Return(w, err) ==
  /\ Goto(w, "over")
  /\ name' = [name EXCEPT ![w] = 0]
  /\ failed' = [failed EXCEPT ![w] = err]

\* GenerateJITConfig at target t: granted, refused, or granted with the answer lost.
GenerateJITConfig(w, t) ==
  LET n == name[w] IN
  /\ pc[w] = "jit"
  /\ \/ /\ reg' = [reg EXCEPT ![n] = t]
        /\ Goto(w, "launch")
        /\ NoFault /\ UNCHANGED <<name, failed>>
     \/ /\ FaultOrCancelled(n, "jit")
        /\ reg' \in {reg, [reg EXCEPT ![n] = t]}
        /\ Return(w, TRUE)
  /\ UNCHANGED <<cancelled, res>>

\* Mutant: a failed launch is taken to have left nothing.
LaunchGone(w) == Goto(w, "delete")
\* A handle with the error: the instance may exist.
LaunchFailed(w) == Goto(w, "kill")

\* be.Launch: started; absent for certain (no handle); or failed with a handle.
Launch(w) ==
  LET n == name[w] IN
  /\ pc[w] = "launch"
  /\ \/ /\ res' = [res EXCEPT ![n] = "up"]
        /\ Goto(w, "wait") /\ NoFault /\ UNCHANGED failed
     \/ /\ FaultOrCancelled(n, "launch")
        /\ Goto(w, "delete")
        /\ failed' = [failed EXCEPT ![w] = TRUE] /\ UNCHANGED res
     \/ /\ FaultOrCancelled(n, "launch")
        /\ res' \in {res, [res EXCEPT ![n] = "up"]}
        /\ LaunchFailed(w)
        /\ failed' = [failed EXCEPT ![w] = TRUE]
  /\ UNCHANGED <<name, cancelled, reg>>

\* A wait that failed, or a cancelled context, does not prove that the runner stopped.
WaitFailed(w) == Goto(w, "kill")

\* handle.Wait, and the check of the context after it.
Wait(w) ==
  LET n == name[w] IN
  /\ pc[w] = "wait"
  /\ \/ /\ res[n] = "none"
        /\ IF cancelled THEN WaitFailed(w) ELSE Goto(w, "delete")
        /\ failed' = [failed EXCEPT ![w] = cancelled] /\ NoFault
     \/ /\ FaultOrCancelled(n, "wait")
        /\ WaitFailed(w) /\ failed' = [failed EXCEPT ![w] = TRUE]
  /\ UNCHANGED <<name, cancelled, envVars>>

\* GitHub decides on a runner whose kill failed.
KillFailed(w) == Goto(w, "busy")

\* terminate: handle.Kill, with a context of its own.
terminate(w) ==
  LET n == name[w] IN
  /\ pc[w] = "kill"
  /\ \/ res' = [res EXCEPT ![n] = "none"] /\ Goto(w, "delete") /\ NoFault
     \/ /\ Fault(n, "kill")
        /\ res' \in {res, [res EXCEPT ![n] = "none"]}
        /\ KillFailed(w)
  /\ UNCHANGED <<name, failed, cancelled, reg>>

\* RunnerBusy: what GitHub shows of a runner.
RunnerBusy(n) == IF reg[n] = None THEN "gone" ELSE IF res[n] = "working" THEN "busy" ELSE "idle"

\* reclaimAfterFailedKill asks GitHub: gone, busy and unknown keep, idle reclaims.
reclaimAfterFailedKill(w) ==
  LET n == name[w] IN
  /\ pc[w] = "busy"
  /\ \/ RunnerBusy(n) \in {"gone", "busy"} /\ NoFault /\ Return(w, failed[w])
     \/ Fault(n, "busy") /\ Return(w, failed[w])
     \/ /\ RunnerBusy(n) = "idle"
        /\ hurt' = [hurt EXCEPT ![n] = @ \cup {"idle"}] /\ UNCHANGED faults
        /\ Goto(w, "delete") /\ UNCHANGED <<name, failed>>
  /\ UNCHANGED <<cancelled, envVars>>

\* DeleteRunner; a registration already gone is success.
DeleteRunner(n) ==
  \/ reg' = [reg EXCEPT ![n] = None] /\ NoFault
  \/ Fault(n, "delete") /\ reg' \in {reg, [reg EXCEPT ![n] = None]}

\* deregister: best effort.
deregister(w) ==
  /\ pc[w] = "delete"
  /\ DeleteRunner(name[w])
  /\ Return(w, failed[w])
  /\ UNCHANGED <<cancelled, res>>

RunOnce(w) ==
  Launch(w) \/ Wait(w) \/ terminate(w) \/ reclaimAfterFailedKill(w) \/ deregister(w)

-----------------------------------------------------------------------------
(* The environment. *)

\* GitHub gives an idle runner a job.
TakeJob(n) ==
  /\ res[n] = "up" /\ reg[n] # None
  /\ res' = [res EXCEPT ![n] = "working"]
  /\ UNCHANGED <<runVars, cancelled, reg, hurt, faults>>

\* The job ends: GitHub removes the registration of an ephemeral runner.
FinishJob(n) ==
  /\ res[n] = "working"
  /\ res' = [res EXCEPT ![n] = "finished"]
  /\ reg' = [reg EXCEPT ![n] = None]
  /\ UNCHANGED <<runVars, cancelled, hurt, faults>>

\* The process exits after its job.
Exit(n) ==
  /\ res[n] = "finished"
  /\ res' = [res EXCEPT ![n] = "none"]
  /\ UNCHANGED <<runVars, cancelled, reg, hurt, faults>>

\* The process dies before its job is over, or before it has one.
Die(n) ==
  /\ res[n] \in {"up", "working"}
  /\ faults > 0 /\ faults' = faults - 1
  /\ res' = [res EXCEPT ![n] = "none"]
  /\ UNCHANGED <<runVars, cancelled, reg, hurt>>

Environment(n) == FinishJob(n) \/ Exit(n) \/ Die(n)

\* The context is cancelled from outside (a stop of the orchestrator).
Cancel ==
  /\ ~cancelled /\ cancelled' = TRUE
  /\ UNCHANGED <<runVars, envVars, hurt, faults>>

-----------------------------------------------------------------------------
(* Properties. *)

\* What a finished run leaves behind has a reason: an instance lives on only when its kill
\* failed, and a registration only when the answer to its creation was lost, its removal
\* failed, or a failed kill left its fate to GitHub (RunOnce, reclaimAfterFailedKill).
LeftoversExplained ==
  \A n \in Names : ~InUse(n) =>
    /\ res[n] # "none" => "kill" \in hurt[n]
    /\ reg[n] # None => hurt[n] \cap {"jit", "kill", "delete"} # {}

\* A job loses its registration while it runs only when its kill failed and GitHub has called
\* the runner idle since: every other path of RunOnce has seen the instance end.
SeveredOnlyIfSeenIdle ==
  \A n \in Names : res[n] = "working" /\ reg[n] = None => {"kill", "idle"} \subseteq hurt[n]

\* What a run leaves behind has a reason, and a job is severed only after a failed kill.
RunsCleanUp == LeftoversExplained /\ SeveredOnlyIfSeenIdle
=============================================================================
