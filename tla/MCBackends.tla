----------------------------- MODULE MCBackends -----------------------------
(***************************************************************************)
(* The backends for the model checker: Docker, nerdctl and the Windows VMs. *)
(*                                                                         *)
(* On a container daemon there are a launch of a scale set (o1), a launch  *)
(* of a pool (p1) and, at the start or not, containers of others under     *)
(* their names: made by hand (handO, handP) or by another host (other).    *)
(***************************************************************************)
EXTENDS Backends

CONSTANTS o1, p1, handO, handP, other

MCNameOf == [c \in Cids |-> IF c \in {o1, handO} THEN "runner-o" ELSE "runner-p"]
MCScopeOf == [c \in Cids |-> CASE c = o1 -> "mine" [] c = other -> "theirs" [] OTHER -> "none"]

ASSUME VMAssumption == VM!WinVMAssumption

\* A container backend that rests does so in one state.
MCInit == BackendsInit /\ (at = "vm" => docker /\ Present = {})

\* The callers' goroutines run, the daemon works, runners end and the reconciler is periodic.
\* QEMU boots and heeds a quit, a pool's VM ends with its job, and so does a process that took
\* over a PID; the service is started again.
Daemon(A) == at = "container" /\ A /\ UNCHANGED <<at, docker, vmVars>>
MCFairness ==
  /\ WF_allVars(Daemon(Reconcile))
  /\ \A l \in Launches :
       /\ WF_allVars(Daemon(Caller(l)))
       /\ WF_allVars(Daemon(Exit(l)))
       /\ WF_allVars(Daemon(DaemonRemoves(l)))
  /\ WF_allVars(at = "vm" /\ VM!CleanupOrphans /\ UNCHANGED <<at, vars>>)
  /\ \A n \in VMs :
       /\ WF_allVars(at = "vm" /\ VM!RemoveOwnedRunner(n) /\ UNCHANGED <<at, vars>>)
       /\ WF_allVars(at = "vm" /\ VM!WaitForExit(n) /\ UNCHANGED <<at, vars>>)
       /\ WF_allVars(at = "vm" /\ VM!RemoveArtifacts(n) /\ UNCHANGED <<at, vars>>)
       /\ WF_allVars(at = "vm" /\ VM!RemoveRecord(n) /\ UNCHANGED <<at, vars>>)
       /\ WF_allVars(at = "vm" /\ VM!Boot(n) /\ UNCHANGED <<at, vars>>)
       /\ WF_allVars(at = "vm" /\ (<<n, n>> \in quits \/ n \notin OwnedVMs) /\ VM!Exit(n) /\ UNCHANGED <<at, vars>>)
  /\ \A p \in Pids : WF_allVars(at = "vm" /\ proc[p] = "foreign" /\ VM!Foreign(p) /\ UNCHANGED <<at, vars>>)

MCSpec == MCInit /\ [][BackendsNext]_allVars /\ MCFairness

-----------------------------------------------------------------------------
\* What a scale set leaves is collected in the end, on every backend: its container by the
\* launcher's cleanup or the next process's reconciliation, and the record of a VM whose
\* launcher died by that reconciliation.
LeftoversAreCollected == OwnedIsReclaimed /\ VM!OrphansAreCollected
=============================================================================
