------------------------------- MODULE Backends -------------------------------
(***************************************************************************)
(* The implementations of the Backend interface side by side: containers   *)
(* (ContainerBackend) and Windows VMs (WinVM), each beside its contract.   *)
(* They share nothing, so a behaviour is one of a single backend (at), and *)
(* the other rests in its initial state.                                   *)
(***************************************************************************)
EXTENDS ContainerBackend

CONSTANTS VMs, OwnedVMs, Pids, Addrs, Crashes, VMFaults \* of WinVM

VARIABLES at, host, pc, rm, record, files, pid, addr, booted, proc, quits, unseen, crashes, calls

vmVars == <<host, pc, rm, record, files, pid, addr, booted, proc, quits, unseen, crashes, calls>>
allVars == <<at, vars, vmVars>>

VM == INSTANCE WinVM WITH Owned <- OwnedVMs, Faults <- VMFaults, faults <- calls

BackendsInit == at \in {"container", "vm"} /\ Init /\ VM!Init

BackendsNext ==
  \/ at = "container" /\ Next /\ UNCHANGED <<at, vmVars>>
  \/ at = "vm" /\ VM!Next /\ UNCHANGED <<at, vars>>

BackendsSpec == BackendsInit /\ [][BackendsNext]_allVars

-----------------------------------------------------------------------------
\* The record of a VM is written before anything it covers and removed after everything:
\* whatever a launch left has one, at every crash, and none is removed while its VM runs.
\* RemoveOwnedRunner tells nobody to quit but the VM its record names, though PIDs and ports
\* are taken over by others.
VMRecordsAreSafe == VM!VMRecordsAreSafe

\* The VM backend keeps the contract of the Backend interface, with failing calls, a crash
\* between any two steps and PIDs that others take over.
VMKeepsContract == VM!VMKeepsContract
=============================================================================
