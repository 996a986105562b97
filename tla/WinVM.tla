------------------------------- MODULE WinVM ---------------------------------
(***************************************************************************)
(* The Windows VM backend on disk: Launch writes a runner record, then the *)
(* overlay, ISO and NVRAM, starts QEMU and updates the record; QEMU itself *)
(* writes a PID file and a serial log and opens a QMP port.  The process   *)
(* may die between any two steps and leave the VM running; the next one    *)
(* finds owned records and stops and removes what they describe.  PIDs and *)
(* loopback ports are reused by other processes.                           *)
(***************************************************************************)
EXTENDS Naturals, FiniteSets

CONSTANTS
  VMs,     \* runner names
  Owned,   \* those of scale sets; the others are a pool's
  Pids,    \* process ids
  Addrs,   \* loopback ports
  Crashes, \* bound: how often the process dies
  Faults   \* bound: how many calls fail, and how often another process takes a PID

WinVMAssumption ==
  /\ Owned \subseteq VMs /\ {"free", "foreign"} \cap VMs = {}
  /\ 0 \notin Pids /\ Crashes \in Nat /\ Faults \in Nat

VARIABLES
  host,     \* whether the process runs
  pc,       \* per VM: how far Launch and the handle are
  rm,       \* per VM: how far RemoveOwnedRunner is
  record,   \* per VM: the record file
  files,    \* per VM: its artifacts on disk
  pid,      \* per VM: the PID QEMU got, 0 before
  addr,     \* per VM: the QMP address of the record
  booted,   \* the VMs whose QEMU wrote its PID file and listens
  proc,     \* the process table
  quits,    \* history: who was told to quit for which record
  unseen,   \* history: VMs whose record was taken for that of a VM that never started
  crashes, faults

vars == <<host, pc, rm, record, files, pid, addr, booted, proc, quits, unseen, crashes, faults>>
launch == <<pc, record, files, pid, addr>>

Nobody == "free"

Init ==
  /\ host = "up" /\ pc = [n \in VMs |-> "idle"] /\ rm = [n \in VMs |-> "none"]
  /\ record = [n \in VMs |-> "none"] /\ files = [n \in VMs |-> {}]
  /\ pid = [n \in VMs |-> 0] /\ addr \in [VMs -> Addrs] /\ booted = {}
  /\ proc = [p \in Pids |-> Nobody] /\ quits = {} /\ unseen = {}
  /\ crashes = 0 /\ faults = 0

Alive(n) == pid[n] # 0 /\ proc[pid[n]] = n
Listener(a) == {m \in booted : Alive(m) /\ addr[m] = a}
At(n, where) == host = "up" /\ pc[n] = where
Goto(n, there) == pc' = [pc EXCEPT ![n] = there]
Fails == faults < Faults /\ faults' = faults + 1
Adds(n, f) == files' = [files EXCEPT ![n] = @ \cup {f}]
\* cleanupFailedLaunch: the artifacts, then the record, which stays when an artifact does.
Undo(n) ==
  \/ files' = [files EXCEPT ![n] = {}] /\ record' = [record EXCEPT ![n] = "none"] /\ Goto(n, "over")
  \/ \E f \in files[n] : files' = [files EXCEPT ![n] = {f}] /\ UNCHANGED record /\ Goto(n, "orphan")

-----------------------------------------------------------------------------
(* Launch. *)

\* A port nobody listens on now; the temporary file and rename of the record.
reserveLoopbackAddress(n) == \E a \in Addrs : Listener(a) = {} /\ addr' = [addr EXCEPT ![n] = a]
writeRunnerRecord(n, state) == record' = [record EXCEPT ![n] = state]

\* Mutant: the overlay is there before its record.
WriteRecordLate(n) ==
  /\ At(n, "idle") /\ Adds(n, "overlay") /\ Goto(n, "recorded")
  /\ UNCHANGED <<host, rm, record, pid, addr, booted, proc, quits, unseen, crashes, faults>>
\* The first part of Launch.
WriteRecord(n) ==
  /\ At(n, "idle") /\ reserveLoopbackAddress(n) /\ writeRunnerRecord(n, "written") /\ Goto(n, "recorded")
  /\ UNCHANGED <<host, rm, files, pid, booted, proc, quits, unseen, crashes, faults>>

\* qemu-img, BuildJITISO and the NVRAM copy; a failure removes what there is.
Step(n, from, f, to) ==
  /\ At(n, from)
  /\ \/ Adds(n, f) /\ Goto(n, to) /\ UNCHANGED <<record, faults>>
     \/ Fails /\ Undo(n)
  /\ UNCHANGED <<host, rm, pid, addr, booted, proc, quits, unseen, crashes>>
CreateOverlay(n) == Step(n, "recorded", "overlay", "overlay")
BuildISO(n) == Step(n, "overlay", "iso", "iso")
CopyVars(n) == Step(n, "iso", "vars", "starting") 

\* cmd.Start.
StartQEMU(n) ==
  /\ At(n, "starting") /\ pid[n] = 0
  /\ \/ \E p \in Pids : proc[p] = Nobody /\ proc' = [proc EXCEPT ![p] = n] /\ pid' = [pid EXCEPT ![n] = p]
        /\ UNCHANGED <<pc, record, files, faults>>
     \/ Fails /\ Undo(n) /\ UNCHANGED <<proc, pid>>
  /\ UNCHANGED <<host, rm, addr, booted, quits, unseen, crashes>>

\* Mutant: QEMU is left running when its PID cannot be recorded.
StartedUnrecorded(n) ==
  /\ At(n, "starting") /\ pid[n] # 0 /\ UNCHANGED proc
  /\ \/ writeRunnerRecord(n, "started") /\ Goto(n, "watched") /\ UNCHANGED <<files, faults>>
     \/ Fails /\ Undo(n)
  /\ UNCHANGED <<host, rm, pid, addr, booted, quits, unseen, crashes>>
\* The record gets the PID, and a handle waits for QEMU; or QEMU is killed and all removed.
RecordStarted(n) ==
  /\ At(n, "starting") /\ pid[n] # 0
  /\ \/ writeRunnerRecord(n, "started") /\ Goto(n, "watched") /\ UNCHANGED <<files, proc, faults>>
     \/ /\ Fails /\ proc' = [p \in Pids |-> IF proc[p] = n THEN Nobody ELSE proc[p]] /\ Undo(n)
  /\ UNCHANGED <<host, rm, pid, addr, booted, quits, unseen, crashes>>

-----------------------------------------------------------------------------
(* QEMU and the machine. *)

\* QEMU comes up, or finds its port taken and exits.
Boot(n) ==
  /\ Alive(n) /\ n \notin booted
  /\ IF Listener(addr[n]) = {}
     THEN booted' = booted \cup {n} /\ files' = [files EXCEPT ![n] = @ \cup {"pid", "serial"}] /\ UNCHANGED proc
     ELSE proc' = [proc EXCEPT ![pid[n]] = Nobody] /\ UNCHANGED <<booted, files>>
  /\ UNCHANGED <<host, pc, rm, record, pid, addr, quits, unseen, crashes, faults>>

\* The guest powers off, or QEMU was told to: it removes its PID file.
Exit(n) ==
  /\ Alive(n) /\ n \in booted
  /\ proc' = [proc EXCEPT ![pid[n]] = Nobody] /\ files' = [files EXCEPT ![n] = @ \ {"pid"}]
  /\ UNCHANGED <<host, pc, rm, record, pid, addr, booted, quits, unseen, crashes, faults>>

\* Other processes come and go, with the PIDs that are free.
Foreign(p) ==
  /\ \/ proc[p] = Nobody /\ Fails /\ proc' = [proc EXCEPT ![p] = "foreign"]
     \/ proc[p] = "foreign" /\ proc' = [proc EXCEPT ![p] = Nobody] /\ UNCHANGED faults
  /\ UNCHANGED <<host, launch, rm, booted, quits, unseen, crashes>>

\* The process dies; its VMs run on.
Crash ==
  /\ host = "up" /\ crashes < Crashes /\ crashes' = crashes + 1 /\ host' = "down"
  /\ pc' = [n \in VMs |-> IF pc[n] \in {"idle", "over"} THEN pc[n] ELSE "orphan"]
  /\ rm' = [n \in VMs |-> "none"]
  /\ UNCHANGED <<record, files, pid, addr, booted, proc, quits, unseen, faults>>

\* So does the machine, with every process.
Reboot ==
  /\ host = "down" /\ proc' = [p \in Pids |-> Nobody]
  /\ UNCHANGED <<host, launch, rm, booted, quits, unseen, crashes, faults>>

\* A new process: CleanupOrphans removes overlays, ISOs, NVRAM copies and serial logs.
CleanupOrphans ==
  /\ host = "down" /\ host' = "up"
  /\ files' = [n \in VMs |-> files[n] \cap {"pid"}]
  /\ UNCHANGED <<pc, rm, record, pid, addr, booted, proc, quits, unseen, crashes, faults>>

-----------------------------------------------------------------------------
(* The handle and RemoveOwnedRunner. *)

\* vmHandle: QEMU has exited, or Kill ended it.
HandleExit(n) ==
  /\ At(n, "watched") /\ (\/ ~Alive(n) /\ UNCHANGED proc
                          \/ Alive(n) /\ proc' = [proc EXCEPT ![pid[n]] = Nobody])
  /\ Goto(n, "exited")
  /\ UNCHANGED <<host, rm, record, files, pid, addr, booted, quits, unseen, crashes, faults>>

\* ListOwnedRunners finds the records of this owner, and a handle knows its own.
Removable(n) == record[n] # "none" /\ (At(n, "exited") \/ (At(n, "orphan") /\ n \in Owned))

\* runnerPID: from QEMU's file, else from the record.
runnerPID(n) == IF "pid" \in files[n] \/ record[n] = "started" THEN pid[n] ELSE 0

\* Mutant: whatever process has the PID is killed.
QuitPid(n) == {proc[pid[n]]}
\* QMPQuitNamed: who is told to quit, the VM of that name or nobody.
QMPQuitNamed(n) == Listener(addr[n]) \cap {n}

\* RemoveOwnedRunner up to the exit of the VM.  The error of a process that is not the VM, or
\* does not answer yet, changes nothing, and the launcher comes back; a pool's handle does not.
RemoveOwnedRunner(n) ==
  /\ Removable(n) /\ rm[n] = "none"
  /\ IF runnerPID(n) # 0 /\ proc[runnerPID(n)] # Nobody
     THEN /\ UNCHANGED unseen
          /\ \/ /\ QMPQuitNamed(n) # {} /\ quits' = quits \cup {<<n, m>> : m \in QMPQuitNamed(n)}
                /\ rm' = [rm EXCEPT ![n] = "quitting"] /\ UNCHANGED pc
             \/ /\ QMPQuitNamed(n) = {} /\ n \notin Owned
                /\ Goto(n, "over") /\ UNCHANGED <<rm, quits>>
     ELSE /\ rm' = [rm EXCEPT ![n] = "artifacts"] /\ UNCHANGED <<pc, quits>>
          /\ unseen' = IF Alive(n) THEN unseen \cup {n} ELSE unseen
  /\ UNCHANGED <<host, record, files, pid, addr, booted, proc, crashes, faults>>

\* waitForProcessExit.
WaitForExit(n) ==
  /\ host = "up" /\ rm[n] = "quitting" /\ proc[pid[n]] = Nobody
  /\ rm' = [rm EXCEPT ![n] = "artifacts"]
  /\ UNCHANGED <<host, launch, booted, proc, quits, unseen, crashes, faults>>

\* removeRunnerArtifacts: every artifact is tried; an error keeps the record.
RemoveArtifacts(n) ==
  /\ host = "up" /\ rm[n] = "artifacts"
  /\ \/ files' = [files EXCEPT ![n] = {}] /\ rm' = [rm EXCEPT ![n] = "record"] /\ UNCHANGED <<pc, faults>>
     \/ /\ Fails /\ \E f \in files[n] : files' = [files EXCEPT ![n] = {f}]
        /\ rm' = [rm EXCEPT ![n] = "none"] /\ IF n \in Owned THEN UNCHANGED pc ELSE Goto(n, "over")
  /\ UNCHANGED <<host, record, pid, addr, booted, proc, quits, unseen, crashes>>

\* os.Remove of the record, last.
RemoveRecord(n) ==
  /\ host = "up" /\ rm[n] = "record"
  /\ record' = [record EXCEPT ![n] = "none"] /\ rm' = [rm EXCEPT ![n] = "none"] /\ Goto(n, "over")
  /\ UNCHANGED <<host, files, pid, addr, booted, proc, quits, unseen, crashes, faults>>

-----------------------------------------------------------------------------
Launch(n) == \/ WriteRecord(n) \/ CreateOverlay(n) \/ BuildISO(n) \/ CopyVars(n)
             \/ StartQEMU(n) \/ RecordStarted(n)
Remove(n) == \/ HandleExit(n) \/ RemoveOwnedRunner(n) \/ WaitForExit(n) \/ RemoveArtifacts(n) \/ RemoveRecord(n)

Next ==
  \/ \E n \in VMs : Launch(n) \/ Boot(n) \/ Exit(n) \/ Remove(n)
  \/ (\E p \in Pids : Foreign(p)) \/ Crash \/ Reboot \/ CleanupOrphans

Spec == Init /\ [][Next]_vars

-----------------------------------------------------------------------------
(* What the callers see of it. *)

\* The instance is the QEMU process, its trace the record.
instance == [n \in VMs |->
  CASE pc[n] = "idle" -> "none" [] Alive(n) -> "live"
    [] pc[n] # "idle" /\ ~Alive(n) /\ record[n] = "none" -> "gone"
    [] OTHER -> IF pid[n] = 0 THEN "made" ELSE "dead"]

\* What Launch, the handle and RemoveOwnedRunner have returned.  A QEMU that had not come up
\* when a new process read its record is nobody's from then on.
returned == [n \in VMs |->
  CASE n \in unseen \/ pc[n] = "orphan" -> "lost"
    [] pc[n] \in {"idle", "recorded", "overlay", "iso", "starting"} -> "nothing"
    [] pc[n] = "watched" -> "handle"
    [] OTHER -> IF pc[n] = "over" /\ record[n] = "none" THEN "over" ELSE "ended"]

Contract == INSTANCE Backend WITH Runners <- VMs, inst <- instance, told <- returned

-----------------------------------------------------------------------------
\* Whatever a launch left, on disk or running, has a record to find it by, at every crash: the
\* record is written first and removed last.  The exception is a QEMU that had not come up when
\* a new process read its record.
RecordCoversVM ==
  \A n \in VMs \ unseen : files[n] # {} \/ Alive(n) => record[n] # "none"

\* RemoveOwnedRunner tells nobody to quit but the VM the record names, though PIDs and ports are
\* taken over by others.
OnlyTheNamedVMQuits == \A q \in quits : q[1] = q[2]

\* The artifacts of a VM that runs are not removed by the reconciliation of its record.
RunningVMKeepsRecord ==
  \A n \in VMs \ unseen : rm[n] \in {"artifacts", "record"} => ~Alive(n)

\* The record of a VM is written before anything it covers and removed after everything,
\* none is removed while its VM runs, and only the VM a record names is told to quit.
VMRecordsAreSafe == RecordCoversVM /\ RunningVMKeepsRecord /\ OnlyTheNamedVMQuits

\* What an owned launch left behind is collected.
OrphansAreCollected ==
  \A n \in Owned : pc[n] = "orphan" /\ record[n] # "none" ~> record[n] = "none"

\* The VM backend keeps the contract of the Backend interface, with failing calls, a crash
\* between any two steps and PIDs that others take over.
VMKeepsContract == Contract!Spec
=============================================================================
