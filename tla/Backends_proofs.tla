---------------------------- MODULE Backends_proofs ----------------------------
(***************************************************************************)
(* Proofs about the Windows VM backend, for any VMs, PIDs, ports, crashes  *)
(* and failing calls: its records are safe, and it implements the contract *)
(* of Backend.  The argument is local.  The inductive invariant says, for  *)
(* each VM, what its record, its files and its QEMU can be at the point    *)
(* its Launch, handle or removal has reached; a step of one VM leaves the  *)
(* others alone, and it is one step of that VM's contract, or none.        *)
(***************************************************************************)
EXTENDS Backends, TLAPS

Places == {"idle", "recorded", "overlay", "iso", "starting", "watched", "exited", "orphan", "over"}

Types ==
  /\ host \in {"up", "down"} /\ pc \in [VMs -> Places]
  /\ rm \in [VMs -> {"none", "quitting", "artifacts", "record"}]
  /\ record \in [VMs -> {"none", "written", "started"}]
  /\ files \in [VMs -> SUBSET {"overlay", "iso", "vars", "pid", "serial"}]
  /\ pid \in [VMs -> Pids \cup {0}] /\ proc \in [Pids -> VMs \cup {VM!Nobody, "foreign"}]
  /\ unseen \subseteq VMs

\* How far Launch is says what there is of the VM.
LaunchPhase(n) ==
  /\ pc[n] = "idle" => record[n] = "none" /\ n \notin unseen
  /\ pc[n] \in {"idle", "recorded", "overlay", "iso"} => pid[n] = 0
  /\ pc[n] \in {"watched", "exited"} => pid[n] # 0
  /\ record[n] = "none" => pc[n] \in {"idle", "over"}
  /\ record[n] = "none" /\ n \notin unseen => files[n] = {} /\ ~VM!Alive(n)

\* A removal works on a record that nobody else works on, and goes on only when QEMU has ended,
\* except for a QEMU that had not come up.
RemovalPhase(n) ==
  /\ pc[n] \in {"exited", "over"} /\ n \notin unseen => ~VM!Alive(n)
  /\ rm[n] # "none" => host = "up" /\ (pc[n] = "exited" \/ (pc[n] = "orphan" /\ n \in OwnedVMs))
  /\ rm[n] \in {"artifacts", "record"} /\ n \notin unseen => ~VM!Alive(n)
  /\ rm[n] = "record" /\ n \notin unseen => files[n] = {}
  /\ n \in unseen => n \in OwnedVMs /\ pc[n] \in {"orphan", "over"}

Phase(n) == LaunchPhase(n) /\ RemovalPhase(n)

Inv == VM!WinVMAssumption /\ Types /\ (\A n \in VMs : Phase(n)) /\ VM!OnlyTheNamedVMQuits

-----------------------------------------------------------------------------
(* Steps of one VM. *)

\* A step of n leaves the others alone.
Only(n) ==
  /\ host' = host
  /\ \A m \in VMs \ {n} :
       /\ UNCHANGED <<pc[m], rm[m], record[m], files[m], pid[m]>>
       /\ VM!Alive(m)' <=> VM!Alive(m)
       /\ m \in unseen' <=> m \in unseen

LEMMA OnlyInv ==
  ASSUME Inv, NEW n \in VMs, Only(n), Types', Phase(n)', VM!OnlyTheNamedVMQuits'
  PROVE  Inv'
  <1>1. ASSUME NEW m \in VMs \ {n} PROVE Phase(m)'
    BY DEF Inv, Only, Phase, LaunchPhase, RemovalPhase
  <1>2. VM!WinVMAssumption'
    BY DEF Inv, VM!WinVMAssumption
  <1> QED  BY <1>1, <1>2 DEF Inv

\* The process table: starting or ending the QEMU of n is not seen by the others.
LEMMA ProcessOfOne ==
  ASSUME Inv, NEW n \in VMs, \A m \in VMs \ {n} : pid'[m] = pid[m],
         \A p \in Pids : proc'[p] = proc[p] \/ {proc[p], proc'[p]} \subseteq {n, VM!Nobody, "foreign"}
  PROVE  \A m \in VMs \ {n} : VM!Alive(m)' <=> VM!Alive(m)
  BY DEF Inv, VM!WinVMAssumption, Types, VM!Alive, VM!Nobody

-----------------------------------------------------------------------------
(* The contract seen through instance and returned. *)

Implements == VM!Contract!Next \/ UNCHANGED <<VM!instance, VM!returned>>

\* What the state of a VM is for its caller, before a step and after it.
LEMMA MappedNow ==
  ASSUME NEW n \in VMs, Phase(n)
  PROVE  /\ pc[n] = "idle" => VM!instance[n] = "none"
         /\ pc[n] # "idle" /\ VM!Alive(n) => VM!instance[n] = "live"
         /\ pc[n] # "idle" /\ ~VM!Alive(n) /\ record[n] = "none" => VM!instance[n] = "gone"
         /\ pc[n] # "idle" /\ ~VM!Alive(n) /\ record[n] # "none" =>
              VM!instance[n] = IF pid[n] = 0 THEN "made" ELSE "dead"
         /\ n \in unseen \/ pc[n] = "orphan" => VM!returned[n] = "lost"
         /\ pc[n] \in {"idle", "recorded", "overlay", "iso", "starting"} => VM!returned[n] = "nothing"
         /\ pc[n] = "watched" => VM!returned[n] = "handle"
         /\ n \notin unseen /\ pc[n] \in {"exited", "over"} =>
              VM!returned[n] = IF pc[n] = "over" /\ record[n] = "none" THEN "over" ELSE "ended"
  <1>1. pc[n] = "idle" => ~VM!Alive(n) /\ n \notin unseen
    BY DEF Phase, LaunchPhase, VM!Alive
  <1>2. n \in unseen => pc[n] \in {"orphan", "over"}
    BY DEF Phase, RemovalPhase
  <1> QED  BY <1>1, <1>2 DEF VM!instance, VM!returned

LEMMA MappedNext ==
  ASSUME NEW n \in VMs, Phase(n)'
  PROVE  /\ pc'[n] = "idle" => VM!instance'[n] = "none"
         /\ pc'[n] # "idle" /\ VM!Alive(n)' => VM!instance'[n] = "live"
         /\ pc'[n] # "idle" /\ ~VM!Alive(n)' /\ record'[n] = "none" => VM!instance'[n] = "gone"
         /\ pc'[n] # "idle" /\ ~VM!Alive(n)' /\ record'[n] # "none" =>
              VM!instance'[n] = IF pid'[n] = 0 THEN "made" ELSE "dead"
         /\ n \in unseen' \/ pc'[n] = "orphan" => VM!returned'[n] = "lost"
         /\ pc'[n] \in {"idle", "recorded", "overlay", "iso", "starting"} => VM!returned'[n] = "nothing"
         /\ pc'[n] = "watched" => VM!returned'[n] = "handle"
         /\ n \notin unseen' /\ pc'[n] \in {"exited", "over"} =>
              VM!returned'[n] = IF pc'[n] = "over" /\ record'[n] = "none" THEN "over" ELSE "ended"
  <1>1. pc'[n] = "idle" => ~VM!Alive(n)' /\ n \notin unseen'
    BY DEF Phase, LaunchPhase, VM!Alive
  <1>2. n \in unseen' => pc'[n] \in {"orphan", "over"}
    BY DEF Phase, RemovalPhase
  <1> QED  BY <1>1, <1>2 DEF VM!instance, VM!returned

\* A step of n changes the instance and the answers of n only.
LEMMA OnlyBecomes ==
  ASSUME NEW n \in VMs, Only(n)
  PROVE  VM!Contract!Becomes(n, VM!instance'[n], VM!returned'[n])
  <1>1. \A m \in VMs \ {n} : VM!instance'[m] = VM!instance[m] /\ VM!returned'[m] = VM!returned[m]
    BY DEF Only, VM!instance, VM!returned
  <1>2. VM!instance = [m \in VMs |-> VM!instance[m]] /\ VM!instance' = [m \in VMs |-> VM!instance'[m]]
    BY DEF VM!instance
  <1>3. VM!returned = [m \in VMs |-> VM!returned[m]] /\ VM!returned' = [m \in VMs |-> VM!returned'[m]]
    BY DEF VM!returned
  <1>4. VM!instance' = [VM!instance EXCEPT ![n] = VM!instance'[n]]
    BY <1>1, <1>2
  <1>5. VM!returned' = [VM!returned EXCEPT ![n] = VM!returned'[n]]
    BY <1>1, <1>3
  <1> QED  BY <1>4, <1>5 DEF VM!Contract!Becomes

LEMMA StutterStep ==
  ASSUME NEW n \in VMs, Only(n), VM!instance'[n] = VM!instance[n], VM!returned'[n] = VM!returned[n]
  PROVE  Implements
  <1>1. \A m \in VMs : VM!instance'[m] = VM!instance[m] /\ VM!returned'[m] = VM!returned[m]
    BY DEF Only, VM!instance, VM!returned
  <1>2. VM!instance' = VM!instance /\ VM!returned' = VM!returned
    BY <1>1 DEF VM!instance, VM!returned
  <1> QED  BY <1>2 DEF Implements

LEMMA LaunchStep ==
  ASSUME NEW n \in VMs, Only(n), VM!returned[n] = "nothing", VM!returned'[n] \in {"nothing", "handle"},
         VM!instance'[n] \in VM!Contract!Made(VM!instance[n]), VM!instance'[n] \notin {"gone", "pending"}
  PROVE  Implements
  BY OnlyBecomes DEF Implements, VM!Contract!Next, VM!Contract!Launch, VM!Contract!Absent

LEMMA FailedStep ==
  ASSUME NEW n \in VMs, Only(n), VM!returned[n] = "nothing", VM!instance[n] # "none",
         \/ VM!instance'[n] = "gone" /\ VM!returned'[n] = "over"
         \/ VM!instance'[n] \in VM!Contract!After(VM!instance[n]) \ {"live", "gone"} /\ VM!returned'[n] = "lost"
  PROVE  Implements
  BY OnlyBecomes DEF Implements, VM!Contract!Next, VM!Contract!FailedLaunch

LEMMA EndedStep ==
  ASSUME NEW n \in VMs, Only(n), VM!returned[n] = "handle", VM!returned'[n] = "ended",
         VM!instance'[n] \in VM!Contract!After(VM!instance[n]) \ {"live", "gone"}
  PROVE  Implements
  BY OnlyBecomes DEF Implements, VM!Contract!Next, VM!Contract!Ended

LEMMA DischargedStep ==
  ASSUME NEW n \in VMs, Only(n), VM!returned[n] \in {"ended", "lost"}, VM!instance[n] \notin {"live", "pending"},
         VM!instance'[n] = "gone", VM!returned'[n] = "over"
  PROVE  Implements
  BY OnlyBecomes DEF Implements, VM!Contract!Next, VM!Contract!Discharged

LEMMA VanishesStep ==
  ASSUME NEW n \in VMs, Only(n), VM!instance[n] \in {"made", "dead"}, VM!returned[n] = "lost",
         VM!instance'[n] = "gone", VM!returned'[n] = "lost"
  PROVE  Implements
  BY OnlyBecomes DEF Implements, VM!Contract!Next, VM!Contract!Vanishes

\* The processes of S end, whatever else goes on.
LEMMA DieStep ==
  ASSUME NEW S \in SUBSET VMs, \A n \in VMs : VM!returned'[n] = VM!returned[n],
         \A n \in VMs \ S : VM!instance'[n] = VM!instance[n],
         \A n \in S : /\ VM!instance[n] = "live" /\ VM!instance'[n] \in {"dead", "gone"}
                      /\ VM!instance'[n] = "gone" => VM!returned[n] = "lost"
  PROVE  Implements
  <1> DEFINE end == [n \in S |-> VM!instance'[n]]
  <1>1. S \in SUBSET {n \in VMs : VM!instance[n] = "live"} /\ end \in [S -> {"dead", "gone"}]
    OBVIOUS
  <1>2. \A n \in S : end[n] = "gone" => VM!returned[n] = "lost"
    OBVIOUS
  <1>3. VM!instance' = [n \in VMs |-> IF n \in S THEN end[n] ELSE VM!instance[n]]
    BY DEF VM!instance
  <1>4. VM!returned' = VM!returned
    BY DEF VM!returned
  <1> HIDE DEF end
  <1>5. VM!Contract!Die
    BY <1>1, <1>2, <1>3, <1>4 DEF VM!Contract!Die
  <1> QED  BY <1>5 DEF Implements, VM!Contract!Next

-----------------------------------------------------------------------------
(* Launch. *)

LEMMA WriteRecordSafe ==
  ASSUME Inv, NEW n \in VMs, VM!WriteRecord(n) PROVE Inv' /\ Implements
  <1> USE DEF Phase, LaunchPhase, RemovalPhase
  <1>1. /\ pc[n] = "idle" /\ pc' = [pc EXCEPT ![n] = "recorded"] /\ record' = [record EXCEPT ![n] = "written"]
        /\ UNCHANGED <<host, rm, files, pid, proc, quits, unseen>>
    BY DEF VM!WriteRecord, VM!At, VM!Goto, VM!writeRunnerRecord
  <1>2. Types' /\ Only(n) /\ (VM!Alive(n)' <=> VM!Alive(n)) /\ VM!OnlyTheNamedVMQuits'
    BY <1>1 DEF Inv, Types, Places, Only, VM!Alive, VM!OnlyTheNamedVMQuits
  <1>3. pc'[n] = "recorded" /\ record'[n] = "written" /\ Phase(n) /\ pid[n] = 0 /\ ~VM!Alive(n)
    BY <1>1 DEF Inv, Types, VM!Alive
  <1>4. Phase(n)'
    BY <1>1, <1>2, <1>3
  <1>5. Inv'
    BY <1>2, <1>4, OnlyInv
  <1>6. VM!instance[n] = "none" /\ VM!returned[n] = "nothing" /\ VM!instance'[n] = "made" /\ VM!returned'[n] = "nothing"
    BY <1>1, <1>2, <1>3, <1>4, MappedNow, MappedNext
  <1> QED  BY <1>2, <1>5, <1>6, LaunchStep DEF VM!Contract!Made

\* cleanupFailedLaunch of a launch whose QEMU does not run.
LEMMA UndoSafe ==
  ASSUME Inv, NEW n \in VMs, pc[n] \in {"recorded", "overlay", "iso", "starting"}, VM!Undo(n), ~VM!Alive(n)',
         \A m \in VMs \ {n} : VM!Alive(m)' <=> VM!Alive(m), proc' \in [Pids -> VMs \cup {VM!Nobody, "foreign"}],
         UNCHANGED <<host, rm, pid, quits, unseen>>
  PROVE  Inv' /\ Implements
  <1> USE DEF Phase, LaunchPhase, RemovalPhase
  <1>1. /\ \/ files'[n] = {} /\ record'[n] = "none" /\ pc'[n] = "over"
           \/ record'[n] = record[n] /\ pc'[n] = "orphan"
        /\ Types' /\ Only(n) /\ VM!OnlyTheNamedVMQuits'
    BY DEF VM!Undo, VM!Goto, Inv, Types, Places, Only, VM!OnlyTheNamedVMQuits
  <1>2. Phase(n) /\ record[n] # "none" /\ rm[n] = "none" /\ n \notin unseen
    BY DEF Inv, Types
  <1>3. Phase(n)'
    BY <1>1, <1>2
  <1>4. Inv'
    BY <1>1, <1>3, OnlyInv
  <1>5. /\ VM!returned[n] = "nothing" /\ VM!instance[n] \in {"made", "live", "dead"}
        /\ pid[n] = 0 => VM!instance[n] = "made"
        /\ pid[n] # 0 => VM!instance[n] \in {"live", "dead"}
    BY <1>2, MappedNow DEF VM!Alive
  <1>6. \/ VM!instance'[n] = "gone" /\ VM!returned'[n] = "over"
        \/ VM!instance'[n] = (IF pid[n] = 0 THEN "made" ELSE "dead") /\ VM!returned'[n] = "lost"
    BY <1>1, <1>2, <1>3, MappedNext
  <1>7. Implements
    BY <1>1, <1>5, <1>6, FailedStep DEF VM!Contract!After
  <1> QED  BY <1>4, <1>7

\* A step that adds a file.
LEMMA StepSafe ==
  ASSUME Inv, NEW n \in VMs, NEW f \in {"overlay", "iso", "vars"},
         NEW from \in {"recorded", "overlay", "iso"}, NEW to \in {"overlay", "iso", "starting"}, VM!Step(n, from, f, to)
  PROVE  Inv' /\ Implements
  <1> USE DEF Phase, LaunchPhase, RemovalPhase
  <1>1. /\ pc[n] = from /\ UNCHANGED <<host, rm, pid, proc, quits, unseen>>
    BY DEF VM!Step, VM!At
  <1>2. /\ pid[n] = 0 /\ ~VM!Alive(n) /\ record[n] # "none" /\ rm[n] = "none" /\ n \notin unseen /\ Phase(n)
        /\ \A m \in VMs : VM!Alive(m)' <=> VM!Alive(m)
    BY <1>1 DEF Inv, Types, VM!Alive
  <1>3. CASE VM!Undo(n)
    BY <1>1, <1>2, <1>3, UndoSafe DEF Inv, Types
  <1>4. CASE VM!Adds(n, f) /\ VM!Goto(n, to) /\ UNCHANGED record
    <2>1. /\ pc'[n] = to /\ record'[n] = record[n] /\ Types' /\ Only(n) /\ VM!OnlyTheNamedVMQuits'
      BY <1>1, <1>2, <1>4 DEF VM!Adds, VM!Goto, Inv, Types, Places, Only, VM!OnlyTheNamedVMQuits
    <2>2. Phase(n)'
      BY <1>1, <1>2, <2>1
    <2>3. Inv'
      BY <2>1, <2>2, OnlyInv
    <2>4. VM!instance[n] = "made" /\ VM!returned[n] = "nothing" /\ VM!instance'[n] = "made" /\ VM!returned'[n] = "nothing"
      BY <1>1, <1>2, <2>1, <2>2, MappedNow, MappedNext
    <2> QED  BY <2>1, <2>3, <2>4, StutterStep
  <1> QED  BY <1>3, <1>4 DEF VM!Step

LEMMA StartQEMUSafe ==
  ASSUME Inv, NEW n \in VMs, VM!StartQEMU(n) PROVE Inv' /\ Implements
  <1> USE DEF Phase, LaunchPhase, RemovalPhase
  <1>1. /\ pc[n] = "starting" /\ pid[n] = 0 /\ UNCHANGED <<host, rm, quits, unseen>>
    BY DEF VM!StartQEMU, VM!At
  <1>2. ~VM!Alive(n) /\ record[n] # "none" /\ rm[n] = "none" /\ n \notin unseen /\ Phase(n)
    BY <1>1 DEF Inv, Types, VM!Alive
  <1>3. CASE VM!Undo(n) /\ UNCHANGED <<proc, pid>>
    <2>1. \A m \in VMs : VM!Alive(m)' <=> VM!Alive(m)
      BY <1>3 DEF VM!Alive
    <2> QED  BY <1>1, <1>2, <1>3, <2>1, UndoSafe DEF Inv, Types
  <1>4. ASSUME NEW p \in Pids, proc[p] = VM!Nobody, proc' = [proc EXCEPT ![p] = n], pid' = [pid EXCEPT ![n] = p],
               UNCHANGED <<pc, record, files>>
        PROVE  Inv' /\ Implements
    <2>1. /\ pid'[n] = p /\ p # 0 /\ VM!Alive(n)' /\ Types' /\ VM!OnlyTheNamedVMQuits'
      BY <1>1, <1>4 DEF Inv, VM!WinVMAssumption, Types, VM!Alive, VM!OnlyTheNamedVMQuits
    <2>2. \A m \in VMs \ {n} : VM!Alive(m)' <=> VM!Alive(m)
      BY <1>4, ProcessOfOne DEF Inv, Types
    <2>3. Only(n)
      BY <1>1, <1>4, <2>2 DEF Only, Inv, Types
    <2>4. Phase(n)'
      BY <1>1, <1>2, <1>4, <2>1
    <2>5. Inv'
      BY <2>1, <2>3, <2>4, OnlyInv
    <2>6. VM!instance[n] = "made" /\ VM!returned[n] = "nothing" /\ VM!instance'[n] = "live" /\ VM!returned'[n] = "nothing"
      BY <1>1, <1>2, <1>4, <2>1, <2>4, MappedNow, MappedNext
    <2> QED  BY <2>3, <2>5, <2>6, LaunchStep DEF VM!Contract!Made
  <1> QED  BY <1>3, <1>4 DEF VM!StartQEMU

LEMMA RecordStartedSafe ==
  ASSUME Inv, NEW n \in VMs, VM!RecordStarted(n) PROVE Inv' /\ Implements
  <1> USE DEF Phase, LaunchPhase, RemovalPhase
  <1>1. /\ pc[n] = "starting" /\ pid[n] # 0 /\ UNCHANGED <<host, rm, pid, quits, unseen>>
    BY DEF VM!RecordStarted, VM!At
  <1>2. record[n] # "none" /\ rm[n] = "none" /\ n \notin unseen /\ Phase(n)
    BY <1>1 DEF Inv, Types
  <1>3. ASSUME proc' = [p \in Pids |-> IF proc[p] = n THEN VM!Nobody ELSE proc[p]], VM!Undo(n)
        PROVE  Inv' /\ Implements
    <2>1. proc' \in [Pids -> VMs \cup {VM!Nobody, "foreign"}] /\ ~VM!Alive(n)'
      BY <1>1, <1>3 DEF Inv, VM!WinVMAssumption, Types, VM!Alive, VM!Nobody
    <2>2. \A m \in VMs \ {n} : VM!Alive(m)' <=> VM!Alive(m)
      BY <1>1, <1>3, ProcessOfOne DEF Inv, Types
    <2> QED  BY <1>1, <1>3, <2>1, <2>2, UndoSafe
  <1>4. CASE VM!writeRunnerRecord(n, "started") /\ VM!Goto(n, "watched") /\ UNCHANGED <<files, proc>>
    <2>1. /\ pc'[n] = "watched" /\ record'[n] = "started" /\ Types' /\ Only(n) /\ VM!OnlyTheNamedVMQuits'
          /\ (VM!Alive(n)' <=> VM!Alive(n))
      BY <1>1, <1>4 DEF VM!writeRunnerRecord, VM!Goto, Inv, Types, Places, Only, VM!OnlyTheNamedVMQuits, VM!Alive
    <2>2. Phase(n)'
      BY <1>1, <1>2, <2>1
    <2>3. Inv'
      BY <2>1, <2>2, OnlyInv
    <2>4. /\ VM!instance[n] \in {"live", "dead"} /\ VM!returned[n] = "nothing" /\ VM!instance'[n] = VM!instance[n]
          /\ VM!returned'[n] = "handle"
      BY <1>1, <1>2, <2>1, <2>2, MappedNow, MappedNext
    <2> QED  BY <2>1, <2>3, <2>4, LaunchStep DEF VM!Contract!Made
  <1> QED  BY <1>3, <1>4 DEF VM!RecordStarted-----------------------------------------------------------------------------
(* QEMU and the machine. *)

\* The QEMU of n ends by itself.
LEMMA DiesSafe ==
  ASSUME Inv, NEW n \in VMs, VM!Alive(n), proc' = [proc EXCEPT ![pid[n]] = VM!Nobody],
         \E f \in SUBSET files[n] : files' = [files EXCEPT ![n] = f],
         UNCHANGED <<host, pc, rm, record, pid, quits, unseen>>
  PROVE  Inv' /\ Implements
  <1> USE DEF Phase, LaunchPhase, RemovalPhase
  <1>1. pid[n] \in Pids /\ proc[pid[n]] = n
    BY DEF Inv, Types, VM!Alive
  <1>2. Types' /\ ~VM!Alive(n)' /\ VM!OnlyTheNamedVMQuits'
    BY <1>1 DEF Inv, VM!WinVMAssumption, Types, VM!Alive, VM!Nobody, VM!OnlyTheNamedVMQuits
  <1>3. \A m \in VMs \ {n} : VM!Alive(m)' <=> VM!Alive(m)
    BY <1>1, ProcessOfOne DEF Inv, Types
  <1>4. Only(n) /\ Phase(n) /\ files'[n] \subseteq files[n]
    BY <1>3 DEF Only, Inv, Types
  <1>5. Phase(n)'
    BY <1>2, <1>4
  <1>6. Inv'
    BY <1>2, <1>4, <1>5, OnlyInv
  <1>7. /\ VM!instance[n] = "live" /\ VM!instance'[n] \in {"dead", "gone"}
        /\ VM!instance'[n] = "gone" => VM!returned[n] = "lost"
    <2>1. pc[n] # "idle" /\ pid[n] # 0 /\ (record[n] = "none" => n \in unseen)
      BY <1>4 DEF VM!Alive
    <2> QED  BY <1>2, <1>4, <1>5, <2>1, MappedNow, MappedNext
  <1>8. /\ \A m \in VMs : VM!returned'[m] = VM!returned[m]
        /\ \A m \in VMs \ {n} : VM!instance'[m] = VM!instance[m]
    <2>1. \A m \in VMs \ {n} : VM!instance'[m] = VM!instance[m]
      BY <1>4 DEF Only, VM!instance
    <2> QED  BY <2>1 DEF VM!returned
  <1>9. Implements
    <2>1. {n} \in SUBSET VMs /\ \A m \in VMs \ {n} : VM!instance'[m] = VM!instance[m]
      BY <1>8
    <2>2. \A m \in {n} : /\ VM!instance[m] = "live" /\ VM!instance'[m] \in {"dead", "gone"}
                         /\ VM!instance'[m] = "gone" => VM!returned[m] = "lost"
      BY <1>7
    <2> QED  BY <1>8, <2>1, <2>2, DieStep
  <1> QED  BY <1>6, <1>9

LEMMA BootSafe ==
  ASSUME Inv, NEW n \in VMs, VM!Boot(n) PROVE Inv' /\ Implements
  <1> USE DEF Phase, LaunchPhase, RemovalPhase
  <1>1. VM!Alive(n) /\ UNCHANGED <<host, pc, rm, record, pid, quits, unseen>>
    BY DEF VM!Boot
  <1>2. CASE VM!Listener(addr[n]) # {}
    <2>1. proc' = [proc EXCEPT ![pid[n]] = VM!Nobody] /\ files' = files
      BY <1>2 DEF VM!Boot
    <2>2. files' = [files EXCEPT ![n] = files[n]]
      BY <2>1 DEF Inv, Types
    <2> QED  BY <1>1, <2>1, <2>2, DiesSafe
  <1>3. CASE VM!Listener(addr[n]) = {}
    <2>1. files' = [files EXCEPT ![n] = @ \cup {"pid", "serial"}] /\ proc' = proc
      BY <1>3 DEF VM!Boot
    <2>2. /\ Types' /\ Only(n) /\ VM!OnlyTheNamedVMQuits' /\ VM!Alive(n)'
          /\ Phase(n) /\ (record[n] = "none" \/ rm[n] = "record" => n \in unseen)
      BY <1>1, <2>1 DEF Inv, Types, Only, VM!OnlyTheNamedVMQuits, VM!Alive
    <2>3. Phase(n)'
      BY <1>1, <2>2
    <2>4. Inv'
      BY <2>2, <2>3, OnlyInv
    <2>5. VM!instance' = VM!instance /\ VM!returned' = VM!returned
      BY <1>1, <2>1 DEF VM!instance, VM!returned, VM!Alive
    <2> QED  BY <2>4, <2>5 DEF Implements
  <1> QED  BY <1>2, <1>3

LEMMA ExitSafe ==
  ASSUME Inv, NEW n \in VMs, VM!Exit(n) PROVE Inv' /\ Implements
  BY DiesSafe DEF VM!Exit

LEMMA ForeignSafe ==
  ASSUME Inv, NEW p \in Pids, VM!Foreign(p) PROVE Inv' /\ Implements
  <1> USE DEF Phase, LaunchPhase, RemovalPhase
  <1>1. /\ UNCHANGED <<host, pc, rm, record, files, pid, quits, unseen>> /\ proc[p] \in {VM!Nobody, "foreign"}
        /\ \E w \in {VM!Nobody, "foreign"} : proc' = [proc EXCEPT ![p] = w]
    BY DEF VM!Foreign, VM!launch
  <1>2. Types' /\ VM!OnlyTheNamedVMQuits'
    BY <1>1 DEF Inv, Types, VM!OnlyTheNamedVMQuits
  <1>3. \A m \in VMs : VM!Alive(m)' <=> VM!Alive(m)
    BY <1>1 DEF Inv, VM!WinVMAssumption, Types, VM!Alive, VM!Nobody
  <1>4. \A m \in VMs : Phase(m)'
    BY <1>1, <1>3 DEF Inv
  <1>5. VM!instance' = VM!instance /\ VM!returned' = VM!returned
    BY <1>1, <1>3 DEF VM!instance, VM!returned
  <1> QED  BY <1>2, <1>4, <1>5 DEF Inv, VM!WinVMAssumption, Implements

LEMMA CrashSafe ==
  ASSUME Inv, VM!Crash PROVE Inv' /\ Implements
  <1> USE DEF Phase, LaunchPhase, RemovalPhase
  <1>1. /\ pc' = [n \in VMs |-> IF pc[n] \in {"idle", "over"} THEN pc[n] ELSE "orphan"]
        /\ rm' = [n \in VMs |-> "none"] /\ host' = "down"
        /\ UNCHANGED <<record, files, pid, proc, quits, unseen>>
    BY DEF VM!Crash
  <1>2. Types' /\ VM!OnlyTheNamedVMQuits' /\ (\A m \in VMs : VM!Alive(m)' <=> VM!Alive(m))
    BY <1>1 DEF Inv, Types, Places, VM!OnlyTheNamedVMQuits, VM!Alive
  <1>3. \A m \in VMs : Phase(m)'
    BY <1>1, <1>2 DEF Inv
  <1>4. ASSUME NEW m \in VMs
        PROVE  /\ VM!instance'[m] = VM!instance[m]
               /\ pc[m] = "idle" <=> VM!instance[m] = "none"
               /\ pc[m] = "idle" \/ (pc[m] = "over" /\ m \notin unseen) => VM!returned'[m] = VM!returned[m]
               /\ ~(pc[m] = "idle" \/ (pc[m] = "over" /\ m \notin unseen)) => VM!returned'[m] = "lost"
               /\ pc[m] = "over" /\ m \notin unseen => VM!returned[m] \in {"ended", "over"}
    <2>1. Phase(m) /\ Phase(m)' /\ pc[m] \in Places
      BY <1>3, <1>4 DEF Inv, Types
    <2>2. (VM!Alive(m)' <=> VM!Alive(m)) /\ record'[m] = record[m] /\ pid'[m] = pid[m] /\ (m \in unseen' <=> m \in unseen)
          /\ pc'[m] = (IF pc[m] \in {"idle", "over"} THEN pc[m] ELSE "orphan")
      BY <1>1, <1>2
    <2> QED  BY <2>1, <2>2, MappedNow, MappedNext
  <1>5. VM!instance' = VM!instance
    BY <1>4 DEF VM!instance
  <1> DEFINE keep == {m \in VMs : pc[m] = "over" /\ m \notin unseen}
  <1>6. VM!returned' = [m \in VMs |-> IF VM!instance[m] = "none" \/ m \in keep THEN VM!returned[m] ELSE "lost"]
    <2>1. VM!returned' = [m \in VMs |-> VM!returned'[m]]
      BY DEF VM!returned
    <2> QED  BY <1>4, <2>1
  <1>7. keep \in SUBSET {m \in VMs : VM!returned[m] \in {"ended", "over"}}
    BY <1>4
  <1>8. VM!Contract!Crash
    BY <1>5, <1>6, <1>7 DEF VM!Contract!Crash
  <1> QED  BY <1>2, <1>3, <1>8 DEF Inv, VM!WinVMAssumption, Implements, VM!Contract!Next

LEMMA RebootSafe ==
  ASSUME Inv, VM!Reboot PROVE Inv' /\ Implements
  <1> USE DEF Phase, LaunchPhase, RemovalPhase
  <1>1. proc' = [p \in Pids |-> VM!Nobody] /\ UNCHANGED <<host, pc, rm, record, files, pid, quits, unseen>>
    BY DEF VM!Reboot, VM!launch
  <1>2. Types' /\ VM!OnlyTheNamedVMQuits' /\ (\A m \in VMs : ~VM!Alive(m)')
    BY <1>1 DEF Inv, VM!WinVMAssumption, Types, VM!OnlyTheNamedVMQuits, VM!Alive, VM!Nobody
  <1>3. \A m \in VMs : Phase(m)'
    BY <1>1, <1>2 DEF Inv
  <1> DEFINE S == {m \in VMs : VM!Alive(m)}
  <1>4. ASSUME NEW m \in S
        PROVE  /\ VM!instance[m] = "live" /\ VM!instance'[m] \in {"dead", "gone"}
               /\ VM!instance'[m] = "gone" => VM!returned[m] = "lost"
    <2>1. /\ Phase(m) /\ Phase(m)' /\ pc'[m] = pc[m] /\ pid'[m] = pid[m] /\ record'[m] = record[m] /\ ~VM!Alive(m)'
          /\ pc[m] # "idle" /\ pid[m] # 0 /\ (record[m] = "none" => m \in unseen)
      BY <1>1, <1>2, <1>3, <1>4 DEF Inv, VM!Alive
    <2> QED  BY <1>4, <2>1, MappedNow, MappedNext
  <1>5. \A m \in VMs \ S : VM!instance'[m] = VM!instance[m]
    BY <1>1, <1>2 DEF VM!instance
  <1>6. \A m \in VMs : VM!returned'[m] = VM!returned[m]
    BY <1>1 DEF VM!returned
  <1> HIDE DEF S
  <1>7. S \in SUBSET VMs
    BY DEF S
  <1>8. Implements
    BY <1>4, <1>5, <1>6, <1>7, DieStep
  <1> QED  BY <1>2, <1>3, <1>8 DEF Inv, VM!WinVMAssumption

LEMMA CleanupOrphansSafe ==
  ASSUME Inv, VM!CleanupOrphans PROVE Inv' /\ Implements
  <1> USE DEF Phase, LaunchPhase, RemovalPhase
  <1>1. /\ host = "down" /\ host' = "up" /\ files' = [n \in VMs |-> files[n] \cap {"pid"}]
        /\ UNCHANGED <<pc, rm, record, pid, proc, quits, unseen>>
    BY DEF VM!CleanupOrphans
  <1>2. Types' /\ VM!OnlyTheNamedVMQuits' /\ (\A m \in VMs : VM!Alive(m)' <=> VM!Alive(m))
    BY <1>1 DEF Inv, Types, VM!OnlyTheNamedVMQuits, VM!Alive
  <1>3. \A m \in VMs : Phase(m)'
    BY <1>1, <1>2 DEF Inv
  <1>4. VM!instance' = VM!instance /\ VM!returned' = VM!returned
    BY <1>1 DEF VM!instance, VM!returned, VM!Alive
  <1> QED  BY <1>2, <1>3, <1>4 DEF Inv, VM!WinVMAssumption, Implements

-----------------------------------------------------------------------------
(* The handle and RemoveOwnedRunner. *)

LEMMA HandleExitSafe ==
  ASSUME Inv, NEW n \in VMs, VM!HandleExit(n) PROVE Inv' /\ Implements
  <1> USE DEF Phase, LaunchPhase, RemovalPhase
  <1>1. /\ pc[n] = "watched" /\ pc' = [pc EXCEPT ![n] = "exited"]
        /\ UNCHANGED <<host, rm, record, files, pid, quits, unseen>>
        /\ \/ ~VM!Alive(n) /\ proc' = proc
           \/ VM!Alive(n) /\ proc' = [proc EXCEPT ![pid[n]] = VM!Nobody]
    BY DEF VM!HandleExit, VM!At, VM!Goto
  <1>2. Phase(n) /\ record[n] # "none" /\ rm[n] = "none" /\ n \notin unseen /\ pid[n] # 0
    BY <1>1 DEF Inv, Types
  <1>3. Types' /\ VM!OnlyTheNamedVMQuits' /\ ~VM!Alive(n)' /\ pc'[n] = "exited"
    BY <1>1, <1>2 DEF Inv, VM!WinVMAssumption, Types, Places, VM!OnlyTheNamedVMQuits, VM!Alive, VM!Nobody
  <1>4. \A m \in VMs \ {n} : VM!Alive(m)' <=> VM!Alive(m)
    BY <1>1, ProcessOfOne DEF Inv, Types, VM!Alive
  <1>5. Only(n)
    BY <1>1, <1>4 DEF Only, Inv, Types
  <1>6. Phase(n)'
    BY <1>1, <1>2, <1>3
  <1>7. Inv'
    BY <1>3, <1>5, <1>6, OnlyInv
  <1>8. VM!instance[n] \in {"live", "dead"} /\ VM!returned[n] = "handle" /\ VM!instance'[n] = "dead" /\ VM!returned'[n] = "ended"
    BY <1>1, <1>2, <1>3, <1>6, MappedNow, MappedNext
  <1> QED  BY <1>5, <1>7, <1>8, EndedStep DEF VM!Contract!After

\* RemoveOwnedRunner asks only the VM of the record to quit.
LEMMA QuitsNamed ==
  ASSUME Inv, NEW n \in VMs, VM!RemoveOwnedRunner(n) PROVE VM!OnlyTheNamedVMQuits'
  BY DEF Inv, VM!RemoveOwnedRunner, VM!OnlyTheNamedVMQuits, VM!QMPQuitNamed

LEMMA RemoveOwnedRunnerSafe ==
  ASSUME Inv, NEW n \in VMs, VM!RemoveOwnedRunner(n) PROVE Inv' /\ Implements
  <1> USE DEF Phase, LaunchPhase, RemovalPhase
  <1>1. /\ UNCHANGED <<host, record, files, pid, proc>> /\ record[n] # "none" /\ rm[n] = "none" /\ host = "up"
        /\ pc[n] = "exited" \/ (pc[n] = "orphan" /\ n \in OwnedVMs)
        /\ Phase(n) /\ (\A m \in VMs : VM!Alive(m)' <=> VM!Alive(m))
    BY DEF VM!RemoveOwnedRunner, VM!Removable, VM!At, Inv, VM!Alive
  <1>2. CASE /\ UNCHANGED unseen
             /\ \/ rm' = [rm EXCEPT ![n] = "quitting"] /\ UNCHANGED pc
                \/ n \notin OwnedVMs /\ VM!Goto(n, "over") /\ UNCHANGED rm
    <2>1. /\ Types' /\ Only(n)
          /\ \/ rm'[n] = "quitting" /\ pc'[n] = pc[n]
             \/ n \notin OwnedVMs /\ pc'[n] = "over" /\ rm'[n] = rm[n]
      BY <1>1, <1>2 DEF Inv, Types, Places, Only, VM!Goto
    <2>2. Phase(n)'
      BY <1>1, <1>2, <2>1
    <2>3. Inv'
      BY <2>1, <2>2, OnlyInv, QuitsNamed
    <2>4. VM!instance'[n] = VM!instance[n] /\ VM!returned'[n] = VM!returned[n]
      BY <1>1, <1>2, <2>1, <2>2, MappedNow, MappedNext
    <2> QED  BY <2>1, <2>3, <2>4, StutterStep
  <1>3. CASE /\ rm' = [rm EXCEPT ![n] = "artifacts"] /\ UNCHANGED pc
             /\ unseen' = IF VM!Alive(n) THEN unseen \cup {n} ELSE unseen
    <2>1. Types' /\ Only(n) /\ rm'[n] = "artifacts" /\ pc'[n] = pc[n] /\ (n \in unseen' <=> n \in unseen \/ VM!Alive(n))
      BY <1>1, <1>3 DEF Inv, Types, Places, Only
    <2>2. Phase(n)'
      BY <1>1, <1>3, <2>1
    <2>3. Inv'
      BY <2>1, <2>2, OnlyInv, QuitsNamed
    <2>4. VM!instance'[n] = VM!instance[n] /\ VM!returned'[n] = VM!returned[n]
      BY <1>1, <1>3, <2>1, <2>2, MappedNow, MappedNext
    <2> QED  BY <2>1, <2>3, <2>4, StutterStep
  <1> QED  BY <1>2, <1>3 DEF VM!RemoveOwnedRunner

LEMMA WaitForExitSafe ==
  ASSUME Inv, NEW n \in VMs, VM!WaitForExit(n) PROVE Inv' /\ Implements
  <1> USE DEF Phase, LaunchPhase, RemovalPhase
  <1>1. /\ UNCHANGED <<host, pc, record, files, pid, proc, quits, unseen>> /\ rm' = [rm EXCEPT ![n] = "artifacts"]
        /\ rm[n] = "quitting" /\ proc[pid[n]] = VM!Nobody /\ Phase(n)
    BY DEF VM!WaitForExit, VM!launch, Inv
  <1>2. /\ Types' /\ Only(n) /\ rm'[n] = "artifacts" /\ VM!OnlyTheNamedVMQuits' /\ ~VM!Alive(n) /\ ~VM!Alive(n)'
    BY <1>1 DEF Inv, VM!WinVMAssumption, Types, Only, VM!Alive, VM!Nobody, VM!OnlyTheNamedVMQuits
  <1>3. Phase(n)'
    BY <1>1, <1>2
  <1>4. VM!instance' = VM!instance /\ VM!returned' = VM!returned
    BY <1>1 DEF VM!instance, VM!returned, VM!Alive
  <1> QED  BY <1>2, <1>3, <1>4, OnlyInv DEF Implements

LEMMA RemoveArtifactsSafe ==
  ASSUME Inv, NEW n \in VMs, VM!RemoveArtifacts(n) PROVE Inv' /\ Implements
  <1> USE DEF Phase, LaunchPhase, RemovalPhase
  <1>1. /\ UNCHANGED <<host, record, pid, proc, quits, unseen>> /\ rm[n] = "artifacts" /\ host = "up"
        /\ Phase(n) /\ (\A m \in VMs : VM!Alive(m)' <=> VM!Alive(m))
    BY DEF VM!RemoveArtifacts, Inv, VM!Alive
  <1> DEFINE Kept == /\ Types' /\ Only(n) /\ VM!OnlyTheNamedVMQuits' /\ files'[n] \subseteq files[n]
                     /\ \/ rm'[n] = "record" /\ pc'[n] = pc[n] /\ files'[n] = {}
                        \/ rm'[n] = "none" /\ (pc'[n] = pc[n] \/ (n \notin OwnedVMs /\ pc'[n] = "over"))
  <1>2. Kept
    <2>1. ASSUME files' = [files EXCEPT ![n] = {}], rm' = [rm EXCEPT ![n] = "record"], pc' = pc
          PROVE  Kept
      BY <1>1, <2>1 DEF Inv, Types, Places, Only, VM!OnlyTheNamedVMQuits
    <2>2. ASSUME NEW f \in files[n], files' = [files EXCEPT ![n] = {f}], rm' = [rm EXCEPT ![n] = "none"],
                 pc' = pc \/ (n \notin OwnedVMs /\ VM!Goto(n, "over"))
          PROVE  Kept
      BY <1>1, <2>2 DEF Inv, Types, Places, Only, VM!OnlyTheNamedVMQuits, VM!Goto
    <2> HIDE DEF Kept
    <2> QED  BY <2>1, <2>2 DEF VM!RemoveArtifacts
  <1>3. Phase(n)'
    BY <1>1, <1>2
  <1>4. Inv'
    BY <1>2, <1>3, OnlyInv
  <1>5. record[n] # "none" /\ pc[n] \in {"exited", "orphan"} /\ (n \notin OwnedVMs => pc[n] = "exited" /\ n \notin unseen)
    BY <1>1
  <1>6. VM!instance'[n] = VM!instance[n] /\ VM!returned'[n] = VM!returned[n]
    BY <1>1, <1>2, <1>3, <1>5, MappedNow, MappedNext
  <1> QED  BY <1>2, <1>4, <1>6, StutterStep

LEMMA RemoveRecordSafe ==
  ASSUME Inv, NEW n \in VMs, VM!RemoveRecord(n) PROVE Inv' /\ Implements
  <1> USE DEF Phase, LaunchPhase, RemovalPhase
  <1>1. /\ record' = [record EXCEPT ![n] = "none"] /\ rm' = [rm EXCEPT ![n] = "none"] /\ pc' = [pc EXCEPT ![n] = "over"]
        /\ UNCHANGED <<host, files, pid, proc, quits, unseen>> /\ rm[n] = "record" /\ Phase(n)
    BY DEF VM!RemoveRecord, VM!Goto, Inv
  <1>2. /\ Types' /\ Only(n) /\ VM!OnlyTheNamedVMQuits' /\ (VM!Alive(n)' <=> VM!Alive(n))
        /\ record'[n] = "none" /\ rm'[n] = "none" /\ pc'[n] = "over"
    BY <1>1 DEF Inv, Types, Places, Only, VM!OnlyTheNamedVMQuits, VM!Alive
  <1>3. pc[n] \in {"exited", "orphan"} /\ record[n] # "none"
    BY <1>1
  <1>4. Phase(n)'
    BY <1>1, <1>2
  <1>5. Inv'
    BY <1>2, <1>4, OnlyInv
  <1>6. CASE VM!Alive(n)
    <2>1. VM!instance'[n] = VM!instance[n] /\ VM!returned'[n] = VM!returned[n]
      BY <1>1, <1>2, <1>3, <1>4, <1>6, MappedNow, MappedNext
    <2> QED  BY <1>2, <1>5, <2>1, StutterStep
  <1>7. CASE ~VM!Alive(n) /\ n \in unseen
    <2>1. /\ VM!instance[n] \in {"made", "dead"} /\ VM!returned[n] = "lost" /\ VM!instance'[n] = "gone" /\ VM!returned'[n] = "lost"
      BY <1>1, <1>2, <1>3, <1>4, <1>7, MappedNow, MappedNext
    <2> QED  BY <1>2, <1>5, <2>1, VanishesStep
  <1>8. CASE ~VM!Alive(n) /\ n \notin unseen
    <2>1. /\ VM!instance[n] \notin {"live", "pending"} /\ VM!returned[n] \in {"ended", "lost"} /\ VM!instance'[n] = "gone" /\ VM!returned'[n] = "over"
      BY <1>1, <1>2, <1>3, <1>4, <1>8, MappedNow, MappedNext
    <2> QED  BY <1>2, <1>5, <2>1, DischargedStep
  <1> QED  BY <1>6, <1>7, <1>8

-----------------------------------------------------------------------------
LEMMA InitInv == VM!WinVMAssumption /\ VM!Init => Inv /\ VM!Contract!Init
  <1> SUFFICES ASSUME VM!WinVMAssumption, VM!Init PROVE Inv /\ VM!Contract!Init
    OBVIOUS
  <1>1. Types
    BY DEF VM!Init, Types, Places
  <1>2. \A n \in VMs : Phase(n) /\ pc[n] = "idle"
    BY DEF VM!Init, Phase, LaunchPhase, RemovalPhase, VM!Alive
  <1>3. \A n \in VMs : VM!instance[n] = "none" /\ VM!returned[n] = "nothing"
    BY <1>2, MappedNow
  <1>4. VM!instance = [n \in VMs |-> "none"] /\ VM!returned = [n \in VMs |-> "nothing"]
    BY <1>3 DEF VM!instance, VM!returned
  <1> QED  BY <1>1, <1>2, <1>4 DEF Inv, VM!Init, VM!OnlyTheNamedVMQuits, VM!Contract!Init

LEMMA NextSafe == Inv /\ [VM!Next]_(VM!vars) => Inv' /\ [VM!Contract!Next]_(VM!Contract!vars)
  <1> SUFFICES ASSUME Inv, [VM!Next]_(VM!vars) PROVE Inv' /\ Implements
    BY DEF Implements, VM!Contract!vars
  <1>1. ASSUME NEW n \in VMs, VM!Launch(n) PROVE Inv' /\ Implements
    BY <1>1, WriteRecordSafe, StepSafe, StartQEMUSafe, RecordStartedSafe DEF VM!Launch, VM!CreateOverlay, VM!BuildISO, VM!CopyVars
  <1>2. ASSUME NEW n \in VMs, VM!Boot(n) \/ VM!Exit(n) PROVE Inv' /\ Implements
    BY <1>2, BootSafe, ExitSafe
  <1>3. ASSUME NEW n \in VMs, VM!Remove(n) PROVE Inv' /\ Implements
    BY <1>3, HandleExitSafe, RemoveOwnedRunnerSafe, WaitForExitSafe, RemoveArtifactsSafe, RemoveRecordSafe DEF VM!Remove
  <1>4. CASE (\E p \in Pids : VM!Foreign(p)) \/ VM!Crash \/ VM!Reboot \/ VM!CleanupOrphans
    BY <1>4, ForeignSafe, CrashSafe, RebootSafe, CleanupOrphansSafe
  <1>5. CASE UNCHANGED VM!vars
    BY <1>5 DEF VM!vars, Inv, VM!WinVMAssumption, Types, Phase, LaunchPhase, RemovalPhase, VM!Alive, VM!OnlyTheNamedVMQuits,
       Implements, VM!instance, VM!returned
  <1> QED  BY <1>1, <1>2, <1>3, <1>4, <1>5 DEF VM!Next

\* A step of any backend is a step of the VM backend or none.
LEMMA BackendsStep == [BackendsNext]_allVars => [VM!Next]_(VM!vars)
  BY DEF BackendsNext, allVars, vmVars, VM!vars

\* Whatever a launch left, on disk or running, has its record at every crash (the record is written
\* first and removed last), no record is removed while its VM runs, and RemoveOwnedRunner tells
\* nobody to quit but the VM its record names, for any reuse of PIDs and ports.
THEOREM VMRecordsStaySafe == ASSUME VM!WinVMAssumption PROVE BackendsSpec => []VMRecordsAreSafe
  <1>1. Inv => VMRecordsAreSafe
    <2>1. Inv => VM!RecordCoversVM
      BY DEF Inv, Types, Phase, LaunchPhase, VM!RecordCoversVM
    <2>2. Inv => VM!RunningVMKeepsRecord
      BY DEF Inv, Types, Phase, RemovalPhase, VM!RunningVMKeepsRecord
    <2> QED  BY <2>1, <2>2 DEF Inv, VMRecordsAreSafe, VM!VMRecordsAreSafe
  <1>2. BackendsInit => Inv
    BY InitInv DEF BackendsInit
  <1>3. Inv /\ [BackendsNext]_allVars => Inv'
    BY NextSafe, BackendsStep
  <1> QED  BY <1>1, <1>2, <1>3, PTL DEF BackendsSpec

\* vmBackend keeps the contract of the Backend interface: every step of Launch, its handle,
\* RemoveOwnedRunner, QEMU and the machine is a step of the contract or none.
THEOREM VMImplementsContract == ASSUME VM!WinVMAssumption PROVE BackendsSpec => VMKeepsContract
  <1>1. BackendsInit => Inv /\ VM!Contract!Init
    BY InitInv DEF BackendsInit
  <1>2. Inv /\ [BackendsNext]_allVars => Inv' /\ [VM!Contract!Next]_(VM!Contract!vars)
    BY NextSafe, BackendsStep
  <1> QED  BY <1>1, <1>2, PTL DEF BackendsSpec, VMKeepsContract, VM!VMKeepsContract, VM!Contract!Spec
=============================================================================
