-------------------------- MODULE ContainerBackend --------------------------
(***************************************************************************)
(* The two container backends, call by call.  dockerBackend talks to a     *)
(* daemon that knows containers by ID and by name; containerdBackend runs  *)
(* nerdctl, which is given names.  Every call can lose its answer, before  *)
(* or after the daemon has acted, and a create may be carried out when     *)
(* nobody waits for it any more, so Launch may fail and still leave a      *)
(* container behind.  A launch of a scale set is owned: its container must *)
(* outlive its death until RemoveOwnedRunner, so that a restarted process  *)
(* finds it again.  Any other launch must leave no container.              *)
(*                                                                         *)
(* The callers are runner.RunOnce (one Kill, then it gives up) for the     *)
(* launches without an owner and scaleset.cleanupRunner (Kill and          *)
(* RemoveOwnedRunner until they succeed) for the owned ones.  Other people *)
(* have containers too, and one of them may hold the name of a launch.     *)
(***************************************************************************)
EXTENDS Integers, FiniteSets

CONSTANTS
  Launches,    \* the launches of this process, each with its own name
  Owned,       \* those of a scale set
  Bystanders,  \* containers of others, some of which exist at the start
  NameOf,      \* the name of a launch's container and of a bystander
  ScopeOf,     \* the instance, target and pool in a container's labels; "none" without labels
  Mine,        \* the scope this process reconciles
  MaxFaults    \* bound: calls that lose their answer

Cids == Launches \cup Bystanders

ASSUME BackendAssumption ==
  /\ MaxFaults \in Nat
  /\ Owned \subseteq Launches /\ Launches \cap Bystanders = {}
  /\ \A l, k \in Launches : l # k => NameOf[l] # NameOf[k]
  /\ \A l \in Launches : l \in Owned <=> ScopeOf[l] = Mine

VARIABLES
  docker,   \* the backend, one for good: dockerBackend, or else containerdBackend
  ctr,      \* the daemon's containers: absent, created, running, exited; pending (the daemon has
            \* the request), late (created after its caller had given up its handle)
  ph,       \* per launch: how far its caller is
  known,    \* per launch: its handle carries the container's ID and not only its name
  faults,   \* answers lost so far
  crashed,  \* the process died and was started again
  lst,      \* ListOwnedRunners of the reconciler: its step, the IDs to inspect, its answer
  hurt      \* history: bystanders that this process stopped or removed

vars == <<docker, ctr, ph, known, faults, crashed, lst, hurt>>

NoList == [st |-> "none", ids |-> {}, found |-> {}]

Init ==
  /\ docker \in BOOLEAN
  /\ ctr \in [Cids -> {"absent", "running"}] /\ \A l \in Launches : ctr[l] = "absent"
  /\ \A b, c \in Bystanders : b # c /\ NameOf[b] = NameOf[c] => "absent" \in {ctr[b], ctr[c]}
  /\ ph = [l \in Launches |-> "idle"] /\ known = [l \in Launches |-> FALSE]
  /\ faults = 0 /\ crashed = FALSE /\ lst = NoList /\ hurt = {}

Present == {c \in Cids : ctr[c] \notin {"absent", "pending"}}

-----------------------------------------------------------------------------
(* Handles and labels. *)

\* What a name means to the daemon.
ByName(l) == {c \in Present : NameOf[c] = NameOf[l]}
\* What a handle's ID() means: the ID the daemon answered, or the name of the request.
Resource(l) == IF known[l] THEN {l} \cap Present ELSE ByName(l)
\* What Wait and Kill act on; containerdHandle always uses the name.
Target(l) == IF docker THEN Resource(l) ELSE ByName(l)

\* Mutant: the labels of a failed launch are not compared.
AnyLabels(l) == TRUE
\* labelsMatch(actual, failedLaunchLabels): what holds the name is labelled as managed by
\* multirunner and, for an owned launch, with the ownership and the runner's ID.
failedLaunchMatches(l) ==
  \A c \in ByName(l) : (c \in Launches \/ ScopeOf[c] # "none") /\ (l \in Owned => c = l)

\* HostConfig.AutoRemove; nerdctl run is not given --rm.
AutoRemove(l) == docker /\ l \notin Owned

\* Mutant: ContainerList without All, which leaves out what does not run.
RunningMatches(c) == ScopeOf[c] = Mine /\ ctr[c] = "running"
\* reconciliationLabels with ownedRunner: the scope without the scale set and the runner,
\* and a runner ID to delete.
reconciliationMatches(c) == ScopeOf[c] = Mine

Stopped(S) == [c \in Cids |-> IF c \in S /\ ctr[c] = "running" THEN "exited" ELSE ctr[c]]
Removed(S) == [c \in Cids |-> IF c \in S \cap Present THEN "absent" ELSE ctr[c]]

-----------------------------------------------------------------------------
(* Calls. *)

\* What Launch, Wait, Kill and RemoveOwnedRunner have returned to the caller of a launch.
ReturnedTo(phase, owned) ==
  CASE phase \in {"idle", "created"} -> "nothing"
    [] phase \in {"up", "kill", "stopped", "stopfailed", "inspected", "abandoned"} -> "handle"
    [] phase = "ended" \/ (phase = "killed" /\ owned) -> "ended"
    [] phase = "removed" \/ (phase = "killed" /\ ~owned) -> "over"
    [] phase = "lost" -> "lost"

\* A call of a launch's caller: answered, or its answer is lost before or after its effect.
Call(l, after, ok, err) ==
  /\ \/ ctr' = after /\ ph' = [ph EXCEPT ![l] = ok] /\ faults' = faults
     \/ /\ faults < MaxFaults /\ faults' = faults + 1
        /\ ctr' \in {ctr, after} /\ ph' = [ph EXCEPT ![l] = err]
  /\ hurt' = hurt \cup {b \in Bystanders : ctr'[b] # ctr[b]}
  /\ UNCHANGED <<crashed, lst>>

\* The caller gives up waiting for the answer to a create that the daemon has not carried out.
GiveUp(l) ==
  /\ faults < MaxFaults /\ faults' = faults + 1
  /\ ctr' = [ctr EXCEPT ![l] = "pending"] /\ ph' = [ph EXCEPT ![l] = "kill"]
  /\ UNCHANGED <<crashed, lst, hurt>>

\* Launch up to the daemon's answer: ContainerCreate, or nerdctl run -d, which also starts.
\* A name in use is refused.  Every failure from here on returns a handle, by name.
Create(l) ==
  /\ ph[l] = "idle" /\ ~crashed
  /\ IF ByName(l) # {}
     THEN /\ ph' = [ph EXCEPT ![l] = "kill"]
          /\ UNCHANGED <<ctr, known, faults, crashed, lst, hurt>>
     ELSE LET made == [ctr EXCEPT ![l] = IF docker THEN "created" ELSE "running"]
          IN /\ \/ Call(l, made, IF docker THEN "created" ELSE "up", "kill")
                \/ ~docker /\ Call(l, [ctr EXCEPT ![l] = "created"], "kill", "kill")
                \/ GiveUp(l)
             /\ known' = [known EXCEPT ![l] = ph'[l] # "kill"]

\* ContainerStart; a failure returns the handle with its ID.
Start(l) ==
  /\ ph[l] = "created"
  /\ Call(l, [ctr EXCEPT ![l] = "running"], "up", "kill")
  /\ UNCHANGED known

\* Mutant: a cancelled or lost wait is taken for the end of the runner.
WaitCancelled(l) ==
  /\ ph[l] = "up"
  /\ Call(l, IF docker \/ l \in Owned THEN ctr ELSE Removed(Target(l)), "ended", "ended")
  /\ UNCHANGED known

\* Wait: it returns when the container is not running, or early with an error (the context is
\* cancelled, the connection is lost).  containerd removes the container in either case,
\* unless it is preserved; a failed removal is an error of Wait.
Wait(l) ==
  /\ ph[l] = "up"
  /\ \E end \in (IF \A c \in Target(l) : ctr[c] = "exited" THEN {"ended"} ELSE {}) \cup {"kill"} :
       Call(l, IF docker \/ l \in Owned THEN ctr ELSE Removed(Target(l)), end, "kill")
  /\ UNCHANGED known

\* What a failed Kill means: scale-set cleanup calls it again, RunOnce gives up.
Failed(l) == IF l \in Owned THEN "kill" ELSE "abandoned"

\* dockerHandle.Kill: stop, and that is all if the container is preserved ...
KillStop(l) ==
  /\ docker /\ ph[l] = "kill"
  /\ IF l \in Owned THEN Call(l, Stopped(Target(l)), "killed", "kill")
     ELSE Call(l, Stopped(Target(l)), "stopped", "stopfailed")
  /\ UNCHANGED known

\* Mutant: a failed stop ends Kill.
RemoveAfterStopOnly(l) ==
  /\ docker /\ ph[l] \in {"stopped", "stopfailed"}
  /\ Call(l, IF ph[l] = "stopped" THEN Removed(Target(l)) ELSE ctr, "killed", Failed(l))
  /\ UNCHANGED known

\* ... and remove by force, whatever stop said; either error is Kill's.
KillRemove(l) ==
  /\ docker /\ ph[l] \in {"stopped", "stopfailed"}
  /\ Call(l, Removed(Target(l)), IF ph[l] = "stopped" THEN "killed" ELSE Failed(l), Failed(l))
  /\ UNCHANGED known

\* containerdHandle.Kill of a failed launch inspects what holds the name: nothing ends Kill,
\* other labels are an error.
KillInspect(l) ==
  /\ ~docker /\ ph[l] = "kill" /\ ~known[l]
  /\ Call(l, ctr, CASE ByName(l) = {} -> "killed"
                    [] ByName(l) # {} /\ failedLaunchMatches(l) -> "inspected"
                    [] OTHER -> Failed(l), Failed(l))
  /\ UNCHANGED known

\* nerdctl stop, or rm -f for a container that is not preserved; a missing one is no error.
KillNerdctl(l) ==
  /\ ~docker /\ ph[l] = (IF known[l] THEN "kill" ELSE "inspected")
  /\ Call(l, IF l \in Owned THEN Stopped(Target(l)) ELSE Removed(Target(l)), "killed", Failed(l))
  /\ UNCHANGED known

\* RemoveOwnedRunner of the handle's ID, after the registration is gone; retried until it
\* succeeds.
RemoveOwnedRunner(l) ==
  /\ l \in Owned /\ ph[l] \in {"killed", "ended"}
  /\ Call(l, Removed(Resource(l)), "removed", ph[l])
  /\ UNCHANGED known

-----------------------------------------------------------------------------
(* The daemon, the others and a restart. *)

\* A runner's process ends, and the daemon removes what has AutoRemove.
Exit(l) ==
  /\ ctr[l] = "running" /\ ctr' = Stopped({l})
  /\ UNCHANGED <<ph, known, faults, crashed, lst, hurt>>
DaemonRemoves(l) ==
  /\ ctr[l] = "exited" /\ AutoRemove(l) /\ ctr' = Removed({l})
  /\ UNCHANGED <<ph, known, faults, crashed, lst, hurt>>

\* The daemon carries out a create that was given up.  Nobody starts that container.
LateCreate(l) ==
  /\ ctr[l] = "pending"
  /\ ctr' = [ctr EXCEPT ![l] = IF ReturnedTo(ph[l], l \in Owned) = "handle" THEN "created" ELSE "late"]
  /\ UNCHANGED <<ph, known, faults, crashed, lst, hurt>>

\* The owner of a bystander takes it away.
Leave(b) ==
  /\ ctr[b] # "absent" /\ ctr' = Removed({b})
  /\ UNCHANGED <<ph, known, faults, crashed, lst, hurt>>

\* The process dies in the middle of anything and is started again: its handles are lost.
Crash ==
  /\ ~crashed /\ crashed' = TRUE
  /\ ph' = [l \in Launches |-> IF ph[l] = "idle" THEN "idle" ELSE "lost"]
  /\ UNCHANGED <<ctr, known, faults, lst, hurt>>

-----------------------------------------------------------------------------
(* ListOwnedRunners and the removal of what it finds. *)

\* The scale set's periodic reconciliation, of a restarted process or of one that has no
\* handle of an owned runner; the one of a process that has skips what its handles name, and
\* ScaleSetLauncher models it.  The daemon's answer to the label filter: every match, and
\* whatever else a filter that does not combine its labels lets through.
ListIDs ==
  /\ lst.st = "none"
  /\ crashed \/ \A l \in Owned : ph[l] \in {"idle", "removed"}
  /\ \E extra \in SUBSET {c \in Present : ScopeOf[c] \notin {Mine, "none"}} :
       lst' = [st |-> "inspect", found |-> {},
               ids |-> {c \in Present : reconciliationMatches(c)} \cup extra]
  /\ UNCHANGED <<ctr, ph, known, faults, crashed, hurt>>

\* One candidate.  Docker's answer carried the labels; nerdctl inspects, and a container that
\* is gone by then fails the whole list.
Inspect(c) ==
  /\ lst.st = "inspect" /\ c \in lst.ids
  /\ lst' = IF ~docker /\ c \notin Present THEN NoList
            ELSE [lst EXCEPT !.ids = @ \ {c},
                             !.found = IF reconciliationMatches(c) THEN @ \cup {c} ELSE @]
  /\ UNCHANGED <<ctr, ph, known, faults, crashed, hurt>>

ListDone ==
  /\ lst.st = "inspect" /\ lst.ids = {} /\ lst' = [lst EXCEPT !.st = "remove"]
  /\ UNCHANGED <<ctr, ph, known, faults, crashed, hurt>>

\* RemoveOwnedRunner by ID of one of them; after an error the next round finds it again.
RemoveFound(c) ==
  /\ lst.st = "remove" /\ c \in lst.found
  /\ \/ ctr' = Removed({c}) /\ faults' = faults
     \/ faults < MaxFaults /\ faults' = faults + 1 /\ ctr' \in {ctr, Removed({c})}
  /\ hurt' = hurt \cup {b \in Bystanders : ctr'[b] # ctr[b]}
  /\ lst' = [lst EXCEPT !.found = @ \ {c}]
  /\ UNCHANGED <<ph, known, crashed>>

NextRound ==
  /\ lst.st = "remove" /\ lst.found = {} /\ lst' = NoList
  /\ UNCHANGED <<ctr, ph, known, faults, crashed, hurt>>

-----------------------------------------------------------------------------
Caller(l) ==
  \/ Start(l) \/ Wait(l) \/ KillStop(l) \/ KillRemove(l)
  \/ KillInspect(l) \/ KillNerdctl(l) \/ RemoveOwnedRunner(l)

Reconcile == ListIDs \/ ListDone \/ NextRound \/ \E c \in Cids : Inspect(c) \/ RemoveFound(c)

Next ==
  /\ \/ \E l \in Launches : Create(l) \/ Caller(l) \/ Exit(l) \/ DaemonRemoves(l) \/ LateCreate(l)
     \/ \E b \in Bystanders : Leave(b)
     \/ Crash
     \/ Reconcile
  /\ docker' = docker

Spec == Init /\ [][Next]_vars

-----------------------------------------------------------------------------
(* What the callers see of it. *)

\* A launch that has not begun has no instance yet; one without a container has none any more.
InstanceOf(phase, c) ==
  IF phase = "idle" THEN "none"
  ELSE CASE c = "absent" -> "gone" [] c = "created" -> "made" [] c = "running" -> "live" [] c = "exited" -> "dead"
         [] c \in {"pending", "late"} -> c

instance == [l \in Launches |-> InstanceOf(ph[l], ctr[l])]
returned == [l \in Launches |-> ReturnedTo(ph[l], l \in Owned)]

Contract == INSTANCE Backend WITH Runners <- Launches, inst <- instance, told <- returned

-----------------------------------------------------------------------------

\* Somebody else's container is in the way of a launch's cleanup, which knows no more than the
\* name: Docker compares no labels, and containerd for a pool's launch only the managed one.
InTheWay(b, l) ==
  /\ NameOf[b] = NameOf[l] /\ ph[l] # "idle" /\ ~known[l]
  /\ docker \/ (l \notin Owned /\ ScopeOf[b] # "none")

\* The removal of what ListOwnedRunners found never reaches the container of somebody else, and
\* neither does the cleanup of a launch that got an ID or, on containerd, of any launch whose
\* name is held by a container without its labels.  What remains is a failed create: Docker
\* then stops and removes whatever holds the name.
BystandersUnharmed == \A b \in hurt : \E l \in Launches : InTheWay(b, l)

\* A Kill that reports success for a launch without an owner has left no container, whether
\* the launch had worked, had failed or had lost its answer.  Only a create that the daemon
\* carries out after Kill leaves one, which never runs.
KilledIsGone ==
  \A l \in Launches \ Owned : ph[l] = "killed" => ctr[l] \in {"absent", "pending", "late"}

\* A scale set's container does not stay for ever: its launcher's cleanup or, after a crash or
\* a late create, the next reconciliation removes it, whatever call had lost its answer.
OwnedIsReclaimed ==
  \A l \in Owned : (l \in Present) ~> (l \notin Present)

\* Both container backends keep the contract of the Backend interface, whatever answer is
\* lost and wherever the process dies.
KeepsContract == Contract!Spec
==============================================================================
