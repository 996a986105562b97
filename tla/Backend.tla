------------------------------- MODULE Backend -------------------------------
(***************************************************************************)
(* What the interfaces Backend, RunnerHandle and OwnedRunnerStore promise  *)
(* to their callers, whichever daemon or hypervisor is behind them.  A     *)
(* launch makes one instance, which runs at most once.  Launch may fail    *)
(* and still have made it, or have asked for it in vain so that it comes   *)
(* about later and never runs; then it returns a handle, and only if       *)
(* nothing runs may it return none.  Whoever is told that a runner has     *)
(* ended can release its registration: it does not run, then or later.     *)
(* The trace of an owned runner, by which a restarted process finds it,    *)
(* stays until it is removed on purpose.                                   *)
(*                                                                         *)
(* ContainerBackend and WinVM each implement this specification.           *)
(***************************************************************************)
CONSTANTS
  Runners,  \* launches
  Owned     \* those with a RunnerOwnership

VARIABLES
  inst,     \* per launch: none, made (a trace, not running), live, dead (a trace), gone;
            \* pending (asked for, not made yet), late (a trace, made when nobody had a handle)
  told      \* per launch: what its caller knows: nothing (Launch has not returned), handle,
            \* ended (it does not run), over (nothing is left), lost (nobody has a handle)

vars == <<inst, told>>

Init == inst = [r \in Runners |-> "none"] /\ told = [r \in Runners |-> "nothing"]

\* What may become of an instance within Launch.
Made(i) == CASE i = "none" -> {"pending", "made", "live", "gone"} [] i = "made" -> {"made", "live"} [] OTHER -> {i}
\* What may become of it afterwards.
After(i) == CASE i = "made" -> {"made", "gone"}
              [] i = "live" -> {"live", "dead", "gone"}
              [] i \in {"dead", "late"} -> {i, "gone"}
              [] OTHER -> {i}

\* Nothing is left, as far as anybody can see.
Absent(i) == i \in {"gone", "pending"}

Becomes(r, i, t) == inst' = [inst EXCEPT ![r] = i] /\ told' = [told EXCEPT ![r] = t]

\* A step of Launch, which may be its last: then there is a handle, error or not.
Launch(r) ==
  /\ told[r] = "nothing"
  /\ \E i \in Made(inst[r]), t \in {"nothing", "handle"} : Becomes(r, i, t) /\ (Absent(i) => t = "handle")

\* Launch returns an error and no handle: no instance runs.
FailedLaunch(r) ==
  /\ told[r] = "nothing" /\ inst[r] # "none"
  /\ \/ Becomes(r, "gone", "over")
     \/ \E i \in After(inst[r]) \ {"live", "gone"} : Becomes(r, i, "lost")

\* Wait or Kill succeeds: the runner does not run, and an owned one has kept its trace.
Ended(r) ==
  /\ told[r] = "handle"
  /\ \E i \in After(inst[r]) \ {"live"} :
       /\ r \in Owned => (i = "gone" => inst[r] = "gone")
       /\ Becomes(r, i, "ended") \/ (Absent(i) /\ Becomes(r, i, "over"))

\* RemoveOwnedRunner succeeds, for the caller of a handle that has ended or a restarted process.
Discharged(r) ==
  /\ \/ told[r] = "ended" /\ inst[r] # "live"
     \/ told[r] = "lost"
  /\ Becomes(r, IF inst[r] = "pending" THEN "pending" ELSE "gone", "over")

\* An instance that was asked for in vain is made after all; it is never started.
MadeLate(r) ==
  /\ inst[r] = "pending"
  /\ Becomes(r, IF told[r] = "handle" THEN "made" ELSE "late", told[r])

\* The trace goes and the caller does not learn of it: an answer was lost, or the daemon
\* removes what has ended.  An owned trace goes only by RemoveOwnedRunner, a running
\* instance only by Kill or by the reconciliation of what is lost.
Vanishes(r) ==
  /\ inst[r] \in {"made", "live", "dead", "late"} /\ told[r] # "nothing"
  /\ r \in Owned => told[r] \in {"ended", "lost"} \/ inst[r] = "late"
  /\ inst[r] = "live" => told[r] \in {"handle", "lost"}
  /\ Becomes(r, "gone", told[r])

\* Runners end, one by itself or all that a machine had.
Die ==
  /\ told' = told
  /\ \E S \in SUBSET {r \in Runners : inst[r] = "live"} : \E end \in [S -> {"dead", "gone"}] :
       /\ \A r \in S : end[r] = "gone" => told[r] = "lost"
       /\ inst' = [r \in Runners |-> IF r \in S THEN end[r] ELSE inst[r]]

\* The process dies: nobody has a handle any more, and what runs runs on.
Crash ==
  /\ inst' = inst
  /\ \E keep \in SUBSET {r \in Runners : told[r] \in {"ended", "over"}} :
       told' = [r \in Runners |-> IF inst[r] = "none" \/ r \in keep THEN told[r] ELSE "lost"]

Next ==
  \/ \E r \in Runners : Launch(r) \/ FailedLaunch(r) \/ Ended(r) \/ Discharged(r) \/ MadeLate(r)
                     \/ Vanishes(r)
  \/ Die \/ Crash

Spec == Init /\ [][Next]_vars

-----------------------------------------------------------------------------
TypeOK ==
  /\ inst \in [Runners -> {"none", "pending", "made", "live", "dead", "late", "gone"}]
  /\ told \in [Runners -> {"nothing", "handle", "ended", "over", "lost"}]

\* A caller that was told that its runner has ended may delete the registration: the runner
\* does not run, and after "over" nothing is left of it, unless its making was still pending.
EndedDoesNotRun ==
  \A r \in Runners :
    /\ told[r] = "ended" => inst[r] # "live"
    /\ told[r] = "over" => inst[r] \in {"gone", "pending", "late"}

\* A step starts no instance that has ended, and none after Launch has returned.
StartsWithinLaunch ==
  \A r \in Runners :
    /\ inst[r] \in {"dead", "gone", "pending", "late"} => inst'[r] # "live"
    /\ inst[r] # "live" /\ inst'[r] = "live" => told[r] = "nothing"

\* An instance runs at most once, and none is started after Launch has returned.
RunsOnce == [][StartsWithinLaunch]_vars
==============================================================================
