----------------------------- MODULE RunnerPool -----------------------------
(***************************************************************************)
(* Fixed pools: pool.Manager runs every pool, a pool keeps one runner per  *)
(* slot (runSlot), and a slot runs one RunOnce after another.              *)
(***************************************************************************)
EXTENDS RunnerInstance

CONSTANTS
  Pools,  \* the pools
  Size,   \* how many slots each has
  RepoCount, \* how many clients the provider has
  RepoOf     \* the repository of each client, from 0

PoolAssumption ==
  /\ InstanceAssumption /\ IsFiniteSet(Pools) /\ Pools # {}
  /\ Size \in [Pools -> Nat \ {0}]
  /\ Workers = UNION {{<<p, i>> : i \in 0..Size[p] - 1} : p \in Pools}
  /\ RepoCount \in Nat \ {0} /\ RepoOf \in [0..RepoCount - 1 -> Targets]

VARIABLES
  stop,    \* the context Manager.Run was given is cancelled; cancelled is runCtx
  slot,    \* per worker: where its runSlot is
  backoffs,\* per worker: its consecutive failures
  image,   \* per pool: where Pool.Run is
  errCh,   \* the errors in the channel
  mgr      \* where Manager.Run is, or what it returned

poolVars == <<stop, slot, backoffs, image, errCh, mgr>>
vars == <<instanceVars, poolVars>>

SlotsOf(p) == {w \in Workers : w[1] = p}

Init ==
  /\ InstanceInit
  /\ stop = FALSE
  /\ slot = [w \in Workers |-> "new"]
  /\ backoffs = [w \in Workers |-> 0]
  /\ image = [p \in Pools |-> "pull"]
  /\ errCh = {}
  /\ mgr = "select"

-----------------------------------------------------------------------------
\* Pool.Run: the image, then the slots.
EnsureImage(p) ==
  /\ image[p] = "pull"
  /\ \/ /\ image' = [image EXCEPT ![p] = "ready"]
        /\ slot' = [w \in Workers |-> IF w[1] = p THEN "loop" ELSE slot[w]]
        /\ UNCHANGED faults
     \/ /\ \/ faults > 0 /\ faults' = faults - 1
           \/ cancelled /\ UNCHANGED faults
        /\ image' = [image EXCEPT ![p] = IF cancelled THEN "ended" ELSE "failed"]
        /\ slot' = [w \in Workers |-> IF w[1] = p THEN "ended" ELSE slot[w]]
  /\ UNCHANGED <<runVars, envVars, cancelled, hurt, stop, backoffs, errCh, mgr>>

\* The pool's error goes into the channel and the other pools are cancelled.
ReportFailure(p) ==
  /\ image[p] = "failed"
  /\ errCh' = errCh \cup {p}
  /\ cancelled' = TRUE
  /\ image' = [image EXCEPT ![p] = "ended"]
  /\ UNCHANGED <<runVars, envVars, hurt, faults, stop, slot, backoffs, mgr>>

\* ClientForSlot: the target of a slot never changes and is local to its pool.
ClientForSlot(i) == RepoOf[i % RepoCount]

LoopEnds == cancelled

\* runSlot, at the head of its loop.
runSlot(w) ==
  /\ slot[w] = "loop"
  /\ \/ LoopEnds /\ slot' = [slot EXCEPT ![w] = "ended"] /\ UNCHANGED instanceVars
     \/ ~LoopEnds /\ slot' = [slot EXCEPT ![w] = "run"] /\ Begin(w)
  /\ UNCHANGED <<stop, backoffs, image, errCh, mgr>>

RunOneForSlot(w) ==
  /\ slot[w] = "run"
  /\ GenerateJITConfig(w, ClientForSlot(w[2])) \/ RunOnce(w)
  /\ UNCHANGED poolVars

\* Mutant: a slot that gives up when its run failed.
GivesUp == "ended"
AfterFailure == "sleep"

\* The consecutive failures, which the back-off grows with.
Failures(w) == IF failed[w] THEN backoffs[w] + 1 ELSE 0

\* runSlot after the run: the end, a back-off, or the next runner at once.
SlotReturned(w) ==
  /\ slot[w] = "run" /\ pc[w] = "over"
  /\ pc' = [pc EXCEPT ![w] = "off"]
  /\ slot' = [slot EXCEPT ![w] =
                IF LoopEnds THEN "ended" ELSE IF failed[w] THEN AfterFailure ELSE "loop"]
  /\ backoffs' = [backoffs EXCEPT ![w] = IF cancelled THEN @ ELSE Failures(w)]
  /\ UNCHANGED <<name, failed, cancelled, envVars, hurt, faults, stop, image, errCh, mgr>>

\* sleep: the back-off is over, or the context ends it.
SlotSlept(w) ==
  /\ slot[w] = "sleep"
  /\ slot' = [slot EXCEPT ![w] = IF LoopEnds THEN "ended" ELSE "loop"]
  /\ UNCHANGED <<instanceVars, stop, backoffs, image, errCh, mgr>>

-----------------------------------------------------------------------------
\* The orchestrator is told to stop: runCtx ends with its parent.
Stop ==
  /\ ~stop /\ stop' = TRUE
  /\ cancelled' = TRUE
  /\ UNCHANGED <<runVars, envVars, hurt, faults, slot, backoffs, image, errCh, mgr>>

PoolDone(p) == image[p] \in {"ready", "ended"} /\ \A w \in SlotsOf(p) : slot[w] = "ended"
AllDone == \A p \in Pools : PoolDone(p)

\* <-done.
Drained == AllDone

\* Mutant: the last look into the channel is left out.
ForgetsError == "nil"
\* All pools are over: an error that came with the last of them is still returned.
DoneResult == IF errCh # {} THEN "err" ELSE "nil"

\* Manager.Run: the select, and the wait for the slots after it.
ManagerRun ==
  /\ \/ mgr = "select" /\ errCh # {} /\ mgr' = "drainErr"
     \/ mgr = "select" /\ stop /\ mgr' = "drainNil"
     \/ mgr = "select" /\ AllDone /\ mgr' = DoneResult
     \/ mgr = "drainErr" /\ Drained /\ mgr' = "err"
     \/ mgr = "drainNil" /\ Drained /\ mgr' = "nil"
  /\ UNCHANGED <<instanceVars, stop, slot, backoffs, image, errCh>>

\* The manager has returned and nothing is left to happen.
Returned ==
  /\ mgr \in {"err", "nil"}
  /\ UNCHANGED vars

Slot(w) == runSlot(w) \/ RunOneForSlot(w) \/ SlotReturned(w) \/ SlotSlept(w)
World(n) == (TakeJob(n) \/ Environment(n)) /\ UNCHANGED poolVars

Next ==
  \/ \E p \in Pools : EnsureImage(p) \/ ReportFailure(p)
  \/ \E w \in Workers : Slot(w)
  \/ \E n \in Names : World(n)
  \/ Stop
  \/ ManagerRun
  \/ Returned

Spec == Init /\ [][Next]_vars

-----------------------------------------------------------------------------
\* Manager.Run returns only when every slot is over, so that the backends it is followed by
\* (be.Close) are used by no one, and it returns nil only when it was told to stop: a pool
\* that could not start is reported even when it is the last to end.
ManagerResult ==
  /\ mgr \in {"err", "nil"} => \A w \in Workers : slot[w] = "ended" /\ pc[w] = "off"
  /\ mgr = "nil" => stop

\* While no call has failed for good, the manager that stopped leaves no instance and no
\* registration on a host of size many slots.
StopLeavesNothing ==
  mgr = "nil" =>
    \A n \in Names : hurt[n] \cap {"jit", "kill", "delete"} = {} => reg[n] = None /\ res[n] = "none"

\* What has returned is over: Manager.Run, and nil only after a stop that left nothing behind.
ReturnedIsOver == ManagerResult /\ StopLeavesNothing

\* The manager was told to stop, and has returned.
Ending == stop
Ended == mgr \in {"err", "nil"}

\* A slot has a runner that waits for a job, unless its pool is over.
Serving(w) == cancelled \/ image[w[1]] = "ended" \/ pc[w] = "wait"
=============================================================================
