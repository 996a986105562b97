--------------------------- MODULE TokenRefresher ---------------------------
(***************************************************************************)
(* The rotation of a device-flow user token by several processes that      *)
(* share one sidecar file (internal/ghapp: TokenRefresher, SaveUserToken). *)
(*                                                                         *)
(* A token pair is a version: GitHub accepts only the latest one (live),   *)
(* and a refresh with it makes the next.  Every version up to aged is      *)
(* within TokenSkew of its expiry, by the clock all processes share.  The  *)
(* mutex of a TokenRefresher lets one call of a process at a time past it, *)
(* so a process is the request whose call holds the mutex; the lock file   *)
(* excludes the other processes.  Requests already sent keep no state.     *)
(***************************************************************************)
EXTENDS Integers, FiniteSets

CONSTANTS
  Procs,        \* processes sharing the sidecar: the service, doctor, another run
  MaxVersion,   \* bound: rotations GitHub ever carries out, counted from version 0
  FaultBudget,  \* bound: saves, reads and requests that fail without an effect
  LossBudget    \* bound: processes that die, rotations whose answer is lost

ASSUME TokenAssumption ==
  /\ MaxVersion \in Nat
  /\ FaultBudget \in Nat
  /\ LossBudget \in Nat

VARIABLES
  live,      \* the version GitHub accepts
  aged,      \* the latest version that needsRefresh
  file,      \* the version in the sidecar
  lock,      \* the holders of the lock file
  pc,        \* per process: "off", "idle", or where its AccessToken call is
  tok,       \* r.tok
  unsaved,   \* the processes whose r.unsaved is set
  given,     \* the version AccessToken returned for the request to send, or -1
  faults, losses

vars == <<live, aged, file, lock, pc, tok, unsaved, given, faults, losses>>
memory == <<tok, unsaved, given>>

Versions == 0..MaxVersion

-----------------------------------------------------------------------------
Init ==
  /\ live = 0 /\ aged = -1 /\ file = 0
  /\ lock = {}
  /\ pc = [p \in Procs |-> "off"]
  /\ tok = [p \in Procs |-> 0] /\ unsaved = {} /\ given = [p \in Procs |-> -1]
  /\ faults = FaultBudget /\ losses = LossBudget

Fault == faults > 0 /\ faults' = faults - 1 /\ UNCHANGED losses
Loss == losses > 0 /\ losses' = losses - 1 /\ UNCHANGED faults
NoFault == UNCHANGED <<faults, losses>>

needsRefresh(v) == v <= aged

At(p, here) == pc[p] = here
Goto(p, there) == pc' = [pc EXCEPT ![p] = there]
\* The deferred unlock, on every return past lockTokenFile.
Unlock(p) == lock' = lock \ {p}
\* AccessToken returns t.
Return(p, t) ==
  /\ given' = [given EXCEPT ![p] = t]
  /\ Goto(p, "send")
  /\ Unlock(p)
\* AccessToken returns an error.
Fail(p) ==
  /\ Goto(p, "idle")
  /\ Unlock(p)
  /\ UNCHANGED given

\* NewTokenRefresher: the sidecar is loaded on first use.
NewTokenRefresher(p) ==
  /\ At(p, "off")
  /\ tok' = [tok EXCEPT ![p] = file]
  /\ Goto(p, "idle")
  /\ NoFault
  /\ UNCHANGED <<live, aged, file, lock, unsaved, given>>

\* Mutants: every call saves; no call saves.
AlwaysRetry(p) == TRUE
NeverRetry(p) == FALSE
RetrySave(p) == p \in unsaved

\* retrySave, before anything else and outside the lock file.
retrySave(p) ==
  \/ ~RetrySave(p) /\ NoFault /\ UNCHANGED <<file, unsaved>>
  \/ RetrySave(p) /\ NoFault /\ file' = tok[p] /\ unsaved' = unsaved \ {p}
  \/ RetrySave(p) /\ Fault /\ UNCHANGED <<file, unsaved>>

\* AccessToken up to the lock file.
AccessToken(p) ==
  /\ At(p, "idle")
  /\ retrySave(p)
  /\ IF needsRefresh(tok[p])
     THEN Goto(p, "locking") /\ UNCHANGED <<lock, given>>
     ELSE Return(p, tok[p])
  /\ UNCHANGED <<live, aged, tok>>

\* lockTokenFile: it polls until the lock is free, the context ends or lockWait is over.
Lock(p) ==
  /\ At(p, "locking") /\ lock = {}
  /\ lock' = {p}
  /\ Goto(p, "read")
  /\ NoFault
  /\ UNCHANGED <<live, aged, file, memory>>

LockGivenUp(p) ==
  /\ At(p, "locking")
  /\ Fail(p)
  /\ NoFault
  /\ UNCHANGED <<live, aged, file, tok, unsaved>>

\* Mutant: a stored token is adopted whatever its age.
AdoptAny(v) == TRUE
\* A stored token is adopted when it does not need a refresh itself.
Adopt(v) == ~needsRefresh(v)

\* The sidecar is read again under the lock.
ReadStored(p) ==
  /\ At(p, "read")
  /\ \/ /\ Adopt(file) /\ NoFault
        /\ tok' = [tok EXCEPT ![p] = file] /\ unsaved' = unsaved \ {p}
        /\ Return(p, file)
     \/ /\ ~Adopt(file) /\ NoFault
        /\ Goto(p, "refresh")
        /\ UNCHANGED <<lock, memory>>
     \/ /\ Fault
        /\ Goto(p, "refresh")
        /\ UNCHANGED <<lock, memory>>
  /\ UNCHANGED <<live, aged, file>>

\* RefreshUserToken with the token in memory. A rotation whose answer is lost leaves the
\* new pair with GitHub only.
Refresh(p) ==
  /\ At(p, "refresh")
  /\ \/ /\ tok[p] = live /\ live < MaxVersion /\ NoFault
        /\ live' = live + 1
        /\ tok' = [tok EXCEPT ![p] = live + 1] /\ unsaved' = unsaved \ {p}
        /\ Goto(p, "save")
        /\ UNCHANGED <<lock, given>>
     \/ /\ tok[p] = live /\ live < MaxVersion /\ Loss
        /\ live' = live + 1
        /\ Fail(p)
        /\ UNCHANGED <<tok, unsaved>>
     \/ /\ tok[p] # live /\ NoFault
        /\ Fail(p)
        /\ UNCHANGED <<live, tok, unsaved>>
     \/ /\ Fault
        /\ Fail(p)
        /\ UNCHANGED <<live, tok, unsaved>>
  /\ UNCHANGED <<aged, file>>

\* Mutant: a save that failed is not remembered.
SaveForgotten(p) == unsaved
SaveFailed(p) == unsaved \cup {p}

\* SaveUserToken writes a temporary file and renames it over the sidecar. When it fails
\* the new pair is used all the same.
Save(p) ==
  /\ At(p, "save")
  /\ \/ NoFault /\ file' = tok[p] /\ UNCHANGED unsaved
     \/ Fault /\ unsaved' = SaveFailed(p) /\ UNCHANGED file
  /\ Return(p, tok[p])
  /\ UNCHANGED <<live, aged, tok>>

\* RoundTrip sends the request with the token it was given.
RoundTrip(p) ==
  /\ At(p, "send")
  /\ given' = [given EXCEPT ![p] = -1]
  /\ Goto(p, "idle")
  /\ NoFault
  /\ UNCHANGED <<live, aged, file, lock, tok, unsaved>>

\* The process ends or dies; the kernel drops its lock.
Crash(p) ==
  /\ ~At(p, "off")
  /\ IF At(p, "idle") /\ p \notin unsaved THEN NoFault ELSE Loss
  /\ Goto(p, "off")
  /\ lock' = lock \ {p} /\ unsaved' = unsaved \ {p}
  /\ tok' = [tok EXCEPT ![p] = 0] /\ given' = [given EXCEPT ![p] = -1]
  /\ UNCHANGED <<live, aged, file>>

\* Time passes: the live pair comes within TokenSkew of its expiry. The last pair of the
\* model lives on.
Age ==
  /\ aged < live /\ aged < MaxVersion - 1
  /\ aged' = aged + 1
  /\ UNCHANGED <<live, file, lock, pc, memory, faults, losses>>

Goes(p) ==
  \/ AccessToken(p) \/ Lock(p) \/ LockGivenUp(p) \/ ReadStored(p) \/ Refresh(p) \/ Save(p)
  \/ RoundTrip(p)

Next == Age \/ \E p \in Procs : NewTokenRefresher(p) \/ Goes(p) \/ Crash(p)

Spec == Init /\ [][Next]_vars

\* A process that runs keeps making requests, and every call of AccessToken ends: lockWait
\* and refreshTimeout bound its waits.
FairSpec == Spec /\ \A p \in Procs : WF_vars(Goes(p))

-----------------------------------------------------------------------------
(* Properties                                                              *)

\* Every variable has its type, and the lock file is held by the calls between
\* lockTokenFile and their return, by no other process and by no call that has ended.
TypeOK ==
  /\ live \in Versions /\ aged \in -1..MaxVersion /\ file \in Versions
  /\ unsaved \subseteq Procs
  /\ lock = {p \in Procs : pc[p] \in {"read", "refresh", "save"}}
  /\ pc \in [Procs -> {"off", "idle", "locking", "read", "refresh", "save", "send"}]
  /\ tok \in [Procs -> Versions] /\ given \in [Procs -> -1..MaxVersion]
  /\ faults \in 0..FaultBudget /\ losses \in 0..LossBudget

\* Every token AccessToken hands out is the one GitHub accepts at that moment, although
\* other processes rotate it: no process returns a pair that another one has replaced.
HandsOutLive == \A p \in Procs : given'[p] \notin {given[p], -1} => given'[p] = live'
TokensHandedOutAreLive == [][HandsOutLive]_vars

\* The sidecar never goes back to a pair GitHub has replaced, although retrySave writes it
\* without the lock file.
Advances == file' >= file
SidecarNeverRegresses == [][Advances]_vars

\* As long as no process dies in a rotation and no answer is lost, the live pair is in the
\* sidecar or in a process that goes on trying to save it.
Keeps(p) == tok[p] = live /\ (p \in unsaved \/ pc[p] = "save")
LivePairKept == losses = LossBudget => file = live \/ \E p \in Procs : Keeps(p)

\* A pair that could not be saved is saved in the end: every later call retries the write.
EventuallySaved == \A p \in Procs : p \in unsaved ~> p \notin unsaved

\* "The sidecar is re-read inside both locks, so a token another process just rotated is
\* picked up instead of being overwritten with a stale one": a refresh spends the live
\* token when the sidecar has it.
SpendsTheLiveToken == \A p \in Procs : At(p, "refresh") /\ file = live => tok[p] = live
=============================================================================
