------------------------------ MODULE GitMirror ------------------------------
(***************************************************************************)
(* The bare mirrors of the git cache.  The refresh loop and the requests   *)
(* for bundles clone or fetch under a lock per repository, the sweep       *)
(* removes mirrors that nobody used for long, a cancelled request kills    *)
(* git, and the process may die anywhere.  The operator keeps bare         *)
(* repositories of their own in the same directory.                        *)
(***************************************************************************)
EXTENDS Naturals, Integers, FiniteSets

CONSTANTS
  Mirrors,  \* the repositories this manager mirrors
  Foreign,  \* the operator's bare repositories
  Users,    \* goroutines that call EnsureMirror or Bundle
  MaxAge,   \* days
  LastDay,  \* bound: days
  Faults    \* bound: git failures, kills and crashes

MirrorAssumption ==
  /\ Mirrors # {} /\ Mirrors \cap Foreign = {} /\ {"free", "sweeper"} \cap Users = {}
  /\ MaxAge \in Nat \ {0} /\ LastDay \in Nat /\ Faults \in Nat

VARIABLES
  dir,     \* per repository: what is on disk. "init" has HEAD, but no remote yet; "partial" has the
           \* remote, not all objects; "gutted" lost its HEAD to a removal that did not finish
  marker,  \* per repository: the day of .mr-lastused, None without one
  lock,    \* per repository: who holds its lock
  pc, at,  \* per user: what it does, and to which repository
  sweep,   \* the sweep: where it is, at which repository, with which cutoff
  today, faults
vars == <<dir, marker, lock, pc, at, sweep, today, faults>>

None == -1
Free == "free"
Sweeper == "sweeper"
Repos == Mirrors \cup Foreign

Init ==
  /\ dir = [r \in Repos |-> IF r \in Foreign THEN "full" ELSE "none"]
  /\ marker = [r \in Repos |-> None] /\ lock = [r \in Repos |-> Free]
  /\ pc = [u \in Users |-> "idle"] /\ at \in [Users -> Mirrors]
  /\ sweep = [pc |-> "idle", repo |-> CHOOSE r \in Repos : TRUE, cutoff |-> 0]
  /\ today = 0 /\ faults = 0

mirrorExists(r) == dir[r] \in {"init", "partial", "full"}
Fault == faults < Faults /\ faults' = faults + 1
Goto(u, there) == pc' = [pc EXCEPT ![u] = there]
\* The deferred Unlock, on every way out.
Return(u) == Goto(u, "idle") /\ lock' = [lock EXCEPT ![at[u]] = Free]

-----------------------------------------------------------------------------
(* EnsureMirror and Bundle. *)

\* EnsureMirror takes the lock and looks whether the mirror exists.
EnsureMirror(u, r) ==
  /\ pc[u] = "idle" /\ lock[r] = Free
  /\ lock' = [lock EXCEPT ![r] = u] /\ at' = [at EXCEPT ![u] = r]
  /\ Goto(u, IF mirrorExists(r) THEN "fetch" ELSE "clone")
  /\ UNCHANGED <<dir, marker, sweep, today, faults>>

\* git clone --mirror: refused in a directory that is not empty; a failure removes the directory.
Clone(u) ==
  /\ pc[u] = "clone"
  /\ \/ /\ dir[at[u]] \in {"none", "init", "partial"}
        /\ dir' = [dir EXCEPT ![at[u]] = CASE @ = "none" -> "init" [] @ = "init" -> "partial" [] OTHER -> "full"]
        /\ IF dir'[at[u]] = "full" THEN Goto(u, "touch") ELSE UNCHANGED pc
        /\ UNCHANGED <<lock, faults>>
     \/ dir[at[u]] = "gutted" /\ Return(u) /\ UNCHANGED <<dir, faults>>
     \/ dir[at[u]] # "gutted" /\ Fault /\ dir' = [dir EXCEPT ![at[u]] = "none"] /\ Return(u)
  /\ UNCHANGED <<marker, at, sweep, today>>

\* git fetch --prune origin: completes a clone that has its remote, fails without one.
Fetch(u) ==
  /\ pc[u] = "fetch"
  /\ \/ dir[at[u]] # "init" /\ dir' = [dir EXCEPT ![at[u]] = "full"] /\ Goto(u, "touch") /\ UNCHANGED <<lock, faults>>
     \/ dir[at[u]] = "init" /\ Return(u) /\ UNCHANGED <<dir, faults>>
     \/ Fault /\ Return(u) /\ UNCHANGED dir
  /\ UNCHANGED <<marker, at, sweep, today>>

\* touch, whose error is ignored; EnsureMirror returns, Bundle goes on under the same lock.
Touch(u) ==
  /\ pc[u] = "touch"
  /\ \/ marker' = [marker EXCEPT ![at[u]] = today] /\ UNCHANGED faults
     \/ Fault /\ UNCHANGED marker
  /\ \/ Return(u)
     \/ Goto(u, "bundle") /\ UNCHANGED lock
  /\ UNCHANGED <<dir, at, sweep, today>>

Bundle(u) == pc[u] = "bundle" /\ Return(u) /\ UNCHANGED <<dir, marker, at, sweep, today, faults>>

\* The caller's context ends, and exec kills git, which cleans nothing up.
Cancel(u) ==
  /\ pc[u] \in {"clone", "fetch", "bundle"} /\ Fault /\ Return(u)
  /\ UNCHANGED <<dir, marker, at, sweep, today>>

-----------------------------------------------------------------------------
(* Sweep. *)

\* Mutant: a repository without a marker is as old as its files.
StaleByFiles(r, cutoff) == marker[r] < cutoff
Stale(r, cutoff) == marker[r] # None /\ marker[r] < cutoff

\* The walk comes to a mirror that carries a marker and is old.
Walk(r) ==
  /\ sweep.pc = "idle" /\ mirrorExists(r) /\ Stale(r, today - MaxAge)
  /\ sweep' = [pc |-> "found", repo |-> r, cutoff |-> today - MaxAge]
  /\ UNCHANGED <<dir, marker, lock, pc, at, today, faults>>
LockForSweep ==
  /\ sweep.pc = "found" /\ lock[sweep.repo] = Free
  /\ lock' = [lock EXCEPT ![sweep.repo] = Sweeper] /\ sweep' = [sweep EXCEPT !.pc = "locked"]
  /\ UNCHANGED <<dir, marker, pc, at, today, faults>>
\* Mutant: the marker is not looked at again under the lock.
NoRecheck ==
  /\ sweep.pc = "locked" /\ sweep' = [sweep EXCEPT !.pc = "removing"]
  /\ UNCHANGED <<dir, marker, lock, pc, at, today, faults>>
\* The marker is read again under the lock.
Recheck ==
  /\ sweep.pc = "locked"
  /\ IF Stale(sweep.repo, sweep.cutoff)
     THEN sweep' = [sweep EXCEPT !.pc = "removing"] /\ UNCHANGED lock
     ELSE sweep' = [sweep EXCEPT !.pc = "idle"] /\ lock' = [lock EXCEPT ![sweep.repo] = Free]
  /\ UNCHANGED <<dir, marker, pc, at, today, faults>>
\* os.RemoveAll takes the marker, HEAD and the rest in the order the directory lists them, and
\* may fail on any of them; the sweep only logs that.
RemoveAll ==
  /\ sweep.pc = "removing"
  /\ LET r == sweep.repo
         unlock == sweep' = [sweep EXCEPT !.pc = "idle"] /\ lock' = [lock EXCEPT ![r] = Free] IN
     \/ marker[r] # None /\ marker' = [marker EXCEPT ![r] = None] /\ UNCHANGED <<dir, lock, sweep, faults>>
     \/ dir[r] # "gutted" /\ dir' = [dir EXCEPT ![r] = "gutted"] /\ UNCHANGED <<marker, lock, sweep, faults>>
     \/ /\ marker[r] = None /\ dir[r] = "gutted"
        /\ dir' = [dir EXCEPT ![r] = "none"] /\ unlock /\ UNCHANGED <<marker, faults>>
     \/ Fault /\ unlock /\ UNCHANGED <<dir, marker>>
  /\ UNCHANGED <<pc, at, today>>

-----------------------------------------------------------------------------
\* The process dies and starts again; locks and goroutines are gone, directories stay.
Crash ==
  /\ Fault /\ (sweep.pc # "idle" \/ \E u \in Users : pc[u] # "idle")
  /\ pc' = [u \in Users |-> "idle"] /\ lock' = [r \in Repos |-> Free]
  /\ sweep' = [sweep EXCEPT !.pc = "idle"]
  /\ UNCHANGED <<dir, marker, at, today>>
Day == today < LastDay /\ today' = today + 1 /\ UNCHANGED <<dir, marker, lock, pc, at, sweep, faults>>

User(u) == (\E r \in Mirrors : EnsureMirror(u, r)) \/ Clone(u) \/ Fetch(u) \/ Touch(u) \/ Bundle(u)
Sweep == (\E r \in Repos : Walk(r)) \/ LockForSweep \/ Recheck \/ RemoveAll
Next == (\E u \in Users : User(u) \/ Cancel(u)) \/ Sweep \/ Crash \/ Day
Spec == Init /\ [][Next]_vars

-----------------------------------------------------------------------------
\* The sweep never touches a bare repository the operator keeps beside the mirrors.
OperatorsReposAreSafe == \A r \in Foreign : dir[r] = "full"

\* A bundle is written from a whole mirror: neither the sweep nor another clone is at it.
BundlesAreWhole == \A u \in Users : pc[u] = "bundle" => dir[at[u]] = "full"

\* The git cache is safe to run beside the operator's repositories, and serves whole bundles.
GitCacheIsSafe == OperatorsReposAreSafe /\ BundlesAreWhole

\* A step of the sweep removes only what was not used for MaxAge days when its removal begins.
RemovalsAreDue ==
  \A r \in Repos :
    \/ marker[r] # None /\ marker'[r] = None
    \/ dir[r] # "gutted" /\ dir'[r] = "gutted"
    => marker[r] < today - MaxAge
=============================================================================
