---------------------------- MODULE Stores_proofs ----------------------------
(***************************************************************************)
(* Proofs about what the host keeps on disk, under any setups: any         *)
(* repositories, users, jobs, keys, toolsets and budgets.  Each section is *)
(* about one component under one setup P; the last one puts them together. *)
(***************************************************************************)
EXTENDS Stores, FiniteSets, FiniteSetTheorems, WellFoundedInduction, TLAPS

-----------------------------------------------------------------------------
(* GitMirror: a lock per repository keeps the sweep and the users apart. *)


Repos(P) == P.Mirrors \cup P.Foreign

MirrorTypes(P) ==
  /\ dir \in [Repos(P) -> {"none", "init", "partial", "full", "gutted"}]
  /\ marker \in [Repos(P) -> Int] /\ today \in Nat /\ P.MaxAge \in Nat
  /\ lock \in [Repos(P) -> P.Users \cup {"free", "sweeper"}]
  /\ pc \in [P.Users -> {"idle", "clone", "fetch", "touch", "bundle"}] /\ repoOf \in [P.Users -> P.Mirrors]
  /\ sweep \in [pc : {"idle", "found", "locked", "removing"}, repo : Repos(P), cutoff : Int]
  /\ P.Mirrors \cap P.Foreign = {} /\ {"free", "sweeper"} \cap P.Users = {}

\* A marker is a day that has come, and the operator's repositories never have one.
RepoInv(P, r) ==
  /\ marker[r] >= -1
  /\ r \in P.Foreign => dir[r] = "full" /\ marker[r] = -1
\* A user at work holds the lock of its repository, and the mirror it has cloned or fetched is whole.
UserInv(u) ==
  pc[u] # "idle" => /\ lock[repoOf[u]] = u
                    /\ pc[u] \in {"touch", "bundle"} => dir[repoOf[u]] = "full"
\* The sweep is at a mirror, holds its lock after it has taken it, and removes what is stale.
SweepInv(P) ==
  /\ sweep.pc # "idle" => sweep.repo \in P.Mirrors /\ sweep.cutoff <= today - P.MaxAge
  /\ sweep.pc \in {"locked", "removing"} => lock[sweep.repo] = "sweeper"
  /\ sweep.pc = "removing" => marker[sweep.repo] < sweep.cutoff

MirrorInv(P) ==
  MirrorTypes(P) /\ (\A r \in Repos(P) : RepoInv(P, r)) /\ (\A u \in P.Users : UserInv(u)) /\ SweepInv(P)

\* A step of a user touches only its own repository, whose lock was free or its own.
LEMMA UserMoves ==
  ASSUME NEW P, MirrorInv(P), NEW u \in P.Users, NEW r \in P.Mirrors, lock[r] \in {"free", u}, pc[u] # "idle" => r = repoOf[u],
         NEW d \in {"none", "init", "partial", "full"} \cup {dir[r]}, NEW m \in {marker[r], today},
         NEW l \in {"free", u}, NEW p \in {"idle", "clone", "fetch", "touch", "bundle"},
         repoOf' = [repoOf EXCEPT ![u] = r], dir' = [dir EXCEPT ![r] = d], marker' = [marker EXCEPT ![r] = m],
         lock' = [lock EXCEPT ![r] = l], pc' = [pc EXCEPT ![u] = p], UNCHANGED <<sweep, today>>,
         p = "idle" \/ l = u, p \in {"touch", "bundle"} => d = "full"
  PROVE  /\ MirrorInv(P)'
         /\ \A k \in Repos(P) : (marker'[k] = -1 => marker[k] = -1) /\ (dir'[k] = "gutted" => dir[k] = "gutted")
<1>a. MirrorTypes(P) /\ SweepInv(P) /\ r \in Repos(P) /\ r \notin P.Foreign
  BY DEF MirrorInv, MirrorTypes, Repos
<1>1. MirrorTypes(P)'
  BY <1>a DEF MirrorTypes
<1>2. ASSUME NEW k \in Repos(P)
      PROVE  RepoInv(P, k)' /\ (marker'[k] = -1 => marker[k] = -1) /\ (dir'[k] = "gutted" => dir[k] = "gutted")
  BY <1>a DEF MirrorInv, RepoInv, MirrorTypes
<1>3. ASSUME NEW v \in P.Users PROVE UserInv(v)'
  <2>1. UserInv(v) /\ UserInv(u)
    BY DEF MirrorInv
  <2>2. CASE v = u
    BY <1>a, <2>2 DEF UserInv, MirrorTypes
  <2>3. CASE v # u /\ pc[v] # "idle"
    <3>1. lock[repoOf[v]] = v /\ repoOf[v] # r
      BY <2>1, <2>3, <1>a DEF UserInv, MirrorTypes
    <3>2. repoOf'[v] = repoOf[v] /\ pc'[v] = pc[v] /\ repoOf[v] \in Repos(P)
      BY <2>3, <1>a DEF MirrorTypes, Repos
    <3>3. lock'[repoOf[v]] = lock[repoOf[v]] /\ dir'[repoOf[v]] = dir[repoOf[v]]
      BY <3>1, <3>2, <1>a DEF MirrorTypes
    <3> QED BY <3>1, <3>2, <3>3, <2>1 DEF UserInv
  <2>4. CASE v # u /\ pc[v] = "idle"
    BY <2>4, <1>a DEF UserInv, MirrorTypes
  <2> QED BY <2>2, <2>3, <2>4
<1>4. SweepInv(P)'
  <2>1. CASE sweep.pc \in {"locked", "removing"}
    <3>1. sweep.repo # r /\ sweep.repo \in Repos(P)
      BY <2>1, <1>a DEF SweepInv, MirrorTypes
    <3> QED BY <2>1, <3>1, <1>a DEF SweepInv, MirrorTypes
  <2>2. CASE sweep.pc \notin {"locked", "removing"}
    BY <2>2, <1>a DEF SweepInv
  <2> QED BY <2>1, <2>2
<1> QED
  BY <1>1, <1>2, <1>3, <1>4 DEF MirrorInv

LEMMA UserStep ==
  ASSUME NEW P, MirrorInv(P), NEW u \in P.Users, Mirror(P)!User(u) \/ Mirror(P)!Cancel(u)
  PROVE  /\ MirrorInv(P)'
         /\ \A k \in Repos(P) : (marker'[k] = -1 => marker[k] = -1) /\ (dir'[k] = "gutted" => dir[k] = "gutted")
<1> DEFINE Goal == /\ MirrorInv(P)'
                   /\ \A k \in Repos(P) : (marker'[k] = -1 => marker[k] = -1) /\ (dir'[k] = "gutted" => dir[k] = "gutted")
           Sets(r, d, m, l, p) ==
             /\ repoOf' = [repoOf EXCEPT ![u] = r] /\ dir' = [dir EXCEPT ![r] = d] /\ marker' = [marker EXCEPT ![r] = m]
             /\ lock' = [lock EXCEPT ![r] = l] /\ pc' = [pc EXCEPT ![u] = p] /\ UNCHANGED <<sweep, today>>
           Fits(r, d, m, l, p) ==
             /\ r \in P.Mirrors /\ lock[r] \in {"free", u} /\ (pc[u] # "idle" => r = repoOf[u])
             /\ d \in {"none", "init", "partial", "full"} \cup {dir[r]} /\ m \in {marker[r], today}
             /\ l \in {"free", u} /\ p \in {"idle", "clone", "fetch", "touch", "bundle"}
             /\ p = "idle" \/ l = u
             /\ p \in {"touch", "bundle"} => d = "full"
<1>a. MirrorTypes(P) /\ UserInv(u) /\ \A r \in P.Mirrors : r \in Repos(P)
  BY DEF MirrorInv, Repos
<1>m. ASSUME NEW r, NEW d, NEW m, NEW l, NEW p, Sets(r, d, m, l, p), Fits(r, d, m, l, p) PROVE Goal
  BY <1>m, UserMoves
<1>s. ASSUME NEW r \in P.Mirrors
      PROVE  /\ dir = [dir EXCEPT ![r] = dir[r]] /\ marker = [marker EXCEPT ![r] = marker[r]]
             /\ lock = [lock EXCEPT ![r] = lock[r]] /\ pc = [pc EXCEPT ![u] = pc[u]] /\ repoOf = [repoOf EXCEPT ![u] = repoOf[u]]
  BY <1>a DEF MirrorTypes
<1>1. ASSUME NEW r \in P.Mirrors, Mirror(P)!EnsureMirror(u, r) PROVE Goal
  <2>1. \E p \in {"clone", "fetch"} : Sets(r, dir[r], marker[r], u, p)
    BY <1>1, <1>s DEF Mirror!EnsureMirror, Mirror!Goto
  <2>2. \A p \in {"clone", "fetch"} : Fits(r, dir[r], marker[r], u, p)
    BY <1>1, <1>a DEF Mirror!EnsureMirror, Mirror!Free
  <2> HIDE DEF Sets, Fits
  <2> QED BY <2>1, <2>2, <1>m
<1> DEFINE r == repoOf[u]
<1>b. r \in P.Mirrors /\ (pc[u] # "idle" => lock[r] = u)
  BY <1>a DEF MirrorTypes, UserInv
<1> HIDE DEF r
<1>c. /\ dir = [dir EXCEPT ![r] = dir[r]] /\ marker = [marker EXCEPT ![r] = marker[r]]
      /\ lock = [lock EXCEPT ![r] = lock[r]] /\ pc = [pc EXCEPT ![u] = pc[u]] /\ repoOf = [repoOf EXCEPT ![u] = r]
  BY <1>b, <1>s DEF r
<1>2. ASSUME Mirror(P)!Clone(u) PROVE Goal
  <2>1. /\ pc[u] = "clone"
        /\ \/ \E d \in {"init", "partial"} : Sets(r, d, marker[r], lock[r], pc[u])
           \/ Sets(r, "full", marker[r], lock[r], "touch")
           \/ Sets(r, dir[r], marker[r], "free", "idle")
           \/ Sets(r, "none", marker[r], "free", "idle")
    BY <1>2, <1>b, <1>c, <1>a DEF Mirror!Clone, Mirror!Goto, Mirror!Return, Mirror!Free, r, MirrorTypes
  <2>2. /\ \A d \in {"init", "partial"} : Fits(r, d, marker[r], lock[r], pc[u])
        /\ Fits(r, "full", marker[r], lock[r], "touch")
        /\ Fits(r, dir[r], marker[r], "free", "idle") /\ Fits(r, "none", marker[r], "free", "idle")
    BY <2>1, <1>b DEF r
  <2> HIDE DEF Sets, Fits
  <2> QED BY <2>1, <2>2, <1>m
<1>3. ASSUME Mirror(P)!Fetch(u) PROVE Goal
  <2>1. /\ pc[u] = "fetch"
        /\ \/ Sets(r, "full", marker[r], lock[r], "touch")
           \/ Sets(r, dir[r], marker[r], "free", "idle")
    BY <1>3, <1>b, <1>c DEF Mirror!Fetch, Mirror!Goto, Mirror!Return, Mirror!Free, r
  <2>2. Fits(r, "full", marker[r], lock[r], "touch") /\ Fits(r, dir[r], marker[r], "free", "idle")
    BY <2>1, <1>b DEF r
  <2> HIDE DEF Sets, Fits
  <2> QED BY <2>1, <2>2, <1>m
<1>4. ASSUME Mirror(P)!Touch(u) PROVE Goal
  <2>1. /\ pc[u] = "touch"
        /\ \E m \in {today, marker[r]} : Sets(r, dir[r], m, "free", "idle") \/ Sets(r, dir[r], m, lock[r], "bundle")
    BY <1>4, <1>b, <1>c DEF Mirror!Touch, Mirror!Goto, Mirror!Return, Mirror!Free, r
  <2>2. \A m \in {today, marker[r]} : Fits(r, dir[r], m, "free", "idle") /\ Fits(r, dir[r], m, lock[r], "bundle")
    BY <2>1, <1>a, <1>b DEF r, UserInv
  <2> HIDE DEF Sets, Fits
  <2> QED BY <2>1, <2>2, <1>m
<1>5. ASSUME Mirror(P)!Bundle(u) \/ Mirror(P)!Cancel(u) PROVE Goal
  <2>1. pc[u] # "idle" /\ Sets(r, dir[r], marker[r], "free", "idle")
    BY <1>5, <1>b, <1>c DEF Mirror!Bundle, Mirror!Cancel, Mirror!Goto, Mirror!Return, Mirror!Free, r
  <2>2. Fits(r, dir[r], marker[r], "free", "idle")
    BY <2>1, <1>b DEF r
  <2> HIDE DEF Sets, Fits
  <2> QED BY <2>1, <2>2, <1>m
<1> QED
  BY <1>1, <1>2, <1>3, <1>4, <1>5 DEF Mirror!User

\* A step of the sweep is about the repository it has found.
LEMMA SweepStep == ASSUME NEW P, MirrorInv(P), Mirror(P)!Sweep PROVE MirrorInv(P)' /\ Mirror(P)!RemovalsAreDue
<1> DEFINE r == sweep.repo
           Due == MirrorInv(P)' /\ Mirror(P)!RemovalsAreDue
<1>a. MirrorTypes(P) /\ SweepInv(P) /\ r \in Repos(P)
  BY DEF MirrorInv, MirrorTypes
<1>r. UNCHANGED <<dir, marker>> => Mirror(P)!RemovalsAreDue
  BY DEF Mirror!RemovalsAreDue
<1>1. ASSUME NEW k \in Repos(P), Mirror(P)!Walk(k) PROVE Due
  <2>1. /\ UNCHANGED <<dir, marker, lock, pc, repoOf, today>> /\ marker[k] # -1
        /\ sweep' = [pc |-> "found", repo |-> k, cutoff |-> today - P.MaxAge]
    BY <1>1 DEF Mirror!Walk, Mirror!Stale, Mirror!None
  <2>2. k \in P.Mirrors
    BY <2>1 DEF MirrorInv, RepoInv, Repos
  <2>3. MirrorTypes(P)' /\ SweepInv(P)'
    BY <2>1, <2>2, <1>a DEF MirrorTypes, SweepInv
  <2> QED BY <2>1, <2>3, <1>r DEF MirrorInv, RepoInv, UserInv
<1>2. ASSUME Mirror(P)!LockForSweep PROVE Due
  <2>1. /\ UNCHANGED <<dir, marker, pc, repoOf, today>> /\ sweep.pc = "found" /\ lock[r] = "free"
        /\ lock' = [lock EXCEPT ![r] = "sweeper"] /\ sweep' = [sweep EXCEPT !.pc = "locked"]
    BY <1>2 DEF Mirror!LockForSweep, Mirror!Free, Mirror!Sweeper
  <2>2. MirrorTypes(P)' /\ SweepInv(P)'
    BY <2>1, <1>a DEF MirrorTypes, SweepInv
  <2>3. ASSUME NEW u \in P.Users PROVE UserInv(u)'
    BY <2>1, <1>a DEF MirrorInv, UserInv, MirrorTypes, Repos
  <2> QED BY <2>1, <2>2, <2>3, <1>r DEF MirrorInv, RepoInv
<1>3. ASSUME Mirror(P)!Recheck PROVE Due
  <2>1. /\ UNCHANGED <<dir, marker, pc, repoOf, today>> /\ sweep.pc = "locked" /\ lock[r] = "sweeper"
        /\ \/ /\ marker[r] < sweep.cutoff /\ lock' = lock
              /\ sweep' = [sweep EXCEPT !.pc = "removing"]
           \/ /\ lock' = [lock EXCEPT ![r] = "free"]
              /\ sweep' = [sweep EXCEPT !.pc = "idle"]
    BY <1>3, <1>a DEF Mirror!Recheck, Mirror!Stale, Mirror!Free, SweepInv
  <2>2. MirrorTypes(P)' /\ SweepInv(P)'
    BY <2>1, <1>a DEF MirrorTypes, SweepInv
  <2>3. ASSUME NEW u \in P.Users PROVE UserInv(u)'
    BY <2>1, <1>a DEF MirrorInv, UserInv, MirrorTypes, Repos
  <2> QED BY <2>1, <2>2, <2>3, <1>r DEF MirrorInv, RepoInv
<1>4. ASSUME Mirror(P)!RemoveAll PROVE Due
  <2>1. /\ UNCHANGED <<pc, repoOf, today>> /\ sweep.pc = "removing" /\ lock[r] = "sweeper" /\ r \in P.Mirrors
        /\ marker[r] < sweep.cutoff /\ sweep.cutoff <= today - P.MaxAge
    BY <1>4, <1>a DEF Mirror!RemoveAll, SweepInv
  <2>2. /\ dir' = dir \/ \E d \in {"gutted", "none"} : dir' = [dir EXCEPT ![r] = d]
        /\ marker' = marker \/ marker' = [marker EXCEPT ![r] = -1]
        /\ \/ UNCHANGED <<lock, sweep>>
           \/ lock' = [lock EXCEPT ![r] = "free"] /\ sweep' = [sweep EXCEPT !.pc = "idle"]
    BY <1>4 DEF Mirror!RemoveAll, Mirror!Free, Mirror!None
  <2>3. MirrorTypes(P)'
    BY <2>1, <2>2, <1>a DEF MirrorTypes
  <2>4. ASSUME NEW k \in Repos(P)
        PROVE  /\ RepoInv(P, k)' /\ (k # r => dir'[k] = dir[k] /\ marker'[k] = marker[k] /\ lock'[k] = lock[k])
               /\ marker'[k] <= marker[k]
    BY <2>1, <2>2, <1>a DEF MirrorInv, RepoInv, MirrorTypes
  <2>5. ASSUME NEW u \in P.Users PROVE UserInv(u)'
    <3>1. UserInv(u) /\ repoOf[u] \in Repos(P) /\ UNCHANGED <<pc[u], repoOf[u]>> /\ u # "sweeper"
      BY <2>1, <1>a DEF MirrorInv, MirrorTypes, Repos
    <3> QED BY <3>1, <2>1, <2>4 DEF UserInv
  <2>6. SweepInv(P)'
    BY <2>1, <2>2, <2>4, <1>a DEF SweepInv, MirrorTypes
  <2>7. Mirror(P)!RemovalsAreDue
    <3> SUFFICES ASSUME NEW k \in Repos(P), dir'[k] # dir[k] \/ marker'[k] # marker[k] PROVE marker[k] < today - P.MaxAge
      BY DEF Mirror!RemovalsAreDue, Mirror!Repos, Repos
    <3>1. k = r
      BY <2>4
    <3> QED BY <3>1, <2>1, <1>a DEF MirrorTypes
  <2> QED BY <2>3, <2>4, <2>5, <2>6, <2>7 DEF MirrorInv
<1> QED
  BY <1>1, <1>2, <1>3, <1>4 DEF Mirror!Sweep, Mirror!Repos, Repos

LEMMA MirrorStep == ASSUME NEW P PROVE MirrorInv(P) /\ [Mirror(P)!Next]_(Mirror(P)!vars) => MirrorInv(P)' /\ [Mirror(P)!RemovalsAreDue]_(Mirror(P)!vars)
<1> SUFFICES ASSUME MirrorInv(P), [Mirror(P)!Next]_(Mirror(P)!vars) PROVE MirrorInv(P)' /\ [Mirror(P)!RemovalsAreDue]_(Mirror(P)!vars)
  OBVIOUS
<1>1. ASSUME NEW u \in P.Users, Mirror(P)!User(u) \/ Mirror(P)!Cancel(u) PROVE MirrorInv(P)' /\ Mirror(P)!RemovalsAreDue
  BY <1>1, UserStep DEF Mirror!RemovalsAreDue, Mirror!Repos, Repos, Mirror!None
<1>2. CASE Mirror(P)!Sweep
  BY <1>2, SweepStep
<1>3. ASSUME Mirror(P)!Crash PROVE MirrorInv(P)' /\ Mirror(P)!RemovalsAreDue
  <2>1. /\ UNCHANGED <<dir, marker, repoOf, today>> /\ pc' = [u \in P.Users |-> "idle"]
        /\ lock' = [r \in Repos(P) |-> "free"] /\ sweep' = [sweep EXCEPT !.pc = "idle"]
    BY <1>3 DEF Mirror!Crash, Mirror!Free, Mirror!Repos, Repos
  <2> QED BY <2>1 DEF MirrorInv, MirrorTypes, RepoInv, UserInv, SweepInv, Mirror!RemovalsAreDue
<1>4. ASSUME Mirror(P)!Day PROVE MirrorInv(P)' /\ Mirror(P)!RemovalsAreDue
  <2>1. UNCHANGED <<dir, marker, lock, pc, repoOf, sweep>> /\ today' = today + 1
    BY <1>4 DEF Mirror!Day
  <2> QED BY <2>1 DEF MirrorInv, MirrorTypes, RepoInv, UserInv, SweepInv, Mirror!RemovalsAreDue
<1>5. ASSUME UNCHANGED Mirror(P)!vars PROVE MirrorInv(P)'
  BY <1>5 DEF Mirror!vars, MirrorInv, MirrorTypes, RepoInv, UserInv, SweepInv
<1> QED
  BY <1>1, <1>2, <1>3, <1>4, <1>5 DEF Mirror!Next

LEMMA MirrorInitial == ASSUME NEW P, Mirror(P)!MirrorAssumption, Mirror(P)!Init PROVE MirrorInv(P)
<1>1. MirrorTypes(P)
  BY DEF Mirror!Init, Mirror!MirrorAssumption, MirrorTypes, Mirror!Repos, Repos, Mirror!Free, Mirror!None
<1>2. \A r \in Repos(P) : RepoInv(P, r)
  BY DEF Mirror!Init, RepoInv, Mirror!Repos, Repos, Mirror!None
<1>3. (\A u \in P.Users : UserInv(u)) /\ SweepInv(P)
  BY DEF Mirror!Init, UserInv, SweepInv
<1> QED BY <1>1, <1>2, <1>3 DEF MirrorInv

LEMMA MirrorGoal == ASSUME NEW P, MirrorInv(P) PROVE Mirror(P)!GitCacheIsSafe
BY DEF MirrorInv, RepoInv, UserInv, Repos, Mirror!GitCacheIsSafe, Mirror!OperatorsReposAreSafe, Mirror!BundlesAreWhole

-----------------------------------------------------------------------------
(* CacheStore: an upload that its own job finalizes, with no PUT of it at  *)
(* work, has all its parts, each written to its end; nothing writes to it  *)
(* any more, it becomes an entry once, and its folder goes after its row.  *)


Ids(P) == Store(P)!Ids
Parts(P) == Store(P)!Parts
Keys(P) == {P.KeyOf[c] : c \in P.Savers}

Early == {"create", "insert", "refused"}
Before == {"count", "query", "update", "store"}
Later == {"unlink", "drop", "saved"}
Puts(P) == [step : {"idle", "start", "create", "write", "finish"}, by : P.Savers \cup {"none"}, id : Ids(P) \cup {0},
            part : Parts(P), waits : BOOLEAN]
Rows(P) == [key : Keys(P) \cup {"none"}, started : Nat, finished : Nat]
StoreTypes(P) ==
  /\ saver \in [P.Savers -> Early \cup {"upload", "gone", "failed"} \cup Before \cup Later]
  /\ up \in [P.Savers -> Ids(P) \cup {0}] /\ acked \in [P.Savers -> SUBSET Parts(P)]
  /\ fin \in [P.Savers -> [id : Ids(P) \cup {0}, finished : Nat, old : Ids(P) \cup {0}]]
  /\ put \in [P.PutSlots -> Puts(P)]
  /\ upload \in [Ids(P) -> Rows(P)] /\ file \in [Ids(P) -> [Parts(P) -> {"none", "torn", "whole"}]]
  /\ lru \in Seq([id : Ids(P), key : Keys(P), parts : 0..P.PartCount])
  /\ promoted \subseteq Ids(P) /\ removed \subseteq promoted /\ raced \subseteq Ids(P)

\* An id is one saver's, from its INSERT on.
OwnInv(P) ==
  /\ \A c \in P.Savers : up[c] = 0 <=> saver[c] \in Early
  /\ \A c \in P.Savers : up[c] = 0 => acked[c] = {}
  /\ \A c, b \in P.Savers : up[c] = up[b] /\ up[c] # 0 => c = b
Owned(P, i) == \E c \in P.Savers : up[c] = i
\* Rows, files and entries are of ids that are somebody's; the key is its saver's.
FreshInv(P) ==
  /\ \A i \in Ids(P) : upload[i] # Store(P)!NoRow => upload[i].key # "none"
  /\ \A c \in P.Savers : up[c] # 0 /\ upload[up[c]] # Store(P)!NoRow => upload[up[c]].key = P.KeyOf[c]
  /\ \A i \in Ids(P) : ~Owned(P, i) =>
       upload[i] = Store(P)!NoRow /\ i \notin promoted /\ \A p \in Parts(P) : file[i][p] = "none"
\* A PUT at work is for the upload of its client.
PutInv(P) ==
  \A x \in P.PutSlots :
    IF put[x].step = "idle" THEN put[x].id = 0 ELSE put[x].by \in P.Savers /\ put[x].id = up[put[x].by] /\ put[x].id # 0

\* The PUTs that were counted as started and not yet as finished.
Active(P, pt, i) == {x \in P.PutSlots : pt[x].id = i /\ pt[x].step \in {"create", "write", "finish"}}
\* A file that a PUT left before its end.
Abandoned(P, fl, pt, i) ==
  \E p \in Parts(P) : fl[i][p] = "torn" /\ \A x \in P.PutSlots : ~(pt[x].id = i /\ pt[x].part = p /\ pt[x].step = "write")
\* Each of them keeps the counts apart, and so does a PUT that ended early, for good.
CountInv(P) ==
  \A i \in Ids(P) : upload[i] # Store(P)!NoRow =>
    /\ upload[i].started >= upload[i].finished + Cardinality(Active(P, put, i))
    /\ Abandoned(P, file, put, i) => upload[i].started > upload[i].finished + Cardinality(Active(P, put, i))
\* A part that was answered is there.
AckInv(P) ==
  /\ \A x \in P.PutSlots : put[x].step \in {"write", "finish"} /\ put[x].id \notin removed =>
       file[put[x].id][put[x].part] # "none"
  /\ \A c \in P.Savers : up[c] # 0 /\ upload[up[c]] # Store(P)!NoRow /\ up[c] \notin removed =>
       \A p \in acked[c] : file[up[c]][p] # "none"

WholeFiles(P, i) == \A p \in Parts(P) : file[i][p] = "whole"
\* A saver finalizes its own upload, or one that counts as raced; the key is the same.
Finalizes(P, c) ==
  /\ saver[c] \in Before \cup Later =>
       /\ fin[c].id \in Ids(P) /\ Owned(P, fin[c].id) /\ (fin[c].id = up[c] \/ fin[c].id \in raced)
       /\ \A b \in P.Savers : up[b] = fin[c].id => P.KeyOf[b] = P.KeyOf[c]
  /\ saver[c] \in {"update", "unlink"} =>
       fin[c].old \in promoted /\ \A b \in P.Savers : up[b] = fin[c].old => P.KeyOf[b] = P.KeyOf[c]
  /\ saver[c] \in Before \ {"count"} => fin[c].finished \in 0..P.PartCount
FinInv(P) == \A c \in P.Savers : Finalizes(P, c)
\* The upload of a saver that finalizes it is closed, then whole, then an entry, once.
Closed(P, c) ==
  up[c] \notin raced =>
    /\ saver[c] \in Before \cup Later /\ fin[c].id = up[c] => \A x \in P.PutSlots : put[x].id # up[c]
    /\ saver[c] \in Before /\ fin[c].id = up[c] => WholeFiles(P, up[c]) /\ up[c] \notin promoted
    /\ saver[c] \in Before \ {"count"} /\ fin[c].id = up[c] => fin[c].finished = P.PartCount
    /\ up[c] \in promoted => saver[c] \in Later /\ fin[c].id = up[c] /\ (up[c] \notin removed => WholeFiles(P, up[c]))
ClosedInv(P) == \A c \in P.Savers : Closed(P, c)

EntryInv(P) ==
  /\ \A i, j \in DOMAIN lru : i # j => lru[i].id # lru[j].id
  /\ \A i \in DOMAIN lru :
       /\ lru[i].id \in promoted
       /\ lru[i].id \notin raced => lru[i].id \notin removed /\ lru[i].parts = P.PartCount
       /\ \A b \in P.Savers : up[b] = lru[i].id => lru[i].key = P.KeyOf[b]
EntryIds == {lru[i].id : i \in DOMAIN lru}
\* A folder is removed when its row is gone.
GoneInv(P) ==
  /\ \A c \in P.Savers : saver[c] = "unlink" /\ fin[c].old \notin raced /\ fin[c].old # fin[c].id =>
       fin[c].old \notin EntryIds
  /\ gc.step = "folder" /\ gc.id \notin raced => gc.id \notin EntryIds
GcInv ==
  /\ DOMAIN gc = {"step", "ids", "id", "size", "total"} /\ gc.ids \in Seq(promoted)
  /\ gc.step \in {"row", "folder"} => gc.id \in promoted
ReaderInv(P) ==
  /\ reader \in [P.Readers -> [step : {"lookup", "open", "read", "done", "miss"}, id : Ids(P) \cup {0}, parts : 0..P.PartCount,
                               got : Seq({"torn", "whole"})]]
  /\ \A d \in P.Readers : LET r == reader[d] IN
       /\ r.step = "lookup" => r.got = <<>>
       /\ r.step \in {"open", "read", "done"} => r.id \in promoted
       /\ r.step = "open" => r.got = <<>>
       /\ r.step = "read" => Len(r.got) <= r.parts
       /\ r.step \in {"read", "done"} /\ r.id \notin removed \cup raced =>
            /\ r.parts = P.PartCount /\ Len(r.got) <= P.PartCount
            /\ \A k \in 1..Len(r.got) : r.got[k] = "whole"
            /\ r.step = "done" => Len(r.got) = P.PartCount

Saves(P) == StoreTypes(P) /\ OwnInv(P) /\ FreshInv(P) /\ PutInv(P) /\ CountInv(P) /\ AckInv(P)
Finals(P) == FinInv(P) /\ ClosedInv(P)
Entries(P) == EntryInv(P) /\ GoneInv(P) /\ GcInv
StoreInv(P) == Saves(P) /\ Finals(P) /\ Entries(P) /\ ReaderInv(P)

LEMMA StoreBasics ==
  ASSUME NEW P, Store(P)!StoreAssumption
  PROVE  /\ \A i \in Ids(P) : i \in Nat /\ i # 0
         /\ P.PartCount \in Nat \ {0} /\ Parts(P) = 0..P.PartCount - 1 /\ 0 \in Parts(P)
         /\ IsFiniteSet(P.PutSlots) /\ \A c \in P.Savers : P.KeyOf[c] # "none"
<1>1. IsFiniteSet(P.Savers) /\ IsFiniteSet(P.PutSlots) /\ \A c \in P.Savers : P.KeyOf[c] # "none"
  BY DEF Store!StoreAssumption, Store!IsFiniteSet, IsFiniteSet
<1>2. Store(P)!Cardinality(P.Savers) = Cardinality(P.Savers)
  BY DEF Store!Cardinality, Cardinality, Store!IsFiniteSet, IsFiniteSet
<1>3. Cardinality(P.Savers) \in Nat
  BY <1>1, FS_CardinalityType
<1>4. \A i \in Ids(P) : i \in Nat /\ i # 0
  BY <1>2, <1>3 DEF Ids, Store!Ids
<1>5. P.PartCount \in Nat \ {0} /\ Parts(P) = 0..P.PartCount - 1
  BY DEF Store!StoreAssumption, Parts, Store!Parts
<1> QED BY <1>1, <1>4, <1>5

LEMMA NoRowIsRow ==
  ASSUME NEW P
  PROVE  Store(P)!NoRow \in Rows(P) /\ Store(P)!NoRow.key = "none"
BY DEF Store!NoRow, Rows

LEMMA StoreInitial ==
  ASSUME NEW P, Store(P)!StoreAssumption, Store(P)!Init
  PROVE  StoreInv(P)
<1> USE StoreBasics
<1>1. /\ saver = [c \in P.Savers |-> "create"] /\ up = [c \in P.Savers |-> 0] /\ acked = [c \in P.Savers |-> {}]
      /\ fin = [c \in P.Savers |-> Store(P)!NoFin] /\ put = [x \in P.PutSlots |-> Store(P)!Idle]
      /\ upload = [i \in Ids(P) |-> Store(P)!NoRow] /\ lru = <<>> /\ file = [i \in Ids(P) |-> [p \in Parts(P) |-> "none"]]
      /\ gc = Store(P)!GcIdle /\ promoted = {} /\ removed = {} /\ raced = {}
      /\ reader = [d \in P.Readers |-> [step |-> "lookup", id |-> 0, parts |-> 0, got |-> <<>>]]
  BY DEF Store!Init, Ids, Parts
<1>2. Store(P)!Idle \in Puts(P) /\ Store(P)!Idle.step = "idle" /\ Store(P)!Idle.id = 0
  BY DEF Store!Idle, Puts
<1>3. Store(P)!NoFin \in [id : Ids(P) \cup {0}, finished : Nat, old : Ids(P) \cup {0}]
  BY DEF Store!NoFin
<1>4. StoreTypes(P)
  <2>1. lru \in Seq([id : Ids(P), key : Keys(P), parts : 0..P.PartCount])
    BY <1>1
  <2> QED BY <1>1, <1>2, <1>3, <2>1, NoRowIsRow DEF StoreTypes, Early
<1>5. OwnInv(P) /\ FreshInv(P) /\ PutInv(P)
  BY <1>1, <1>2 DEF OwnInv, FreshInv, PutInv, Early, Owned
<1>6. CountInv(P) /\ AckInv(P)
  BY <1>1, <1>2 DEF CountInv, AckInv
<1>7. FinInv(P) /\ ClosedInv(P)
  BY <1>1 DEF FinInv, Finalizes, ClosedInv, Closed, Before, Later
<1>8. EntryInv(P) /\ GoneInv(P)
  BY <1>1 DEF EntryInv, GoneInv, Store!GcIdle
<1>9. GcInv
  BY <1>1 DEF GcInv, Store!GcIdle
<1>10. ReaderInv(P)
  BY <1>1 DEF ReaderInv
<1> QED BY <1>4, <1>5, <1>6, <1>7, <1>8, <1>9, <1>10 DEF StoreInv, Saves, Finals, Entries

\* What has been an entry, was removed or raced stays so: a reader that stands still is right as before.
LEMMA ReadersStay ==
  ASSUME NEW P, ReaderInv(P), UNCHANGED reader, promoted \subseteq promoted', removed \subseteq removed', raced \subseteq raced'
  PROVE  ReaderInv(P)'
BY DEF ReaderInv

LEMMA EntriesStay ==
  ASSUME NEW P, Entries(P), UNCHANGED <<lru, gc, promoted, removed>>, raced \subseteq raced',
         \A c \in P.Savers : saver'[c] = "unlink" => saver[c] = "unlink" /\ fin'[c] = fin[c],
         \A b \in P.Savers : up'[b] = up[b] \/ up'[b] \notin promoted
  PROVE  Entries(P)'
<1>1. EntryInv(P)'
  BY DEF Entries, EntryInv
<1>2. GoneInv(P)'
  BY DEF Entries, GoneInv, EntryIds
<1>3. GcInv'
  BY DEF Entries, GcInv
<1> QED BY <1>1, <1>2, <1>3 DEF Entries

-----------------------------------------------------------------------------
(* createUpload. *)

LEMMA CreateSelects ==
  ASSUME NEW P, Store(P)!StoreAssumption, StoreInv(P), NEW c \in P.Savers, Store(P)!CreateSelect(c)
  PROVE  StoreInv(P)'
<1> USE DEF StoreInv, Saves, Finals
<1>1. PICK s \in {"insert", "refused"} : saver' = [saver EXCEPT ![c] = s]
  BY DEF Store!CreateSelect, Store!Becomes
<1>2. saver[c] = "create" /\ UNCHANGED <<up, acked, fin, put, upload, lru, file, gc, reader, promoted, removed, raced>>
  BY DEF Store!CreateSelect, Store!tables, Store!history
<1>3. \A b \in P.Savers : saver'[b] = IF b = c THEN s ELSE saver[b]
  BY <1>1 DEF StoreTypes
<1>4. StoreTypes(P)' /\ FreshInv(P)' /\ PutInv(P)' /\ CountInv(P)' /\ AckInv(P)'
  BY <1>1, <1>2 DEF StoreTypes, FreshInv, PutInv, CountInv, AckInv, Early, Owned
<1>5. OwnInv(P)' /\ FinInv(P)' /\ ClosedInv(P)'
  BY <1>2, <1>3 DEF OwnInv, FinInv, Finalizes, ClosedInv, Closed, Early, Before, Later, Owned, WholeFiles
<1>6. Entries(P)' /\ ReaderInv(P)'
  BY <1>2, <1>3, EntriesStay, ReadersStay
<1> QED BY <1>4, <1>5, <1>6

LEMMA CreateInserts ==
  ASSUME NEW P, Store(P)!StoreAssumption, StoreInv(P), NEW c \in P.Savers, Store(P)!CreateInsert(c)
  PROVE  StoreInv(P)'
<1> USE StoreBasics DEF StoreInv, Saves, Finals
<1>1. PICK i \in Ids(P) \ {up[b] : b \in P.Savers} :
        /\ up' = [up EXCEPT ![c] = i]
        /\ upload' = [upload EXCEPT ![i] = [key |-> P.KeyOf[c], started |-> 0, finished |-> 0]]
  BY DEF Store!CreateInsert, Ids
<1>2. /\ saver[c] = "insert" /\ saver' = [saver EXCEPT ![c] = "upload"]
      /\ UNCHANGED <<acked, fin, put, lru, file, gc, reader, promoted, removed, raced>>
  BY DEF Store!CreateInsert, Store!Becomes, Store!history
<1> DEFINE row == [key |-> P.KeyOf[c], started |-> 0, finished |-> 0]
<1>3. /\ \A b \in P.Savers : saver'[b] = IF b = c THEN "upload" ELSE saver[b]
      /\ \A b \in P.Savers : up'[b] = IF b = c THEN i ELSE up[b]
      /\ \A j \in Ids(P) : upload'[j] = IF j = i THEN row ELSE upload[j]
  BY <1>1, <1>2 DEF StoreTypes
<1>4. row \in Rows(P) /\ row.key = P.KeyOf[c] /\ row.started = 0 /\ row.finished = 0 /\ row.key # "none"
  BY DEF Rows, Keys
<1> HIDE DEF row
<1>5. ~Owned(P, i) /\ up[c] = 0 /\ acked[c] = {} /\ i \notin promoted /\ (\A p \in Parts(P) : file[i][p] = "none")
  BY <1>1, <1>2 DEF Owned, OwnInv, Early, FreshInv
<1>6. /\ \A x \in P.PutSlots : put[x].id # i
      /\ \A b \in P.Savers : up[b] # 0 => up[b] \in Ids(P) /\ up[b] # i
  <2>1. i \notin {0} /\ \A b \in P.Savers : up[b] \in Ids(P) \cup {0} /\ up[b] # i
    BY <1>1, <1>5 DEF Owned, StoreTypes
  <2>2. \A x \in P.PutSlots : put[x].id = 0 \/ \E b \in P.Savers : put[x].id = up[b]
    BY DEF PutInv
  <2> QED BY <2>1, <2>2
<1>7. StoreTypes(P)'
  BY <1>1, <1>2, <1>4 DEF StoreTypes, row
<1>8. OwnInv(P)' /\ PutInv(P)'
  BY <1>2, <1>3, <1>5 DEF OwnInv, PutInv, Early, Owned
<1>9. FreshInv(P)'
  <2>1. \A j \in Ids(P) : ~Owned(P, j)' => ~Owned(P, j) /\ j # i
    BY <1>3, <1>5 DEF Owned
  <2>2. \A j \in Ids(P) : upload'[j] # Store(P)!NoRow => upload'[j].key # "none"
    BY <1>3, <1>4 DEF FreshInv
  <2>3. \A b \in P.Savers : up'[b] # 0 /\ upload'[up'[b]] # Store(P)!NoRow => upload'[up'[b]].key = P.KeyOf[b]
    BY <1>3, <1>4, <1>6 DEF FreshInv
  <2>4. \A j \in Ids(P) : ~Owned(P, j)' => upload'[j] = Store(P)!NoRow /\ j \notin promoted /\ \A p \in Parts(P) : file[j][p] = "none"
    BY <1>3, <2>1 DEF FreshInv
  <2> QED BY <1>2, <2>2, <2>3, <2>4 DEF FreshInv
<1>10. CountInv(P)'
  <2>1. Active(P, put, i) = {} /\ ~Abandoned(P, file, put, i)
    BY <1>5, <1>6 DEF Active, Abandoned
  <2>2. Cardinality(Active(P, put, i)) = 0
    BY <2>1, FS_EmptySet
  <2>3. ASSUME NEW j \in Ids(P), upload'[j] # Store(P)!NoRow
        PROVE  /\ upload'[j].started >= upload'[j].finished + Cardinality(Active(P, put, j))
               /\ Abandoned(P, file, put, j) => upload'[j].started > upload'[j].finished + Cardinality(Active(P, put, j))
    <3>1. CASE j = i
      <4>1. upload'[j].started = 0 /\ upload'[j].finished = 0
        BY <1>3, <1>4, <3>1
      <4>2. Cardinality(Active(P, put, j)) = 0 /\ ~Abandoned(P, file, put, j)
        BY <2>1, <2>2, <3>1
      <4> QED BY <4>1, <4>2
    <3>2. CASE j # i
      BY <1>3, <2>3, <3>2 DEF CountInv
    <3> QED BY <3>1, <3>2
  <2> QED BY <1>2, <2>3 DEF CountInv
<1>11. AckInv(P)'
  BY <1>2, <1>3, <1>5, <1>6 DEF AckInv
<1>12. FinInv(P)'
  BY <1>2, <1>3, <1>5 DEF FinInv, Finalizes, Owned, Before, Later
<1>13. ClosedInv(P)'
  BY <1>2, <1>3, <1>5 DEF ClosedInv, Closed, WholeFiles, Before, Later
<1>14. Entries(P)' /\ ReaderInv(P)'
  BY <1>2, <1>3, <1>5, EntriesStay, ReadersStay
<1> QED BY <1>7, <1>8, <1>9, <1>10, <1>11, <1>12, <1>13, <1>14

-----------------------------------------------------------------------------
(* uploadPart. *)

\* What a step of a PUT, or of its client, leaves alone.
LEMMA PutsMove ==
  ASSUME NEW P, StoreInv(P), UNCHANGED <<up, fin, lru, gc, reader, promoted, removed, raced>>,
         \A b \in P.Savers : saver'[b] = saver[b] \/ (saver[b] = "upload" /\ saver'[b] = "gone"),
         \A x \in P.PutSlots : put'[x].id = put[x].id \/ put'[x].id = 0
                                 \/ \E b \in P.Savers : saver[b] = "upload" /\ put'[x].id = up[b],
         \A i \in Ids(P) : (\A x \in P.PutSlots : put[x].id # i) => \A p \in Parts(P) : file'[i][p] = file[i][p]
  PROVE  Finals(P)' /\ Entries(P)' /\ ReaderInv(P)'
<1> USE DEF StoreInv, Saves, Finals
<1>1. FinInv(P)'
  BY DEF FinInv, Finalizes, Owned, Before, Later
<1>2. ASSUME NEW c \in P.Savers, saver'[c] \in Before \cup Later, fin[c].id = up[c], up[c] \notin raced
      PROVE  /\ saver[c] = saver'[c] /\ (\A x \in P.PutSlots : put[x].id # up[c] /\ put'[x].id # up[c])
             /\ up[c] \in Ids(P) /\ \A p \in Parts(P) : file'[up[c]][p] = file[up[c]][p]
  <2>1. saver[c] = saver'[c] /\ up[c] \in Ids(P)
    BY <1>2 DEF Before, Later, FinInv, Finalizes
  <2>2. \A x \in P.PutSlots : put[x].id # up[c]
    BY <1>2, <2>1 DEF ClosedInv, Closed
  <2>3. up[c] # 0
    BY <1>2, <2>1 DEF OwnInv, Early, Before, Later
  <2>4. \A b \in P.Savers : saver[b] = "upload" => up[b] # up[c]
    BY <1>2, <2>1, <2>3 DEF OwnInv, Before, Later
  <2> QED BY <2>1, <2>2, <2>3, <2>4
<1>3. ClosedInv(P)'
  <2> SUFFICES ASSUME NEW c \in P.Savers, up[c] \notin raced
               PROVE  /\ saver'[c] \in Before \cup Later /\ fin[c].id = up[c] => \A x \in P.PutSlots : put'[x].id # up[c]
                      /\ saver'[c] \in Before /\ fin[c].id = up[c] => WholeFiles(P, up[c])' /\ up[c] \notin promoted
                      /\ saver'[c] \in Before \ {"count"} /\ fin[c].id = up[c] => fin[c].finished = P.PartCount
                      /\ up[c] \in promoted => /\ saver'[c] \in Later /\ fin[c].id = up[c]
                                               /\ up[c] \notin removed => WholeFiles(P, up[c])'
    BY DEF ClosedInv, Closed, WholeFiles
  <2>1. CASE saver'[c] \in Before \cup Later /\ fin[c].id = up[c]
    BY <1>2, <2>1 DEF ClosedInv, Closed, WholeFiles
  <2>2. CASE ~(saver'[c] \in Before \cup Later /\ fin[c].id = up[c])
    <3>1. ~(saver[c] \in Before \cup Later /\ fin[c].id = up[c])
      BY <2>2 DEF Before, Later
    <3> QED BY <2>2, <3>1 DEF ClosedInv, Closed
  <2> QED BY <2>1, <2>2
<1>4. Entries(P)' /\ ReaderInv(P)'
  BY EntriesStay, ReadersStay
<1> QED BY <1>1, <1>3, <1>4

\* A step of a PUT: its new record, the row of its upload and the file of its part, and who is answered.
PutFits(P, x, q, i, row, f) ==
  /\ put[x].step # "idle" /\ i = put[x].id /\ q \in Puts(P) /\ i \in Ids(P) /\ row \in Rows(P) /\ f \in {"none", "torn", "whole"}
  /\ put' = [put EXCEPT ![x] = q] /\ upload' = [upload EXCEPT ![i] = row]
  /\ file' = [file EXCEPT ![i][put[x].part] = f]
  /\ \/ q.step = "idle" /\ q.id = 0
     \/ q.step # "idle" /\ q.by = put[x].by /\ q.id = i /\ q.part = put[x].part
  /\ f = "none" => file[i][put[x].part] = "none"
  /\ (row = Store(P)!NoRow <=> upload[i] = Store(P)!NoRow) /\ row.key = upload[i].key
  /\ \/ acked' = acked
     \/ put[x].step = "finish" /\ acked' = [acked EXCEPT ![put[x].by] = @ \cup {put[x].part}]
  /\ UNCHANGED <<saver, up, fin, lru, gc, reader, promoted, removed, raced>>
  /\ row # Store(P)!NoRow =>
       /\ row.started >= row.finished + Cardinality(Active(P, put', i))
       /\ Abandoned(P, file', put', i) => row.started > row.finished + Cardinality(Active(P, put', i))
  /\ q.step \in {"write", "finish"} /\ i \notin removed => f # "none"

\* It leaves the counts of other uploads, and the files of other parts, alone.
LEMMA PutSteps ==
  ASSUME NEW P, Store(P)!StoreAssumption, StoreInv(P), NEW x \in P.PutSlots, NEW q, NEW i, NEW row, NEW f, PutFits(P, x, q, i, row, f)
  PROVE  StoreInv(P)'
<1> USE StoreBasics DEF StoreInv, Saves, Finals, PutFits
<1>0. put[x].by \in P.Savers /\ i = up[put[x].by] /\ put[x].part \in Parts(P)
  BY DEF PutInv, StoreTypes, Puts
<1>1. /\ \A y \in P.PutSlots : put'[y] = IF y = x THEN q ELSE put[y]
      /\ \A j \in Ids(P) : upload'[j] = IF j = i THEN row ELSE upload[j]
      /\ \A j \in Ids(P), p \in Parts(P) : file'[j][p] = IF j = i /\ p = put[x].part THEN f ELSE file[j][p]
      /\ \A b \in P.Savers : \A p \in acked'[b] :
           p \in acked[b] \/ (b = put[x].by /\ p = put[x].part /\ put[x].step = "finish")
  BY <1>0 DEF StoreTypes
<1>2. StoreTypes(P)'
  <2>1. file' \in [Ids(P) -> [Parts(P) -> {"none", "torn", "whole"}]]
    BY <1>0 DEF StoreTypes
  <2>2. acked' \in [P.Savers -> SUBSET Parts(P)]
    <3>1. acked[put[x].by] \cup {put[x].part} \in SUBSET Parts(P)
      BY <1>0 DEF StoreTypes
    <3> QED BY <1>0, <3>1 DEF StoreTypes
  <2> QED BY <2>1, <2>2 DEF StoreTypes
<1>3. OwnInv(P)'
  <2>1. up[put[x].by] # 0
    BY <1>0
  <2> QED BY <1>1, <2>1 DEF OwnInv
<1>4. FreshInv(P)'
  <2>1. Owned(P, i)
    BY <1>0 DEF Owned
  <2>2. \A b \in P.Savers : up[b] # 0 => up[b] \in Ids(P)
    BY DEF StoreTypes
  <2>3. \A j \in Ids(P) : upload'[j].key = upload[j].key /\ (upload'[j] = Store(P)!NoRow <=> upload[j] = Store(P)!NoRow)
    BY <1>1
  <2> QED BY <1>1, <2>1, <2>2, <2>3 DEF FreshInv, Owned
<1>5. PutInv(P)'
  BY <1>0, <1>1 DEF PutInv
<1>6. CountInv(P)'
  <2>1. ASSUME NEW j \in Ids(P), j # i
        PROVE  Active(P, put', j) = Active(P, put, j) /\ (Abandoned(P, file', put', j) => Abandoned(P, file, put, j))
    BY <1>1, <2>1 DEF Active, Abandoned
  <2>2. ASSUME NEW j \in Ids(P), upload'[j] # Store(P)!NoRow
        PROVE  /\ upload'[j].started >= upload'[j].finished + Cardinality(Active(P, put', j))
               /\ Abandoned(P, file', put', j) => upload'[j].started > upload'[j].finished + Cardinality(Active(P, put', j))
    <3>1. CASE j = i
      BY <1>1, <2>2, <3>1
    <3>2. CASE j # i
      BY <1>1, <2>1, <2>2, <3>2 DEF CountInv
    <3> QED BY <3>1, <3>2
  <2> QED BY <2>2 DEF CountInv
<1>7. AckInv(P)'
  <2>1. \A y \in P.PutSlots : put'[y].step \in {"write", "finish"} /\ put'[y].id \notin removed =>
          file'[put'[y].id][put'[y].part] # "none"
    <3> SUFFICES ASSUME NEW y \in P.PutSlots, put'[y].step \in {"write", "finish"}, put'[y].id \notin removed
                 PROVE  file'[put'[y].id][put'[y].part] # "none"
      OBVIOUS
    <3>1. CASE y = x
      BY <1>0, <1>1, <3>1
    <3>2. CASE y # x
      <4>1. put[y].id \in Ids(P) /\ put[y].part \in Parts(P) /\ file[put[y].id][put[y].part] # "none" /\ put'[y] = put[y]
        BY <1>1, <3>2 DEF AckInv, PutInv, StoreTypes, Puts
      <4> QED BY <1>1, <4>1
    <3> QED BY <3>1, <3>2
  <2>2. ASSUME NEW c \in P.Savers, up[c] # 0, upload'[up[c]] # Store(P)!NoRow, up[c] \notin removed, NEW p \in acked'[c]
        PROVE  file'[up[c]][p] # "none"
    <3>1. up[c] \in Ids(P) /\ upload[up[c]] # Store(P)!NoRow /\ p \in Parts(P)
      BY <1>1, <1>2, <2>2 DEF StoreTypes
    <3>2. CASE p \in acked[c]
      <4>1. file[up[c]][p] # "none"
        BY <2>2, <3>1, <3>2 DEF AckInv
      <4> QED BY <1>1, <3>1, <4>1
    <3>3. CASE p \notin acked[c]
      <4>1. c = put[x].by /\ p = put[x].part /\ put[x].step = "finish"
        BY <1>1, <2>2, <3>3
      <4>2. up[c] = i /\ file[i][p] # "none"
        BY <1>0, <2>2, <4>1 DEF AckInv
      <4> QED BY <1>1, <3>1, <4>2
    <3> QED BY <3>2, <3>3
  <2> QED BY <2>1, <2>2 DEF AckInv
<1>8. Finals(P)' /\ Entries(P)' /\ ReaderInv(P)'
  <2>1. ASSUME NEW j \in Ids(P), \A y \in P.PutSlots : put[y].id # j
        PROVE  \A p \in Parts(P) : file'[j][p] = file[j][p]
    BY <1>1, <2>1
  <2>2. \A y \in P.PutSlots : put'[y].id = put[y].id \/ put'[y].id = 0
    BY <1>1
  <2> QED BY <2>1, <2>2, PutsMove
<1> QED BY <1>2, <1>3, <1>4, <1>5, <1>6, <1>7, <1>8

\* One PUT more or less between its counts.
Counted(i, r) == r.id = i /\ r.step \in {"create", "write", "finish"}
PutMoves(P, x, i, q) ==
  put' = [put EXCEPT ![x] = q] /\ put \in [P.PutSlots -> Puts(P)] /\ put[x].id = i /\ q.id \in {i, 0}

LEMMA ActiveMoves ==
  ASSUME NEW P, Store(P)!StoreAssumption, NEW x \in P.PutSlots, NEW i \in Ids(P), NEW q \in Puts(P), PutMoves(P, x, i, q)
  PROVE  /\ Cardinality(Active(P, put, i)) \in Nat /\ Cardinality(Active(P, put', i)) \in Nat
         /\ (Counted(i, q) <=> Counted(i, put[x])) => Cardinality(Active(P, put', i)) = Cardinality(Active(P, put, i))
         /\ Counted(i, q) /\ ~Counted(i, put[x]) => Cardinality(Active(P, put', i)) = Cardinality(Active(P, put, i)) + 1
         /\ ~Counted(i, q) /\ Counted(i, put[x]) => Cardinality(Active(P, put', i)) = Cardinality(Active(P, put, i)) - 1
<1> DEFINE counted(r) == Counted(i, r)
           A == Active(P, put, i)
           B == Active(P, put', i)
<1>1. IsFiniteSet(A) /\ IsFiniteSet(B) /\ Cardinality(A) \in Nat /\ Cardinality(B) \in Nat
  BY StoreBasics, FS_Subset, FS_CardinalityType DEF Active
<1>2. (x \in A <=> counted(put[x])) /\ (x \in B <=> counted(q)) /\ A \ {x} = B \ {x}
  BY DEF Active, Counted, PutMoves
<1> HIDE DEF A, B, counted
<1>3. (counted(q) <=> counted(put[x])) => B = A
  BY <1>2
<1>4. counted(q) /\ ~counted(put[x]) => B = A \cup {x} /\ x \notin A
  BY <1>2
<1>5. ~counted(q) /\ counted(put[x]) => B = A \ {x} /\ x \in A
  BY <1>2
<1>6. (counted(q) <=> counted(put[x])) => Cardinality(B) = Cardinality(A)
  BY <1>3
<1>7. counted(q) /\ ~counted(put[x]) => Cardinality(B) = Cardinality(A) + 1
  BY <1>1, <1>4, FS_AddElement
<1>8. ~counted(q) /\ counted(put[x]) => Cardinality(B) = Cardinality(A) - 1
  BY <1>1, <1>5, FS_RemoveElement
<1> QED BY <1>1, <1>6, <1>7, <1>8 DEF A, B, counted

LEMMA PutSelects ==
  ASSUME NEW P, Store(P)!StoreAssumption, StoreInv(P), NEW x \in P.PutSlots, NEW c \in P.Savers, NEW p \in Parts(P), Store(P)!PutSelect(x, c, p)
  PROVE  StoreInv(P)'
<1> USE StoreBasics DEF StoreInv, Saves, Finals
<1>0. /\ saver[c] = "upload" /\ put[x].step = "idle" /\ put[x].id = 0
      /\ UNCHANGED <<saver, up, fin, upload, lru, file, gc, reader, promoted, removed, raced>>
  BY DEF Store!PutSelect, Store!tables, Store!history, PutInv
<1>1. up[c] # 0 /\ up[c] \in Ids(P)
  BY <1>0 DEF OwnInv, Early, StoreTypes
<1>2. CASE upload[up[c]] # Store(P)!NoRow
  <2> DEFINE q == [step |-> "start", by |-> c, id |-> up[c], part |-> p, waits |-> TRUE]
  <2>1. put' = [put EXCEPT ![x] = q] /\ acked' = acked
    BY <1>2 DEF Store!PutSelect, Store!HasRow
  <2>2. q \in Puts(P) /\ q.step = "start" /\ q.by = c /\ q.id = up[c]
    BY <1>1 DEF Puts
  <2> HIDE DEF q
  <2>3. \A y \in P.PutSlots : put'[y] = IF y = x THEN q ELSE put[y]
    BY <2>1 DEF StoreTypes
  <2>4. StoreTypes(P)' /\ OwnInv(P)' /\ FreshInv(P)'
    BY <1>0, <2>1, <2>2 DEF StoreTypes, OwnInv, FreshInv, Owned
  <2>5. PutInv(P)' /\ AckInv(P)'
    BY <1>0, <1>1, <2>1, <2>2, <2>3 DEF PutInv, AckInv
  <2>6. \A i \in Ids(P) : Active(P, put', i) = Active(P, put, i) /\ (Abandoned(P, file, put', i) => Abandoned(P, file, put, i))
    BY <1>0, <2>2, <2>3 DEF Active, Abandoned
  <2>7. CountInv(P)'
    BY <1>0, <2>6 DEF CountInv
  <2>8. \A y \in P.PutSlots : put'[y].id = put[y].id \/ \E b \in P.Savers : saver[b] = "upload" /\ put'[y].id = up[b]
    BY <1>0, <2>2, <2>3
  <2>9. Finals(P)' /\ Entries(P)' /\ ReaderInv(P)'
    BY <1>0, <2>8, PutsMove
  <2> QED BY <2>4, <2>5, <2>7, <2>9
<1>3. CASE upload[up[c]] = Store(P)!NoRow
  <2>1. put' = put /\ acked' = [acked EXCEPT ![c] = @ \cup {p}]
    BY <1>3 DEF Store!PutSelect, Store!HasRow
  <2>2. acked' \in [P.Savers -> SUBSET Parts(P)] /\ \A b \in P.Savers : b # c => acked'[b] = acked[b]
    <3>1. acked[c] \cup {p} \in SUBSET Parts(P)
      BY DEF StoreTypes
    <3> QED BY <2>1, <3>1 DEF StoreTypes
  <2>3. StoreTypes(P)' /\ FreshInv(P)' /\ PutInv(P)' /\ CountInv(P)'
    BY <1>0, <2>1, <2>2 DEF StoreTypes, FreshInv, PutInv, CountInv, Owned
  <2>4. OwnInv(P)' /\ AckInv(P)'
    BY <1>0, <1>1, <1>3, <2>1, <2>2 DEF OwnInv, AckInv
  <2>5. Finals(P)' /\ Entries(P)' /\ ReaderInv(P)'
    BY <1>0, <2>1, PutsMove
  <2> QED BY <2>3, <2>4, <2>5
<1> QED BY <1>2, <1>3

\* A PUT at work, the row and the file it is at.
LEMMA PutAt ==
  ASSUME NEW P, Store(P)!StoreAssumption, StoreInv(P), NEW x \in P.PutSlots, put[x].step # "idle"
  PROVE  LET i == put[x].id
             p == put[x].part
         IN  /\ put[x] \in Puts(P) /\ i \in Ids(P) /\ p \in Parts(P) /\ put[x].by \in P.Savers
             /\ upload[i] \in Rows(P) /\ file[i][p] \in {"none", "torn", "whole"}
             /\ upload = [upload EXCEPT ![i] = upload[i]] /\ file = [file EXCEPT ![i][p] = file[i][p]]
             /\ upload[i] # Store(P)!NoRow =>
                  /\ upload[i].started >= upload[i].finished + Cardinality(Active(P, put, i))
                  /\ Abandoned(P, file, put, i) => upload[i].started > upload[i].finished + Cardinality(Active(P, put, i))
<1> DEFINE i == put[x].id
           p == put[x].part
<1>1. put[x] \in Puts(P) /\ i \in Ids(P) /\ p \in Parts(P) /\ put[x].by \in P.Savers
  BY DEF StoreInv, Saves, StoreTypes, Puts, PutInv
<1> HIDE DEF i, p
<1>2. upload[i] \in Rows(P) /\ file[i][p] \in {"none", "torn", "whole"}
  BY <1>1 DEF StoreInv, Saves, StoreTypes
<1>3. upload = [upload EXCEPT ![i] = upload[i]] /\ file = [file EXCEPT ![i][p] = file[i][p]]
  BY <1>1 DEF StoreInv, Saves, StoreTypes
<1>4. upload[i] # Store(P)!NoRow =>
        /\ upload[i].started >= upload[i].finished + Cardinality(Active(P, put, i))
        /\ Abandoned(P, file, put, i) => upload[i].started > upload[i].finished + Cardinality(Active(P, put, i))
  BY <1>1 DEF StoreInv, Saves, CountInv
<1> QED BY <1>1, <1>2, <1>3, <1>4 DEF i, p

\* The row of a PUT after one of its counts.
LEMMA Counts ==
  ASSUME NEW P, NEW i \in Ids(P), upload \in [Ids(P) -> Rows(P)], NEW field \in {"started", "finished"}, Store(P)!Count(i, field),
         \A j \in Ids(P) : upload[j] # Store(P)!NoRow => upload[j].key # "none"
  PROVE  \E row \in Rows(P) :
           /\ upload' = [upload EXCEPT ![i] = row] /\ row.key = upload[i].key
           /\ row = Store(P)!NoRow <=> upload[i] = Store(P)!NoRow
           /\ row # Store(P)!NoRow =>
                /\ row.started = upload[i].started + (IF field = "started" THEN 1 ELSE 0)
                /\ row.finished = upload[i].finished + (IF field = "finished" THEN 1 ELSE 0)
<1>1. CASE upload[i] = Store(P)!NoRow
  <2>1. upload' = upload
    BY <1>1 DEF Store!Count, Store!HasRow
  <2> QED BY <1>1, <2>1
<1>2. CASE upload[i] # Store(P)!NoRow
  <2> DEFINE row == [upload[i] EXCEPT ![field] = @ + 1]
  <2>1. upload' = [upload EXCEPT ![i] = row]
    BY <1>2 DEF Store!Count, Store!HasRow
  <2>2. upload[i] \in Rows(P)
    OBVIOUS
  <2>3. /\ row \in Rows(P) /\ row.key = upload[i].key
        /\ row.started = upload[i].started + (IF field = "started" THEN 1 ELSE 0)
        /\ row.finished = upload[i].finished + (IF field = "finished" THEN 1 ELSE 0)
    BY <2>2 DEF Rows
  <2>4. row # Store(P)!NoRow
    BY <1>2, <2>3, NoRowIsRow
  <2> HIDE DEF row
  <2> QED BY <1>2, <2>1, <2>3, <2>4
<1> QED BY <1>1, <1>2

LEMMA PutStarts ==
  ASSUME NEW P, Store(P)!StoreAssumption, StoreInv(P), NEW x \in P.PutSlots, Store(P)!PutStart(x)
  PROVE  StoreInv(P)'
<1> DEFINE i == put[x].id
           p == put[x].part
           q == [put[x] EXCEPT !.step = "create"]
           f == file[i][p]
<1>1. /\ put[x].step = "start" /\ put' = [put EXCEPT ![x].step = "create"] /\ Store(P)!Count(i, "started")
      /\ UNCHANGED <<saver, up, acked, fin, lru, file, gc, reader, promoted, removed, raced>>
  BY DEF Store!PutStart, Store!Step, Store!history
<1>2. /\ put[x] \in Puts(P) /\ i \in Ids(P) /\ p \in Parts(P) /\ upload[i] \in Rows(P) /\ f \in {"none", "torn", "whole"}
      /\ file = [file EXCEPT ![i][p] = f]
      /\ upload[i] # Store(P)!NoRow =>
           /\ upload[i].started >= upload[i].finished + Cardinality(Active(P, put, i))
           /\ Abandoned(P, file, put, i) => upload[i].started > upload[i].finished + Cardinality(Active(P, put, i))
  BY <1>1, PutAt
<1>3. q \in Puts(P) /\ q.step = "create" /\ q.by = put[x].by /\ q.id = i /\ q.part = p /\ put' = [put EXCEPT ![x] = q]
  BY <1>1, <1>2 DEF Puts, StoreInv, Saves, StoreTypes
<1>4. PICK row \in Rows(P) :
        /\ upload' = [upload EXCEPT ![i] = row] /\ row.key = upload[i].key
        /\ row = Store(P)!NoRow <=> upload[i] = Store(P)!NoRow
        /\ row # Store(P)!NoRow => row.started = upload[i].started + 1 /\ row.finished = upload[i].finished
  <2>1. upload \in [Ids(P) -> Rows(P)] /\ \A j \in Ids(P) : upload[j] # Store(P)!NoRow => upload[j].key # "none"
    BY DEF StoreInv, Saves, StoreTypes, FreshInv
  <2>2. upload[i].finished + 0 = upload[i].finished
    BY <1>2 DEF Rows
  <2> QED BY <1>1, <1>2, <2>1, <2>2, Counts
<1>5. put \in [P.PutSlots -> Puts(P)]
  BY DEF StoreInv, Saves, StoreTypes
<1>6. Cardinality(Active(P, put', i)) = Cardinality(Active(P, put, i)) + 1 /\ Cardinality(Active(P, put, i)) \in Nat
  <2>1. PutMoves(P, x, i, q) /\ Counted(i, q) /\ ~Counted(i, put[x])
    BY <1>1, <1>2, <1>3, <1>5 DEF PutMoves, Counted
  <2>2. i \in Ids(P) /\ q \in Puts(P)
    BY <1>2, <1>3
  <2> HIDE DEF q, i
  <2> QED BY <2>1, <2>2, ActiveMoves
<1>7. Abandoned(P, file, put', i) => Abandoned(P, file, put, i)
  BY <1>1, <1>3, <1>5 DEF Abandoned
<1>8. row # Store(P)!NoRow =>
        /\ row.started >= row.finished + Cardinality(Active(P, put', i))
        /\ Abandoned(P, file', put', i) => row.started > row.finished + Cardinality(Active(P, put', i))
  <2>1. upload[i].started \in Nat /\ upload[i].finished \in Nat
    BY <1>2 DEF Rows
  <2> QED BY <1>1, <1>2, <1>4, <1>6, <1>7, <2>1
<1>9. file' = [file EXCEPT ![i][put[x].part] = f] /\ (f = "none" => file[i][put[x].part] = "none") /\ i = put[x].id
  BY <1>1, <1>2
<1>10. put[x].step # "idle" /\ q.step # "idle" /\ q.part = put[x].part /\ ~(q.step \in {"write", "finish"})
  BY <1>1, <1>3
<1> HIDE DEF q, f, i, p
<1>11. PutFits(P, x, q, i, row, f)
  BY <1>1, <1>2, <1>3, <1>4, <1>8, <1>9, <1>10 DEF PutFits
<1> QED BY <1>11, PutSteps

LEMMA PutCreates ==
  ASSUME NEW P, Store(P)!StoreAssumption, StoreInv(P), NEW x \in P.PutSlots, Store(P)!PutCreate(x)
  PROVE  StoreInv(P)'
<1> DEFINE i == put[x].id
           p == put[x].part
           q == [put[x] EXCEPT !.step = "write"]
           row == upload[i]
<1>1. /\ put[x].step = "create" /\ put' = [put EXCEPT ![x].step = "write"] /\ file' = [file EXCEPT ![i][p] = "torn"]
      /\ UNCHANGED <<saver, up, acked, fin, upload, lru, gc, reader, promoted, removed, raced>>
  BY DEF Store!PutCreate, Store!Step, Store!history
<1>2. /\ put[x] \in Puts(P) /\ i \in Ids(P) /\ p \in Parts(P) /\ row \in Rows(P) /\ upload = [upload EXCEPT ![i] = row]
      /\ row # Store(P)!NoRow =>
           /\ row.started >= row.finished + Cardinality(Active(P, put, i))
           /\ Abandoned(P, file, put, i) => row.started > row.finished + Cardinality(Active(P, put, i))
  BY <1>1, PutAt
<1>3. q \in Puts(P) /\ q.step = "write" /\ q.by = put[x].by /\ q.id = i /\ q.part = p /\ put' = [put EXCEPT ![x] = q]
  BY <1>1, <1>2 DEF Puts, StoreInv, Saves, StoreTypes
<1>4. put \in [P.PutSlots -> Puts(P)] /\ file \in [Ids(P) -> [Parts(P) -> {"none", "torn", "whole"}]]
  BY DEF StoreInv, Saves, StoreTypes
<1> HIDE DEF q, row
<1>5. Cardinality(Active(P, put', i)) = Cardinality(Active(P, put, i))
  <2>1. PutMoves(P, x, i, q) /\ Counted(i, q) /\ Counted(i, put[x])
    BY <1>1, <1>2, <1>3, <1>4 DEF PutMoves, Counted
  <2>2. i \in Ids(P) /\ q \in Puts(P)
    BY <1>2, <1>3
  <2> HIDE DEF i, p
  <2> QED BY <2>1, <2>2, ActiveMoves
<1>6. \A y \in P.PutSlots : put'[y] = IF y = x THEN q ELSE put[y]
  BY <1>3, <1>4
<1>7. \A k \in Parts(P) : file'[i][k] = IF k = p THEN "torn" ELSE file[i][k]
  BY <1>1, <1>2, <1>4
<1> HIDE DEF i, p
<1>8. Abandoned(P, file', put', i) => Abandoned(P, file, put, i)
  BY <1>1, <1>3, <1>6, <1>7 DEF Abandoned, p, i
<1>9. PutFits(P, x, q, i, row, "torn")
  BY <1>1, <1>2, <1>3, <1>5, <1>8 DEF PutFits, i, p, row
<1> QED BY <1>9, PutSteps

LEMMA PutWrites ==
  ASSUME NEW P, Store(P)!StoreAssumption, StoreInv(P), NEW x \in P.PutSlots, Store(P)!PutWrite(x)
  PROVE  StoreInv(P)'
<1> DEFINE i == put[x].id
           p == put[x].part
           row == upload[i]
<1>1. /\ put[x].step = "write"
      /\ UNCHANGED <<saver, up, acked, fin, upload, lru, gc, reader, promoted, removed, raced>>
  BY DEF Store!PutWrite, Store!history
<1>2. /\ put[x] \in Puts(P) /\ i \in Ids(P) /\ p \in Parts(P) /\ row \in Rows(P) /\ upload = [upload EXCEPT ![i] = row]
      /\ file[i][p] \in {"none", "torn", "whole"} /\ file = [file EXCEPT ![i][p] = file[i][p]]
      /\ row # Store(P)!NoRow =>
           /\ row.started >= row.finished + Cardinality(Active(P, put, i))
           /\ Abandoned(P, file, put, i) => row.started > row.finished + Cardinality(Active(P, put, i))
  BY <1>1, PutAt
<1>3. put \in [P.PutSlots -> Puts(P)] /\ file \in [Ids(P) -> [Parts(P) -> {"none", "torn", "whole"}]]
  BY DEF StoreInv, Saves, StoreTypes
<1>4. ASSUME file' = [file EXCEPT ![i][p] = IF @ = "none" THEN @ ELSE "whole"], put' = [put EXCEPT ![x].step = "finish"]
      PROVE  StoreInv(P)'
  <2> DEFINE q == [put[x] EXCEPT !.step = "finish"]
             f == IF file[i][p] = "none" THEN file[i][p] ELSE "whole"
  <2>1. q \in Puts(P) /\ q.step = "finish" /\ q.by = put[x].by /\ q.id = i /\ q.part = p /\ put' = [put EXCEPT ![x] = q]
    BY <1>1, <1>2, <1>3, <1>4 DEF Puts
  <2>2. file' = [file EXCEPT ![i][p] = f] /\ f \in {"none", "whole"} /\ (f = "none" <=> file[i][p] = "none")
    BY <1>2, <1>3, <1>4
  <2>3. Cardinality(Active(P, put', i)) = Cardinality(Active(P, put, i))
    <3>1. PutMoves(P, x, i, q) /\ Counted(i, q) /\ Counted(i, put[x])
      BY <1>1, <1>2, <1>3, <2>1 DEF PutMoves, Counted
    <3>2. i \in Ids(P) /\ q \in Puts(P)
      BY <1>2, <2>1
    <3> HIDE DEF q, i
    <3> QED BY <3>1, <3>2, ActiveMoves
  <2> HIDE DEF q, f, row
  <2>4. \A y \in P.PutSlots : put'[y] = IF y = x THEN q ELSE put[y]
    BY <1>3, <2>1
  <2>5. \A k \in Parts(P) : file'[i][k] = IF k = p THEN f ELSE file[i][k]
    BY <1>2, <1>3, <2>2
  <2>6. i \notin removed => f # "none"
    BY <1>1, <2>2 DEF StoreInv, Saves, AckInv
  <2> HIDE DEF i, p
  <2>7. Abandoned(P, file', put', i) => Abandoned(P, file, put, i)
    BY <1>1, <2>1, <2>2, <2>4, <2>5 DEF Abandoned, p, i
  <2>8. PutFits(P, x, q, i, row, f)
    BY <1>1, <1>2, <2>1, <2>2, <2>3, <2>6, <2>7 DEF PutFits, i, p, row
  <2> QED BY <2>8, PutSteps
<1>5. ASSUME put' = [put EXCEPT ![x] = Store(P)!Idle], UNCHANGED file PROVE StoreInv(P)'
  <2> DEFINE q == Store(P)!Idle
             f == file[i][p]
  <2>1. q \in Puts(P) /\ q.step = "idle" /\ q.id = 0
    BY StoreBasics DEF Store!Idle, Puts
  <2>2. /\ Cardinality(Active(P, put', i)) = Cardinality(Active(P, put, i)) - 1
        /\ Cardinality(Active(P, put', i)) \in Nat /\ Cardinality(Active(P, put, i)) \in Nat
    <3>1. PutMoves(P, x, i, q) /\ ~Counted(i, q) /\ Counted(i, put[x])
      BY <1>1, <1>2, <1>3, <1>5, <2>1, StoreBasics DEF PutMoves, Counted
    <3>2. i \in Ids(P) /\ q \in Puts(P)
      BY <1>2, <2>1
    <3> HIDE DEF q, i
    <3> QED BY <3>1, <3>2, ActiveMoves
  <2>3. row.started \in Nat /\ row.finished \in Nat
    BY <1>2 DEF Rows
  <2> HIDE DEF q, f, row
  <2>4. row # Store(P)!NoRow => /\ row.started >= row.finished + Cardinality(Active(P, put', i))
                                /\ row.started > row.finished + Cardinality(Active(P, put', i))
    BY <1>2, <2>2, <2>3
  <2> HIDE DEF i, p
  <2>5. PutFits(P, x, q, i, row, f)
    BY <1>1, <1>2, <1>5, <2>1, <2>4 DEF PutFits, i, p, row, q, f
  <2> QED BY <2>5, PutSteps
<1> QED BY <1>4, <1>5 DEF Store!PutWrite

LEMMA PutFinishes ==
  ASSUME NEW P, Store(P)!StoreAssumption, StoreInv(P), NEW x \in P.PutSlots, Store(P)!PutFinish(x)
  PROVE  StoreInv(P)'
<1> DEFINE i == put[x].id
           p == put[x].part
           q == Store(P)!Idle
           f == file[i][p]
<1>1. /\ put[x].step = "finish" /\ put' = [put EXCEPT ![x] = q] /\ Store(P)!Count(i, "finished")
      /\ UNCHANGED <<saver, up, fin, lru, file, gc, reader, promoted, removed, raced>>
      /\ acked' = acked \/ acked' = [acked EXCEPT ![put[x].by] = @ \cup {p}]
  BY DEF Store!PutFinish, Store!history, Store!Ack
<1>2. /\ put[x] \in Puts(P) /\ i \in Ids(P) /\ p \in Parts(P) /\ upload[i] \in Rows(P) /\ f \in {"none", "torn", "whole"}
      /\ file = [file EXCEPT ![i][p] = f]
      /\ upload[i] # Store(P)!NoRow =>
           /\ upload[i].started >= upload[i].finished + Cardinality(Active(P, put, i))
           /\ Abandoned(P, file, put, i) => upload[i].started > upload[i].finished + Cardinality(Active(P, put, i))
  BY <1>1, PutAt
<1>3. q \in Puts(P) /\ q.step = "idle" /\ q.id = 0
  BY StoreBasics DEF Store!Idle, Puts
<1>4. PICK row \in Rows(P) :
        /\ upload' = [upload EXCEPT ![i] = row] /\ row.key = upload[i].key
        /\ row = Store(P)!NoRow <=> upload[i] = Store(P)!NoRow
        /\ row # Store(P)!NoRow => row.started = upload[i].started /\ row.finished = upload[i].finished + 1
  <2>1. upload \in [Ids(P) -> Rows(P)] /\ \A j \in Ids(P) : upload[j] # Store(P)!NoRow => upload[j].key # "none"
    BY DEF StoreInv, Saves, StoreTypes, FreshInv
  <2>2. upload[i].started + 0 = upload[i].started
    BY <1>2 DEF Rows
  <2> QED BY <1>1, <1>2, <2>1, <2>2, Counts
<1>5. put \in [P.PutSlots -> Puts(P)]
  BY DEF StoreInv, Saves, StoreTypes
<1>6. Cardinality(Active(P, put', i)) = Cardinality(Active(P, put, i)) - 1 /\ Cardinality(Active(P, put', i)) \in Nat
  <2>1. PutMoves(P, x, i, q) /\ ~Counted(i, q) /\ Counted(i, put[x])
    BY <1>1, <1>2, <1>3, <1>5, StoreBasics DEF PutMoves, Counted
  <2> HIDE DEF q, i
  <2> QED BY <2>1, <1>2, <1>3, ActiveMoves
<1> HIDE DEF q, f
<1>7. Abandoned(P, file, put', i) => Abandoned(P, file, put, i)
  <2>1. \A y \in P.PutSlots : put'[y] = IF y = x THEN q ELSE put[y]
    BY <1>1, <1>3, <1>5
  <2> QED BY <1>1, <1>2, <1>3, <2>1, StoreBasics DEF Abandoned
<1>8. row # Store(P)!NoRow =>
        /\ row.started >= row.finished + Cardinality(Active(P, put', i))
        /\ Abandoned(P, file', put', i) => row.started > row.finished + Cardinality(Active(P, put', i))
  <2>1. upload[i].started \in Nat /\ upload[i].finished \in Nat /\ Cardinality(Active(P, put, i)) \in Int
    <3>1. upload[i].started \in Nat /\ upload[i].finished \in Nat
      BY <1>2 DEF Rows
    <3>2. Cardinality(Active(P, put, i)) \in Nat
      BY StoreBasics, FS_Subset, FS_CardinalityType DEF Active
    <3> QED BY <3>1, <3>2
  <2> QED BY <1>1, <1>2, <1>4, <1>6, <1>7, <2>1
<1> HIDE DEF i, p
<1>9. PutFits(P, x, q, i, row, f)
  BY <1>1, <1>2, <1>3, <1>4, <1>8 DEF PutFits, i, p, f
<1> QED BY <1>9, PutSteps

\* Clients stop waiting: no PUT gets further by it.
LEMMA ClientsLeave ==
  ASSUME NEW P, Store(P)!StoreAssumption, StoreInv(P), put' \in [P.PutSlots -> Puts(P)],
         \A x \in P.PutSlots : /\ put'[x].step = put[x].step /\ put'[x].by = put[x].by
                               /\ put'[x].id = put[x].id /\ put'[x].part = put[x].part,
         UNCHANGED <<up, acked, fin, upload, lru, file, gc, reader, promoted, removed, raced>>,
         saver' = saver \/ \E c \in P.Savers : saver[c] = "upload" /\ saver' = [saver EXCEPT ![c] = "gone"]
  PROVE  StoreInv(P)'
<1> USE DEF StoreInv, Saves
<1>1. \A b \in P.Savers : saver'[b] = saver[b] \/ (saver[b] = "upload" /\ saver'[b] = "gone")
  BY DEF StoreTypes
<1>2. StoreTypes(P)'
  BY DEF StoreTypes
<1>3. OwnInv(P)' /\ FreshInv(P)'
  BY <1>1 DEF OwnInv, FreshInv, Owned, Early
<1>4. PutInv(P)' /\ AckInv(P)'
  BY DEF PutInv, AckInv
<1>5. CountInv(P)'
  <2>1. \A i : Active(P, put', i) = Active(P, put, i) /\ (Abandoned(P, file, put', i) <=> Abandoned(P, file, put, i))
    BY DEF Active, Abandoned
  <2> QED BY <2>1 DEF CountInv
<1>6. Finals(P)' /\ Entries(P)' /\ ReaderInv(P)'
  BY <1>1, PutsMove
<1> QED BY <1>2, <1>3, <1>4, <1>5, <1>6

LEMMA GivesUp ==
  ASSUME NEW P, Store(P)!StoreAssumption, StoreInv(P), NEW x \in P.PutSlots, Store(P)!GiveUp(x)
  PROVE  StoreInv(P)'
<1>1. /\ put' = [put EXCEPT ![x].waits = FALSE]
      /\ UNCHANGED <<saver, up, acked, fin, upload, lru, file, gc, reader, promoted, removed, raced>>
  BY DEF Store!GiveUp, Store!tables, Store!history
<1>2. put \in [P.PutSlots -> Puts(P)]
  BY DEF StoreInv, Saves, StoreTypes
<1>3. /\ put' \in [P.PutSlots -> Puts(P)]
      /\ \A y \in P.PutSlots : /\ put'[y].step = put[y].step /\ put'[y].by = put[y].by
                               /\ put'[y].id = put[y].id /\ put'[y].part = put[y].part
  BY <1>1, <1>2 DEF Puts
<1> QED BY <1>1, <1>3, ClientsLeave

LEMMA Dies ==
  ASSUME NEW P, Store(P)!StoreAssumption, StoreInv(P), NEW c \in P.Savers, Store(P)!Die(c)
  PROVE  StoreInv(P)'
<1>1. /\ put' = [x \in P.PutSlots |-> IF put[x].by = c THEN [put[x] EXCEPT !.waits = FALSE] ELSE put[x]]
      /\ saver[c] = "upload" /\ saver' = [saver EXCEPT ![c] = "gone"]
      /\ UNCHANGED <<up, acked, fin, upload, lru, file, gc, reader, promoted, removed, raced>>
  BY DEF Store!Die, Store!Becomes, Store!tables, Store!history
<1>2. put \in [P.PutSlots -> Puts(P)]
  BY DEF StoreInv, Saves, StoreTypes
<1>3. /\ put' \in [P.PutSlots -> Puts(P)]
      /\ \A y \in P.PutSlots : /\ put'[y].step = put[y].step /\ put'[y].by = put[y].by
                               /\ put'[y].id = put[y].id /\ put'[y].part = put[y].part
  BY <1>1, <1>2 DEF Puts
<1> QED BY <1>1, <1>3, ClientsLeave

-----------------------------------------------------------------------------
(* What rows that go, and folders that go with them, leave as it was. *)

\* Files change only where a folder is removed.
FilesGo(P) ==
  \A j \in Ids(P), p \in Parts(P) : file'[j][p] = file[j][p] \/ (file'[j][p] = "none" /\ j \in removed')

LEMMA SavesStay ==
  ASSUME NEW P, Store(P)!StoreAssumption, Saves(P), StoreTypes(P)', UNCHANGED <<up, acked, put>>,
         \A b \in P.Savers : saver'[b] \in Early <=> saver[b] \in Early,
         \A j \in Ids(P) : upload'[j] \in {upload[j], Store(P)!NoRow},
         FilesGo(P), removed \subseteq removed', \A j \in promoted' : j \in promoted \/ Owned(P, j)
  PROVE  Saves(P)'
<1> USE DEF Saves
<1>1. OwnInv(P)' /\ PutInv(P)'
  BY DEF OwnInv, PutInv
<1>2. \A b \in P.Savers : up[b] # 0 => up[b] \in Ids(P)
  BY DEF StoreTypes
<1>3. FreshInv(P)'
  BY <1>2 DEF FreshInv, Owned, FilesGo
<1>4. CountInv(P)'
  <2>1. ASSUME NEW i \in Ids(P), Abandoned(P, file', put', i) PROVE Abandoned(P, file, put, i)
    BY <2>1 DEF Abandoned, FilesGo
  <2>2. \A i \in Ids(P) : Active(P, put', i) = Active(P, put, i)
    OBVIOUS
  <2> QED BY <2>1, <2>2 DEF CountInv
<1>5. AckInv(P)'
  <2>1. ASSUME NEW x \in P.PutSlots, put[x].step \in {"write", "finish"}, put[x].id \notin removed'
        PROVE  file'[put[x].id][put[x].part] # "none"
    <3>1. put[x].id \in Ids(P) /\ put[x].part \in Parts(P) /\ file[put[x].id][put[x].part] # "none"
      BY <2>1 DEF AckInv, PutInv, StoreTypes, Puts
    <3> QED BY <2>1, <3>1 DEF FilesGo
  <2>2. ASSUME NEW b \in P.Savers, up[b] # 0, upload'[up[b]] # Store(P)!NoRow, up[b] \notin removed', NEW p \in acked[b]
        PROVE  file'[up[b]][p] # "none"
    <3>1. up[b] \in Ids(P) /\ p \in Parts(P) /\ upload[up[b]] # Store(P)!NoRow
      BY <1>2, <2>2 DEF StoreTypes
    <3>2. file[up[b]][p] # "none"
      BY <2>2, <3>1 DEF AckInv
    <3> QED BY <2>2, <3>1, <3>2 DEF FilesGo
  <2> QED BY <2>1, <2>2 DEF AckInv
<1> QED BY <1>1, <1>3, <1>4, <1>5

\* A saver that stands still.
LEMMA FinalsStay ==
  ASSUME NEW P, StoreInv(P), NEW b \in P.Savers, saver'[b] = saver[b], fin'[b] = fin[b], UNCHANGED <<up, put>>,
         raced \subseteq raced', promoted \subseteq promoted',
         up[b] \in promoted' => up[b] \in promoted \cup raced',
         \A j \in removed' : j \in removed \/ j \in promoted, removed \subseteq removed', FilesGo(P)
  PROVE  Finalizes(P, b)' /\ Closed(P, b)'
<1> USE DEF StoreInv, Saves, Finals
<1>1. Finalizes(P, b) /\ Closed(P, b)
  BY DEF FinInv, ClosedInv
<1>2. Finalizes(P, b)'
  BY <1>1 DEF Finalizes, Owned
<1>3. ASSUME up[b] \in Ids(P), up[b] \notin removed', WholeFiles(P, up[b]) PROVE WholeFiles(P, up[b])'
  BY <1>3 DEF WholeFiles, FilesGo
<1>4. ASSUME up[b] \notin raced', saver[b] \in Before, fin[b].id = up[b]
      PROVE  WholeFiles(P, up[b])' /\ up[b] \notin promoted'
  <2>1. WholeFiles(P, up[b]) /\ up[b] \notin promoted /\ up[b] \in Ids(P)
    BY <1>1, <1>4 DEF Closed, Finalizes
  <2>2. up[b] \notin removed' /\ up[b] \notin promoted'
    BY <1>4, <2>1 DEF StoreTypes
  <2> QED BY <1>3, <2>1, <2>2
<1>5. ASSUME up[b] \notin raced', up[b] \in promoted'
      PROVE  saver[b] \in Later /\ fin[b].id = up[b] /\ (up[b] \notin removed' => WholeFiles(P, up[b])')
  <2>1. up[b] \in promoted /\ up[b] \notin raced /\ up[b] \in Ids(P)
    BY <1>5 DEF StoreTypes
  <2>2. saver[b] \in Later /\ fin[b].id = up[b] /\ (up[b] \notin removed => WholeFiles(P, up[b]))
    BY <1>1, <2>1 DEF Closed
  <2> QED BY <1>3, <2>1, <2>2
<1>6. Closed(P, b)'
  <2>1. up[b] \notin raced' => up[b] \notin raced
    OBVIOUS
  <2> QED BY <1>1, <1>4, <1>5, <2>1 DEF Closed
<1> QED BY <1>2, <1>6

\* The folder of an entry whose row is gone.
LEMMA FolderGoes ==
  ASSUME NEW P, StoreInv(P), NEW r \in Ids(P), Store(P)!RemoveFolder(r)
  PROVE  /\ FilesGo(P) /\ removed' = removed \cup {r}
         /\ file' \in [Ids(P) -> [Parts(P) -> {"none", "torn", "whole"}]]
<1>1. file' = [file EXCEPT ![r] = [p \in Parts(P) |-> "none"]] /\ removed' = removed \cup {r}
  BY DEF Store!RemoveFolder, Parts
<1>2. file \in [Ids(P) -> [Parts(P) -> {"none", "torn", "whole"}]]
  BY DEF StoreInv, Saves, StoreTypes
<1> QED BY <1>1, <1>2 DEF FilesGo

-----------------------------------------------------------------------------
(* completeUpload. *)

\* A saver moves on with what it has read; rows of uploads may go, and uploads be raced.
Decides(P, c, s, r) ==
  /\ saver' = [saver EXCEPT ![c] = s] /\ s \notin Early /\ saver[c] \notin Early
  /\ s \in {"upload", "gone", "failed"} \cup Before \cup Later
  /\ fin' = [fin EXCEPT ![c] = r] /\ r \in [id : Ids(P) \cup {0}, finished : Nat, old : Ids(P) \cup {0}]
  /\ upload' \in [Ids(P) -> Rows(P)] /\ \A j \in Ids(P) : upload'[j] \in {upload[j], Store(P)!NoRow}
  /\ raced \subseteq raced' /\ raced' \subseteq Ids(P)
  /\ UNCHANGED <<up, acked, put, lru, file, gc, reader, promoted, removed>>

LEMMA DecisionKeeps ==
  ASSUME NEW P, Store(P)!StoreAssumption, StoreInv(P), NEW c \in P.Savers, NEW s, NEW r, Decides(P, c, s, r),
         Finalizes(P, c)', Closed(P, c)', s # "unlink"
  PROVE  StoreInv(P)'
<1>0. UNCHANGED <<up, acked, put, lru, file, gc, reader, promoted, removed>> /\ raced \subseteq raced'
  BY DEF Decides
<1>1. \A b \in P.Savers : /\ saver'[b] = IF b = c THEN s ELSE saver[b]
                          /\ fin'[b] = IF b = c THEN r ELSE fin[b]
  BY DEF Decides, StoreInv, Saves, StoreTypes
<1>2. StoreTypes(P)'
  BY DEF Decides, StoreInv, Saves, StoreTypes
<1>3. FilesGo(P)
  BY <1>0 DEF FilesGo
<1>4. Saves(P)'
  <2>1. \A b \in P.Savers : saver'[b] \in Early <=> saver[b] \in Early
    BY <1>1 DEF Decides
  <2>2. \A j \in Ids(P) : upload'[j] \in {upload[j], Store(P)!NoRow}
    BY DEF Decides
  <2> QED BY <1>0, <1>2, <1>3, <2>1, <2>2, SavesStay DEF StoreInv
<1>5. Finals(P)'
  <2>1. ASSUME NEW b \in P.Savers, b # c PROVE Finalizes(P, b)' /\ Closed(P, b)'
    BY <1>0, <1>1, <1>3, <2>1, FinalsStay
  <2> QED BY <2>1 DEF Finals, FinInv, ClosedInv
<1>6. Entries(P)' /\ ReaderInv(P)'
  <2>1. \A b \in P.Savers : saver'[b] = "unlink" => saver[b] = "unlink" /\ fin'[b] = fin[b]
    BY <1>1
  <2> QED BY <1>0, <2>1, EntriesStay, ReadersStay DEF StoreInv
<1> QED BY <1>4, <1>5, <1>6 DEF StoreInv

\* A saver that fails has not promoted its upload.
LEMMA FailureKeeps ==
  ASSUME NEW P, Store(P)!StoreAssumption, StoreInv(P), NEW c \in P.Savers, saver[c] \in {"upload"} \cup Before,
         NEW r, Decides(P, c, "failed", r)
  PROVE  StoreInv(P)'
<1>1. saver'[c] = "failed" /\ UNCHANGED <<up, promoted>> /\ raced \subseteq raced'
  BY DEF Decides, StoreInv, Saves, StoreTypes
<1>2. Closed(P, c)
  BY DEF StoreInv, Finals, ClosedInv
<1>3. Finalizes(P, c)' /\ Closed(P, c)'
  BY <1>1, <1>2 DEF Finalizes, Closed, Before, Later
<1> QED BY <1>3, DecisionKeeps

\* The parts of a saver's upload when its counts agree and no PUT of it is at work.
LEMMA AgreedIsWhole ==
  ASSUME NEW P, Store(P)!StoreAssumption, StoreInv(P), NEW c \in P.Savers, saver[c] = "upload", acked[c] = Parts(P),
         up[c] \notin raced, upload[up[c]] # Store(P)!NoRow, \A x \in P.PutSlots : put[x].id # up[c],
         Store(P)!CountsAgree(upload[up[c]])
  PROVE  WholeFiles(P, up[c]) /\ up[c] \notin promoted
<1> USE StoreBasics DEF StoreInv, Saves, Finals
<1>1. up[c] # 0 /\ up[c] \in Ids(P)
  BY DEF OwnInv, Early, StoreTypes
<1>2. up[c] \notin promoted /\ up[c] \notin removed
  BY DEF ClosedInv, Closed, Later, StoreTypes
<1>3. Active(P, put, up[c]) = {}
  BY DEF Active
<1>4. Cardinality(Active(P, put, up[c])) = 0
  BY <1>3, FS_EmptySet
<1>5. upload[up[c]].started = upload[up[c]].finished /\ upload[up[c]].finished \in Nat
  BY <1>1 DEF Store!CountsAgree, StoreTypes, Rows
<1>6. ~Abandoned(P, file, put, up[c])
  <2>1. Abandoned(P, file, put, up[c]) =>
          upload[up[c]].started > upload[up[c]].finished + Cardinality(Active(P, put, up[c]))
    BY <1>1 DEF CountInv
  <2> QED BY <1>4, <1>5, <2>1
<1>7. \A p \in Parts(P) : file[up[c]][p] # "torn"
  BY <1>6 DEF Abandoned
<1>8. \A p \in Parts(P) : file[up[c]][p] # "none"
  BY <1>1, <1>2 DEF AckInv
<1>9. \A p \in Parts(P) : file[up[c]][p] \in {"none", "torn", "whole"}
  BY <1>1 DEF StoreTypes
<1> QED BY <1>2, <1>7, <1>8, <1>9 DEF WholeFiles

LEMMA FinalizeSelects ==
  ASSUME NEW P, Store(P)!StoreAssumption, StoreInv(P), NEW c \in P.Savers, Store(P)!FinalizeSelect(c)
  PROVE  StoreInv(P)'
<1> USE StoreBasics
<1>0. /\ saver[c] = "upload" /\ acked[c] = Parts(P)
      /\ UNCHANGED <<up, acked, put, lru, file, gc, reader, promoted, removed>>
  BY DEF Store!FinalizeSelect, Parts
<1>t. /\ StoreTypes(P) /\ fin = [fin EXCEPT ![c] = fin[c]] /\ saver[c] \notin Early
      /\ fin[c] \in [id : Ids(P) \cup {0}, finished : Nat, old : Ids(P) \cup {0}]
  BY <1>0 DEF StoreInv, Saves, StoreTypes, Early
<1>1. CASE Store(P)!RowsFor(P.KeyOf[c]) = {}
  <2>1. saver' = [saver EXCEPT ![c] = "failed"] /\ UNCHANGED <<fin, upload, raced>>
    BY <1>1 DEF Store!FinalizeSelect, Store!Becomes
  <2>2. Decides(P, c, "failed", fin[c])
    BY <1>0, <1>t, <2>1 DEF Decides, StoreTypes, Early
  <2> QED BY <1>0, <2>2, FailureKeeps
<1>2. CASE Store(P)!RowsFor(P.KeyOf[c]) # {}
  <2>1. PICK i \in Store(P)!RowsFor(P.KeyOf[c]) :
          /\ raced' = IF i # up[c] \/ \E x \in P.PutSlots : put[x].id = i THEN raced \cup {i} ELSE raced
          /\ IF Store(P)!CountsAgree(upload[i])
             THEN /\ fin' = [fin EXCEPT ![c] = [id |-> i, finished |-> upload[i].finished, old |-> 0]]
                  /\ Store(P)!Becomes(c, "count") /\ UNCHANGED upload
             ELSE Store(P)!Becomes(c, "failed") /\ upload' = [upload EXCEPT ![i] = Store(P)!NoRow] /\ UNCHANGED fin
    BY <1>2 DEF Store!FinalizeSelect
  <2>2. i \in Ids(P) /\ upload[i].key = P.KeyOf[c] /\ upload[i] # Store(P)!NoRow
    BY NoRowIsRow DEF Store!RowsFor, Ids
  <2>3. raced \subseteq raced' /\ raced' \subseteq Ids(P)
    BY <1>t, <2>1, <2>2 DEF StoreTypes
  <2>4. CASE ~Store(P)!CountsAgree(upload[i])
    <3>1. /\ saver' = [saver EXCEPT ![c] = "failed"] /\ upload' = [upload EXCEPT ![i] = Store(P)!NoRow]
          /\ UNCHANGED fin
      BY <2>1, <2>4 DEF Store!Becomes
    <3>2. Decides(P, c, "failed", fin[c])
      BY <1>0, <1>t, <2>2, <2>3, <3>1, NoRowIsRow DEF Decides, StoreTypes, Early
    <3> QED BY <1>0, <3>2, FailureKeeps
  <2>5. CASE Store(P)!CountsAgree(upload[i])
    <3> DEFINE r == [id |-> i, finished |-> upload[i].finished, old |-> 0]
    <3>1. fin' = [fin EXCEPT ![c] = r] /\ saver' = [saver EXCEPT ![c] = "count"] /\ UNCHANGED upload
      BY <2>1, <2>5 DEF Store!Becomes
    <3>2. r \in [id : Ids(P) \cup {0}, finished : Nat, old : Ids(P) \cup {0}] /\ r.id = i
      BY <1>t, <2>2 DEF StoreTypes, Rows
    <3> HIDE DEF r
    <3>3. Decides(P, c, "count", r)
      BY <1>0, <1>t, <2>3, <3>1, <3>2 DEF Decides, StoreTypes, Early, Before
    <3>4. saver'[c] = "count" /\ fin'[c].id = i
      BY <1>t, <3>1, <3>2 DEF StoreTypes
    <3>5. Finalizes(P, c)'
      <4>1. Owned(P, i)
        BY <2>2 DEF StoreInv, Saves, FreshInv
      <4>2. \A b \in P.Savers : up[b] = i => P.KeyOf[b] = P.KeyOf[c]
        BY <2>2 DEF StoreInv, Saves, FreshInv
      <4>3. i = up[c] \/ i \in raced'
        BY <2>1
      <4> QED BY <1>0, <2>2, <3>4, <4>1, <4>2, <4>3 DEF Finalizes, Owned, Before, Later
    <3>6. Closed(P, c)'
      <4>1. ASSUME up[c] \notin raced', i = up[c]
            PROVE  (\A x \in P.PutSlots : put[x].id # up[c]) /\ WholeFiles(P, up[c]) /\ up[c] \notin promoted
        <5>1. up[c] \notin raced /\ \A x \in P.PutSlots : put[x].id # up[c]
          BY <2>1, <2>3, <4>1
        <5> QED BY <1>0, <2>2, <2>5, <4>1, <5>1, AgreedIsWhole
      <4>2. ASSUME up[c] \notin raced' PROVE up[c] \notin promoted
        BY <1>0, <2>3, <4>2 DEF StoreInv, Finals, ClosedInv, Closed, Later
      <4> QED BY <1>0, <3>4, <4>1, <4>2 DEF Closed, WholeFiles, Before, Later
    <3> QED BY <3>3, <3>5, <3>6, DecisionKeeps
  <2> QED BY <2>4, <2>5
<1> QED BY <1>1, <1>2

LEMMA FinalizeCounts ==
  ASSUME NEW P, Store(P)!StoreAssumption, StoreInv(P), NEW c \in P.Savers, Store(P)!FinalizeCount(c)
  PROVE  StoreInv(P)'
<1> USE StoreBasics
<1>0. /\ saver[c] = "count" /\ UNCHANGED <<up, acked, fin, put, lru, file, gc, reader, promoted, removed, raced>>
  BY DEF Store!FinalizeCount, Store!history
<1>t. /\ StoreTypes(P) /\ fin = [fin EXCEPT ![c] = fin[c]] /\ saver[c] \notin Early
      /\ fin[c] \in [id : Ids(P) \cup {0}, finished : Nat, old : Ids(P) \cup {0}] /\ fin[c].id \in Ids(P)
      /\ Finalizes(P, c) /\ Closed(P, c)
  BY <1>0 DEF StoreInv, Saves, StoreTypes, Early, Finals, FinInv, Finalizes, ClosedInv, Before
<1>1. CASE Store(P)!PartsPresent(fin[c].id, fin[c].finished)
  <2>1. saver' = [saver EXCEPT ![c] = "query"] /\ UNCHANGED upload
    BY <1>1 DEF Store!FinalizeCount, Store!Becomes
  <2>2. Decides(P, c, "query", fin[c])
    BY <1>0, <1>t, <2>1 DEF Decides, StoreTypes, Early, Before
  <2>3. saver'[c] = "query"
    BY <1>t, <2>1 DEF StoreTypes
  <2>4. Finalizes(P, c)'
    <3>1. 0..fin[c].finished - 1 \subseteq 0..P.PartCount - 1
      BY <1>1 DEF Store!PartsPresent, Parts, Store!Parts
    <3>2. fin[c].finished \in 0..P.PartCount
      <4>1. fin[c].finished \in Nat /\ P.PartCount \in Nat
        BY <1>t
      <4>2. fin[c].finished = 0 \/ fin[c].finished - 1 \in 0..fin[c].finished - 1
        BY <4>1
      <4>3. fin[c].finished = 0 \/ fin[c].finished - 1 \in 0..P.PartCount - 1
        BY <3>1, <4>2
      <4> QED BY <4>1, <4>3
    <3> QED BY <1>0, <1>t, <2>3, <3>2 DEF Finalizes, Owned, Before, Later
  <2>5. ASSUME up[c] \notin raced, fin[c].id = up[c] PROVE fin[c].finished = P.PartCount
    <3>1. \A p \in Parts(P) : file[up[c]][p] # "none"
      BY <1>0, <1>t, <2>5 DEF Closed, WholeFiles, Before
    <3>2. Parts(P) = 0..fin[c].finished - 1
      BY <1>1, <2>5, <3>1 DEF Store!PartsPresent, Parts
    <3>3. fin[c].finished \in Nat /\ P.PartCount \in Nat \ {0} /\ 0..P.PartCount - 1 = 0..fin[c].finished - 1
      BY <1>t, <3>2
    <3>4. \A n, m \in Nat : 0..n - 1 = 0..m - 1 => n = m
      <4> SUFFICES ASSUME NEW n \in Nat, NEW m \in Nat, 0..n - 1 = 0..m - 1, n # m PROVE FALSE
        OBVIOUS
      <4>1. CASE n < m
        <5>1. n \in 0..m - 1 /\ n \notin 0..n - 1
          BY <4>1
        <5> QED BY <5>1
      <4>2. CASE m < n
        <5>1. m \in 0..n - 1 /\ m \notin 0..m - 1
          BY <4>2
        <5> QED BY <5>1
      <4> QED BY <4>1, <4>2
    <3> QED BY <3>3, <3>4
  <2>6. Closed(P, c)'
    BY <1>0, <1>t, <2>3, <2>5 DEF Closed, WholeFiles, Before, Later
  <2> QED BY <2>2, <2>4, <2>6, DecisionKeeps
<1>2. CASE ~Store(P)!PartsPresent(fin[c].id, fin[c].finished)
  <2>1. saver' = [saver EXCEPT ![c] = "failed"] /\ upload' = [upload EXCEPT ![fin[c].id] = Store(P)!NoRow]
    BY <1>2 DEF Store!FinalizeCount, Store!Becomes
  <2>2. Decides(P, c, "failed", fin[c])
    BY <1>0, <1>t, <2>1, NoRowIsRow DEF Decides, StoreTypes, Early
  <2> QED BY <1>0, <2>2, FailureKeeps DEF Before
<1> QED BY <1>1, <1>2

LEMMA FinalizeQueries ==
  ASSUME NEW P, Store(P)!StoreAssumption, StoreInv(P), NEW c \in P.Savers, Store(P)!FinalizeQuery(c)
  PROVE  StoreInv(P)'
<1> USE StoreBasics
<1>0. /\ saver[c] = "query" /\ UNCHANGED <<up, acked, put, upload, lru, file, gc, reader, promoted, removed, raced>>
  BY DEF Store!FinalizeQuery, Store!history, Store!tables
<1>t. /\ StoreTypes(P) /\ fin = [fin EXCEPT ![c] = fin[c]] /\ saver[c] \notin Early
      /\ fin[c] \in [id : Ids(P) \cup {0}, finished : Nat, old : Ids(P) \cup {0}] /\ Finalizes(P, c) /\ Closed(P, c)
  BY <1>0 DEF StoreInv, Saves, StoreTypes, Early, Finals, FinInv, ClosedInv, Before
<1>1. ASSUME saver' = [saver EXCEPT ![c] = "store"], UNCHANGED fin PROVE StoreInv(P)'
  <2>1. Decides(P, c, "store", fin[c]) /\ saver'[c] = "store"
    BY <1>0, <1>1, <1>t DEF Decides, StoreTypes, Early, Before
  <2>2. Finalizes(P, c)' /\ Closed(P, c)'
    BY <1>0, <1>1, <1>t, <2>1 DEF Finalizes, Closed, Owned, WholeFiles, Before, Later
  <2> QED BY <2>1, <2>2, DecisionKeeps
<1>2. ASSUME NEW i \in Store(P)!EntriesFor(P.KeyOf[c]), fin' = [fin EXCEPT ![c].old = lru[i].id],
             saver' = [saver EXCEPT ![c] = "update"]
      PROVE  StoreInv(P)'
  <2> DEFINE r == [fin[c] EXCEPT !.old = lru[i].id]
  <2>1. /\ i \in DOMAIN lru /\ lru[i].key = P.KeyOf[c] /\ lru[i].id \in Ids(P) /\ lru[i].id \in promoted
        /\ \A b \in P.Savers : up[b] = lru[i].id => P.KeyOf[b] = P.KeyOf[c]
    BY <1>t DEF Store!EntriesFor, StoreTypes, StoreInv, Entries, EntryInv
  <2>2. /\ r \in [id : Ids(P) \cup {0}, finished : Nat, old : Ids(P) \cup {0}] /\ r.id = fin[c].id
        /\ r.finished = fin[c].finished /\ r.old = lru[i].id /\ fin' = [fin EXCEPT ![c] = r]
    BY <1>2, <1>t, <2>1 DEF StoreTypes
  <2> HIDE DEF r
  <2>3. Decides(P, c, "update", r) /\ saver'[c] = "update" /\ fin'[c] = r
    BY <1>0, <1>2, <1>t, <2>2 DEF Decides, StoreTypes, Early, Before
  <2>4. Finalizes(P, c)' /\ Closed(P, c)'
    BY <1>0, <1>t, <2>1, <2>2, <2>3 DEF Finalizes, Closed, Owned, WholeFiles, Before, Later
  <2> QED BY <2>3, <2>4, DecisionKeeps
<1> QED BY <1>1, <1>2 DEF Store!FinalizeQuery, Store!Becomes

LEMMA FinalizeDrops ==
  ASSUME NEW P, Store(P)!StoreAssumption, StoreInv(P), NEW c \in P.Savers, Store(P)!FinalizeDrop(c)
  PROVE  StoreInv(P)'
<1>0. /\ saver[c] = "drop" /\ saver' = [saver EXCEPT ![c] = "saved"]
      /\ upload' = [upload EXCEPT ![fin[c].id] = Store(P)!NoRow]
      /\ UNCHANGED <<up, acked, fin, put, lru, file, gc, reader, promoted, removed, raced>>
  BY DEF Store!FinalizeDrop, Store!Becomes, Store!history
<1>t. /\ StoreTypes(P) /\ fin = [fin EXCEPT ![c] = fin[c]] /\ saver[c] \notin Early /\ fin[c].id \in Ids(P)
      /\ fin[c] \in [id : Ids(P) \cup {0}, finished : Nat, old : Ids(P) \cup {0}] /\ Finalizes(P, c) /\ Closed(P, c)
  BY <1>0 DEF StoreInv, Saves, StoreTypes, Early, Finals, FinInv, ClosedInv, Finalizes, Later
<1>1. Decides(P, c, "saved", fin[c]) /\ saver'[c] = "saved"
  BY <1>0, <1>t, NoRowIsRow DEF Decides, StoreTypes, Early, Later
<1>2. Finalizes(P, c)' /\ Closed(P, c)'
  BY <1>0, <1>t, <1>1 DEF Finalizes, Closed, Owned, WholeFiles, Before, Later
<1> QED BY <1>1, <1>2, DecisionKeeps

-----------------------------------------------------------------------------
(* The table of entries: a row that goes, a row that comes. *)

Distinct(s) == \A i, j \in DOMAIN s : i # j => s[i].id # s[j].id

LEMMA RemovalMoves ==
  ASSUME NEW P, NEW S, NEW s \in Seq(S), NEW i \in DOMAIN s
  PROVE  LET t == Store(P)!RemoveAt(s, i) IN
         /\ t \in Seq(S) /\ Len(t) = Len(s) - 1 /\ DOMAIN t = 1..Len(s) - 1
         /\ \A k \in 1..Len(s) - 1 : t[k] = IF k < i THEN s[k] ELSE s[k + 1]
<1> DEFINE a == SubSeq(s, 1, i - 1) b == SubSeq(s, i + 1, Len(s)) t == Store(P)!RemoveAt(s, i)
<1>1. i \in 1..Len(s) /\ Len(s) \in Nat
  OBVIOUS
<1>2. a \in Seq(S) /\ Len(a) = i - 1 /\ \A k \in 1..i - 1 : a[k] = s[k]
  BY <1>1
<1>3. b \in Seq(S) /\ Len(b) = Len(s) - i /\ \A k \in 1..Len(s) - i : b[k] = s[i + k]
  BY <1>1
<1>4. t = a \o b
  BY DEF Store!RemoveAt
<1> HIDE DEF a, b, t
<1>5. t \in Seq(S) /\ Len(t) = Len(s) - 1 /\ DOMAIN t = 1..Len(s) - 1
  BY <1>1, <1>2, <1>3, <1>4
<1>6. \A k \in 1..Len(s) - 1 : t[k] = IF k < i THEN s[k] ELSE s[k + 1]
  <2> SUFFICES ASSUME NEW k \in 1..Len(s) - 1 PROVE t[k] = IF k < i THEN s[k] ELSE s[k + 1]
    OBVIOUS
  <2>1. CASE k < i
    <3>1. t[k] = a[k] /\ k \in 1..i - 1
      BY <1>1, <1>2, <1>3, <1>4, <2>1
    <3> QED BY <1>2, <2>1, <3>1
  <2>2. CASE ~(k < i)
    <3>1. t[k] = b[k - Len(a)] /\ k - Len(a) \in 1..Len(s) - i
      BY <1>1, <1>2, <1>3, <1>4, <2>2
    <3>2. k - Len(a) = k + 1 - i /\ i + (k + 1 - i) = k + 1
      BY <1>1, <1>2
    <3> QED BY <1>3, <2>2, <3>1, <3>2
  <2> QED BY <2>1, <2>2
<1> QED BY <1>5, <1>6 DEF t

LEMMA RowRemoved ==
  ASSUME NEW P, NEW S, NEW s \in Seq(S), NEW i \in DOMAIN s
  PROVE  /\ Store(P)!RemoveAt(s, i) \in Seq(S)
         /\ \A k \in DOMAIN Store(P)!RemoveAt(s, i) : \E m \in DOMAIN s \ {i} : Store(P)!RemoveAt(s, i)[k] = s[m]
         /\ Distinct(s) => /\ Distinct(Store(P)!RemoveAt(s, i))
                           /\ \A k \in DOMAIN Store(P)!RemoveAt(s, i) : Store(P)!RemoveAt(s, i)[k].id # s[i].id
<1> DEFINE t == Store(P)!RemoveAt(s, i)
<1>1. i \in 1..Len(s) /\ Len(s) \in Nat
  OBVIOUS
<1>5. t \in Seq(S) /\ Len(t) = Len(s) - 1 /\ DOMAIN t = 1..Len(s) - 1
  BY RemovalMoves
<1>6. \A k \in 1..Len(s) - 1 : t[k] = IF k < i THEN s[k] ELSE s[k + 1]
  BY RemovalMoves
<1> HIDE DEF t
<1> DEFINE m(k) == IF k < i THEN k ELSE k + 1
<1>7. \A k \in 1..Len(s) - 1 : m(k) \in DOMAIN s \ {i} /\ t[k] = s[m(k)]
  BY <1>1, <1>6
<1>8. \A k, l \in 1..Len(s) - 1 : k # l => m(k) # m(l)
  BY <1>1
<1> HIDE DEF m
<1>9. Distinct(s) => Distinct(t) /\ \A k \in DOMAIN t : t[k].id # s[i].id
  <2> SUFFICES ASSUME Distinct(s) PROVE Distinct(t) /\ \A k \in DOMAIN t : t[k].id # s[i].id
    OBVIOUS
  <2>1. \A k \in DOMAIN t : t[k].id # s[i].id
    BY <1>5, <1>7 DEF Distinct
  <2>2. \A k, l \in DOMAIN t : k # l => t[k].id # t[l].id
    <3> TAKE k, l \in DOMAIN t
    <3>1. k # l => m(k) # m(l) /\ m(k) \in DOMAIN s /\ m(l) \in DOMAIN s
      BY <1>5, <1>7, <1>8
    <3>2. t[k] = s[m(k)] /\ t[l] = s[m(l)]
      BY <1>5, <1>7
    <3> QED BY <3>1, <3>2 DEF Distinct
  <2> QED BY <2>1, <2>2 DEF Distinct
<1> QED BY <1>5, <1>7, <1>9 DEF t

LEMMA RowAdded ==
  ASSUME NEW S, NEW s \in Seq(S), NEW e \in S
  PROVE  /\ Append(s, e) \in Seq(S)
         /\ \A k \in DOMAIN Append(s, e) : Append(s, e)[k] = e \/ (k \in DOMAIN s /\ Append(s, e)[k] = s[k])
         /\ Distinct(s) /\ (\A k \in DOMAIN s : s[k].id # e.id) => Distinct(Append(s, e))
<1> DEFINE t == Append(s, e)
<1>1. t \in Seq(S) /\ DOMAIN t = 1..Len(s) + 1 /\ DOMAIN s = 1..Len(s) /\ Len(s) \in Nat
  OBVIOUS
<1>2. t[Len(s) + 1] = e /\ \A k \in 1..Len(s) : t[k] = s[k]
  OBVIOUS
<1> HIDE DEF t
<1>3. Distinct(s) /\ (\A k \in DOMAIN s : s[k].id # e.id) => Distinct(t)
  <2> SUFFICES ASSUME Distinct(s), \A k \in DOMAIN s : s[k].id # e.id,
                      NEW i \in DOMAIN t, NEW j \in DOMAIN t, i # j
               PROVE  t[i].id # t[j].id
    BY DEF Distinct
  <2>1. i \in DOMAIN s \/ i = Len(s) + 1
    BY <1>1
  <2>2. j \in DOMAIN s \/ j = Len(s) + 1
    BY <1>1
  <2> QED BY <1>1, <1>2, <2>1, <2>2 DEF Distinct
<1>4. \A k \in DOMAIN t : t[k] = e \/ (k \in DOMAIN s /\ t[k] = s[k])
  <2> TAKE k \in DOMAIN t
  <2>1. k \in DOMAIN s \/ k = Len(s) + 1
    BY <1>1
  <2> QED BY <1>1, <1>2, <2>1
<1> QED BY <1>1, <1>3, <1>4 DEF t

Entry(P) == [id : Ids(P), key : Keys(P), parts : 0..P.PartCount]

\* An id that has been an entry is some saver's, and its row has that saver's key.
LEMMA RowHasKey ==
  ASSUME NEW P, StoreInv(P), NEW c \in P.Savers, saver[c] \in {"update", "unlink"},
         NEW k \in DOMAIN lru, lru[k].id = fin[c].old
  PROVE  lru[k].key = P.KeyOf[c]
<1>1. fin[c].old \in promoted /\ fin[c].old \in Ids(P) /\ \A b \in P.Savers : up[b] = fin[c].old => P.KeyOf[b] = P.KeyOf[c]
  BY DEF StoreInv, Saves, StoreTypes, Finals, FinInv, Finalizes
<1>2. PICK b \in P.Savers : up[b] = fin[c].old
  BY <1>1 DEF StoreInv, Saves, FreshInv, Owned
<1> QED BY <1>1, <1>2 DEF StoreInv, Entries, EntryInv

\* The UPDATE or the INSERT of completeUpload: rows are of before, or the one of this upload.
Promotes(P, c, s) ==
  /\ saver[c] \in {"update", "store"} /\ s \in {"unlink", "drop"} /\ (s = "unlink" => saver[c] = "update")
  /\ saver' = [saver EXCEPT ![c] = s]
  /\ promoted \subseteq promoted' /\ promoted' \subseteq promoted \cup {fin[c].id}
  /\ UNCHANGED <<up, acked, fin, put, upload, file, gc, reader, removed, raced>>
  /\ lru' \in Seq(Entry(P)) /\ Distinct(lru')
  /\ \A k \in DOMAIN lru' :
       (lru'[k] = Store(P)!NewEntry(c) /\ fin[c].id \in promoted') \/ \E m \in DOMAIN lru : lru'[k] = lru[m]
  /\ s = "unlink" /\ fin[c].old # fin[c].id => \A k \in DOMAIN lru' : lru'[k].id # fin[c].old

LEMMA PromotionKeeps ==
  ASSUME NEW P, Store(P)!StoreAssumption, StoreInv(P), NEW c \in P.Savers, NEW s, Promotes(P, c, s)
  PROVE  StoreInv(P)'
<1>0. /\ UNCHANGED <<up, acked, fin, put, upload, file, gc, reader, removed, raced>>
      /\ promoted \subseteq promoted' /\ promoted' \subseteq promoted \cup {fin[c].id}
      /\ saver[c] \in Before /\ s \in Later /\ saver[c] \notin Early /\ s \notin Early /\ saver[c] # "count"
  BY DEF Promotes, Before, Later, Early
<1>1. \A b \in P.Savers : saver'[b] = IF b = c THEN s ELSE saver[b]
  BY DEF Promotes, StoreInv, Saves, StoreTypes
<1>2. Finalizes(P, c) /\ Closed(P, c)
  BY DEF StoreInv, Finals, FinInv, ClosedInv
<1>3. fin[c].id \in Ids(P) /\ Owned(P, fin[c].id) /\ (fin[c].id = up[c] \/ fin[c].id \in raced)
  BY <1>0, <1>2 DEF Finalizes
<1>4. StoreTypes(P)'
  <2>1. StoreTypes(P) /\ promoted' \subseteq Ids(P) /\ removed' \subseteq promoted'
    BY <1>0, <1>3 DEF StoreInv, Saves, StoreTypes
  <2>2. saver' \in [P.Savers -> Early \cup {"upload", "gone", "failed"} \cup Before \cup Later]
    BY <1>0, <2>1 DEF Promotes, StoreTypes
  <2>3. lru' \in Seq([id : Ids(P), key : Keys(P), parts : 0..P.PartCount])
    BY DEF Promotes, Entry
  <2> QED BY <1>0, <2>1, <2>2, <2>3 DEF StoreTypes
<1>5. FilesGo(P)
  BY <1>0 DEF FilesGo
<1>6. Saves(P)'
  <2>1. \A b \in P.Savers : saver'[b] \in Early <=> saver[b] \in Early
    BY <1>0, <1>1
  <2>2. \A j \in Ids(P) : upload'[j] \in {upload[j], Store(P)!NoRow}
    BY <1>0
  <2>3. \A j \in promoted' : j \in promoted \/ Owned(P, j)
    BY <1>0, <1>3
  <2> QED BY <1>0, <1>4, <1>5, <2>1, <2>2, <2>3, SavesStay DEF StoreInv
<1>7. Finals(P)'
  <2>1. ASSUME NEW b \in P.Savers, b # c PROVE Finalizes(P, b)' /\ Closed(P, b)'
    <3>1. up[b] \in promoted' => up[b] \in promoted \cup raced'
      <4>1. up[b] = fin[c].id => up[b] # up[c]
        BY <1>3, <2>1, StoreBasics DEF StoreInv, Saves, OwnInv
      <4> QED BY <1>0, <1>3, <4>1
    <3> QED BY <1>0, <1>1, <1>5, <2>1, <3>1, FinalsStay
  <2>2. Finalizes(P, c)'
    <3>1. s = "unlink" => saver[c] = "update"
      BY DEF Promotes
    <3>2. s # "update"
      BY DEF Promotes
    <3> QED BY <1>0, <1>1, <1>2, <3>1, <3>2 DEF Finalizes, Owned
  <2>3. Closed(P, c)'
    <3>1. s \notin Before
      BY <1>0 DEF Before, Later
    <3>2. ASSUME up[c] \notin raced
          PROVE  /\ fin[c].id = up[c] => \A x \in P.PutSlots : put[x].id # up[c]
                 /\ up[c] \in promoted' => fin[c].id = up[c] /\ WholeFiles(P, up[c])
      <4>1. up[c] \notin promoted
        BY <1>0, <1>2, <3>2 DEF Closed, Before, Later
      <4> QED BY <1>0, <1>2, <3>2, <4>1 DEF Closed
    <3> QED BY <1>0, <1>1, <3>1, <3>2 DEF Closed, WholeFiles
  <2> QED BY <2>1, <2>2, <2>3 DEF Finals, FinInv, ClosedInv
<1>8. ASSUME fin[c].id \notin raced
      PROVE  fin[c].id = up[c] /\ fin[c].id \notin promoted /\ fin[c].id \notin removed /\ fin[c].finished = P.PartCount
  BY <1>0, <1>2, <1>3, <1>8 DEF Closed, StoreInv, Saves, StoreTypes
<1> DEFINE e == Store(P)!NewEntry(c)
<1>9. e.id = fin[c].id /\ e.key = P.KeyOf[c] /\ e.parts = fin[c].finished
  BY DEF Store!NewEntry
<1>10. \A k \in DOMAIN lru' : (lru'[k] = e /\ fin[c].id \in promoted') \/ \E m \in DOMAIN lru : lru'[k] = lru[m]
  BY DEF Promotes
<1> HIDE DEF e
<1>11. EntryInv(P)'
  <2>1. \A b \in P.Savers : up[b] = fin[c].id => P.KeyOf[c] = P.KeyOf[b]
    BY <1>0, <1>2 DEF Finalizes
  <2>2. ASSUME NEW k \in DOMAIN lru'
        PROVE  /\ lru'[k].id \in promoted'
               /\ lru'[k].id \notin raced => lru'[k].id \notin removed /\ lru'[k].parts = P.PartCount
               /\ \A b \in P.Savers : up[b] = lru'[k].id => lru'[k].key = P.KeyOf[b]
    <3>1. CASE lru'[k] = e /\ fin[c].id \in promoted'
      BY <1>8, <1>9, <2>1, <3>1
    <3>2. ASSUME NEW m \in DOMAIN lru, lru'[k] = lru[m]
          PROVE  /\ lru'[k].id \in promoted'
                 /\ lru'[k].id \notin raced => lru'[k].id \notin removed /\ lru'[k].parts = P.PartCount
                 /\ \A b \in P.Savers : up[b] = lru'[k].id => lru'[k].key = P.KeyOf[b]
      BY <1>0, <3>2 DEF StoreInv, Entries, EntryInv
    <3> QED BY <1>10, <3>1, <3>2
  <2>3. Distinct(lru')
    BY DEF Promotes
  <2> QED BY <1>0, <2>2, <2>3 DEF EntryInv, Distinct
<1>12. ASSUME NEW i \in promoted, i \notin raced, i \notin EntryIds PROVE i \notin EntryIds'
  BY <1>8, <1>9, <1>10, <1>12 DEF EntryIds
<1>13. GoneInv(P)'
  <2>1. ASSUME NEW b \in P.Savers, saver'[b] = "unlink", fin[b].old \notin raced, fin[b].old # fin[b].id
        PROVE  fin[b].old \notin EntryIds'
    <3>1. CASE b = c
      BY <1>1, <2>1, <3>1 DEF Promotes, EntryIds
    <3>2. CASE b # c
      <4>1. saver[b] = "unlink"
        BY <1>1, <2>1, <3>2
      <4>2. fin[b].old \notin EntryIds /\ fin[b].old \in promoted
        BY <2>1, <4>1 DEF StoreInv, Entries, GoneInv, Finals, FinInv, Finalizes
      <4> QED BY <1>12, <2>1, <4>2
    <3> QED BY <3>1, <3>2
  <2>2. gc.step = "folder" /\ gc.id \notin raced => gc.id \notin EntryIds'
    BY <1>12 DEF StoreInv, Entries, GoneInv, GcInv
  <2> QED BY <1>0, <2>1, <2>2 DEF GoneInv
<1>14. GcInv'
  BY <1>0 DEF StoreInv, Entries, GcInv
<1>15. ReaderInv(P)'
  BY <1>0, ReadersStay DEF StoreInv
<1> QED BY <1>6, <1>7, <1>11, <1>13, <1>14, <1>15 DEF StoreInv, Entries

LEMMA FinalizeUpdates ==
  ASSUME NEW P, Store(P)!StoreAssumption, StoreInv(P), NEW c \in P.Savers, Store(P)!FinalizeUpdate(c)
  PROVE  StoreInv(P)'
<1> DEFINE rows == Store(P)!EntriesFor(P.KeyOf[c]) e == Store(P)!NewEntry(c)
<1>0. /\ saver[c] = "update"
      /\ UNCHANGED <<up, acked, fin, put, upload, file, gc, reader, removed, raced>>
      /\ \/ rows = {} /\ Store(P)!Becomes(c, "unlink") /\ UNCHANGED <<lru, promoted>>
         \/ rows # {} /\ Store(P)!Becomes(c, "failed") /\ UNCHANGED <<lru, promoted>>
         \/ /\ ~Store(P)!Clash(c, rows) /\ \E i \in rows : lru' = Store(P)!Repoint(c, i)
            /\ promoted' = promoted \cup {fin[c].id} /\ Store(P)!Becomes(c, "unlink")
  BY DEF Store!FinalizeUpdate
<1>t. /\ StoreTypes(P) /\ fin = [fin EXCEPT ![c] = fin[c]] /\ lru \in Seq(Entry(P))
      /\ fin[c] \in [id : Ids(P) \cup {0}, finished : Nat, old : Ids(P) \cup {0}]
      /\ Finalizes(P, c) /\ fin[c].id \in Ids(P) /\ fin[c].finished \in 0..P.PartCount /\ Distinct(lru)
  BY <1>0 DEF StoreInv, Saves, StoreTypes, Entry, Finals, FinInv, Finalizes, Before, Entries, EntryInv, Distinct
<1>r. \A k : k \in rows <=> k \in DOMAIN lru /\ lru[k].key = P.KeyOf[c]
  BY DEF Store!EntriesFor
<1>e. e \in Entry(P) /\ e.id = fin[c].id
  BY <1>t DEF Store!NewEntry, Entry, Keys
<1>o. \A k \in DOMAIN lru : lru[k].id = fin[c].old => k \in rows
  BY <1>0, <1>r, RowHasKey
<1>c. ~Store(P)!Clash(c, rows) => /\ \A i, k \in rows : i = k
                                  /\ fin[c].id \in Store(P)!EntryIds => \E i \in rows : lru[i].id = fin[c].id
  BY DEF Store!Clash
<1> HIDE DEF rows, e
<1>1. ASSUME rows = {}, Store(P)!Becomes(c, "unlink"), UNCHANGED <<lru, promoted>> PROVE StoreInv(P)'
  <2>1. Promotes(P, c, "unlink")
    BY <1>0, <1>1, <1>t, <1>o DEF Promotes, Store!Becomes
  <2> QED BY <2>1, PromotionKeeps
<1>2. ASSUME Store(P)!Becomes(c, "failed"), UNCHANGED <<lru, promoted>> PROVE StoreInv(P)'
  <2>1. Decides(P, c, "failed", fin[c])
    BY <1>0, <1>2, <1>t DEF Decides, StoreTypes, Early, Store!Becomes
  <2> QED BY <1>0, <2>1, FailureKeeps DEF Before
<1>3. ASSUME NEW i \in rows, ~Store(P)!Clash(c, rows), lru' = Store(P)!Repoint(c, i),
             promoted' = promoted \cup {fin[c].id}, Store(P)!Becomes(c, "unlink")
      PROVE  StoreInv(P)'
  <2> DEFINE t == Store(P)!RemoveAt(lru, i)
  <2>1. i \in DOMAIN lru /\ lru' = Append(t, e)
    BY <1>3, <1>r DEF Store!Repoint, e
  <2>2. /\ t \in Seq(Entry(P)) /\ Distinct(t) /\ (\A k \in DOMAIN t : t[k].id # lru[i].id)
        /\ \A k \in DOMAIN t : \E m \in DOMAIN lru \ {i} : t[k] = lru[m]
    BY <1>t, <2>1, RowRemoved
  <2> HIDE DEF t
  <2>3. \A k \in DOMAIN t : t[k].id # fin[c].id
    <3> SUFFICES ASSUME NEW k \in DOMAIN t, t[k].id = fin[c].id PROVE FALSE
      OBVIOUS
    <3>1. fin[c].id \in Store(P)!EntryIds
      BY <2>2 DEF Store!EntryIds
    <3> QED BY <1>3, <1>c, <2>2, <3>1
  <2>4. /\ lru' \in Seq(Entry(P)) /\ Distinct(lru')
        /\ \A k \in DOMAIN lru' : lru'[k] = e \/ (k \in DOMAIN t /\ lru'[k] = t[k])
    BY <1>e, <2>1, <2>2, <2>3, RowAdded
  <2>5. \A k \in DOMAIN t : t[k].id # fin[c].old
    BY <1>3, <1>c, <1>o, <2>2
  <2>6. \A k \in DOMAIN lru' : lru'[k] = e \/ \E m \in DOMAIN lru : lru'[k] = lru[m]
    BY <2>2, <2>4
  <2>7. fin[c].old # fin[c].id => \A k \in DOMAIN lru' : lru'[k].id # fin[c].old
    BY <1>e, <2>4, <2>5
  <2>8. Promotes(P, c, "unlink")
    BY <1>0, <1>3, <2>4, <2>6, <2>7 DEF Promotes, Store!Becomes, e
  <2> QED BY <2>8, PromotionKeeps
<1> QED BY <1>0, <1>1, <1>2, <1>3

LEMMA FinalizeInserts ==
  ASSUME NEW P, Store(P)!StoreAssumption, StoreInv(P), NEW c \in P.Savers, Store(P)!FinalizeInsert(c)
  PROVE  StoreInv(P)'
<1> DEFINE e == Store(P)!NewEntry(c)
<1>0. /\ saver[c] = "store" /\ UNCHANGED <<up, acked, fin, put, upload, file, gc, reader, removed, raced>>
  BY DEF Store!FinalizeInsert
<1>t. /\ StoreTypes(P) /\ fin = [fin EXCEPT ![c] = fin[c]] /\ lru \in Seq(Entry(P))
      /\ fin[c] \in [id : Ids(P) \cup {0}, finished : Nat, old : Ids(P) \cup {0}]
      /\ fin[c].id \in Ids(P) /\ fin[c].finished \in 0..P.PartCount /\ Distinct(lru)
  BY <1>0 DEF StoreInv, Saves, StoreTypes, Entry, Finals, FinInv, Finalizes, Before, Entries, EntryInv, Distinct
<1>e. e \in Entry(P) /\ e.id = fin[c].id
  BY <1>t DEF Store!NewEntry, Entry, Keys
<1>1. CASE fin[c].id \in Store(P)!EntryIds
  <2>1. Decides(P, c, "failed", fin[c])
    BY <1>0, <1>1, <1>t DEF Store!FinalizeInsert, Decides, StoreTypes, Early, Store!Becomes
  <2> QED BY <1>0, <2>1, FailureKeeps DEF Before
<1>2. CASE fin[c].id \notin Store(P)!EntryIds
  <2>1. /\ lru' = Append(lru, e) /\ promoted' = promoted \cup {fin[c].id} /\ saver' = [saver EXCEPT ![c] = "drop"]
        /\ \A k \in DOMAIN lru : lru[k].id # fin[c].id
    BY <1>2 DEF Store!FinalizeInsert, Store!Becomes, Store!EntryIds
  <2> HIDE DEF e
  <2>2. /\ lru' \in Seq(Entry(P)) /\ Distinct(lru')
        /\ \A k \in DOMAIN lru' : lru'[k] = e \/ (k \in DOMAIN lru /\ lru'[k] = lru[k])
    BY <1>e, <1>t, <2>1, RowAdded
  <2>3. Promotes(P, c, "drop")
    BY <1>0, <2>1, <2>2 DEF Promotes, e
  <2> QED BY <2>3, PromotionKeeps
<1> QED BY <1>1, <1>2

\* An entry's folder is removed after its row.
LEMMA RemovedIsNoEntry ==
  ASSUME NEW P, StoreInv(P), NEW r \in promoted, r \notin raced => r \notin EntryIds,
         removed' = removed \cup {r}, UNCHANGED <<up, lru, promoted, raced>>
  PROVE  EntryInv(P)'
BY DEF StoreInv, Entries, EntryInv, EntryIds

LEMMA FinalizeUnlinks ==
  ASSUME NEW P, Store(P)!StoreAssumption, StoreInv(P), NEW c \in P.Savers, Store(P)!FinalizeUnlink(c)
  PROVE  StoreInv(P)'
<1>0. /\ saver[c] = "unlink" /\ saver' = [saver EXCEPT ![c] = "drop"]
      /\ UNCHANGED <<up, acked, fin, put, upload, lru, gc, reader, promoted, raced>>
  BY DEF Store!FinalizeUnlink, Store!Becomes
<1>1. StoreTypes(P) /\ Finalizes(P, c) /\ Closed(P, c) /\ \A b \in P.Savers : saver'[b] = IF b = c THEN "drop" ELSE saver[b]
  BY <1>0 DEF StoreInv, Saves, StoreTypes, Finals, FinInv, ClosedInv
<1>2. fin[c].old \in promoted /\ fin[c].old \in Ids(P)
  BY <1>0, <1>1 DEF Finalizes, StoreTypes
<1>3. /\ FilesGo(P) /\ file' \in [Ids(P) -> [Parts(P) -> {"none", "torn", "whole"}]] /\ EntryInv(P)'
      /\ removed' \in {removed, removed \cup {fin[c].old}}
  <2>1. CASE fin[c].old # fin[c].id
    <3>1. Store(P)!RemoveFolder(fin[c].old)
      BY <2>1 DEF Store!FinalizeUnlink
    <3>2. fin[c].old \notin raced => fin[c].old \notin EntryIds
      BY <1>0, <2>1 DEF StoreInv, Entries, GoneInv
    <3>3. /\ FilesGo(P) /\ file' \in [Ids(P) -> [Parts(P) -> {"none", "torn", "whole"}]]
          /\ removed' = removed \cup {fin[c].old}
      BY <1>2, <3>1, FolderGoes
    <3> QED BY <1>0, <1>2, <3>2, <3>3, RemovedIsNoEntry
  <2>2. CASE fin[c].old = fin[c].id
    <3>1. UNCHANGED <<file, removed>>
      BY <2>2 DEF Store!FinalizeUnlink
    <3> QED BY <1>0, <1>1, <3>1 DEF FilesGo, StoreTypes, StoreInv, Entries, EntryInv
  <2> QED BY <2>1, <2>2
<1>4. StoreTypes(P)' /\ removed \subseteq removed' /\ \A j \in removed' : j \in removed \/ j \in promoted
  <2>1. saver' \in [P.Savers -> Early \cup {"upload", "gone", "failed"} \cup Before \cup Later]
    BY <1>0, <1>1 DEF StoreTypes, Later
  <2>2. removed' \subseteq promoted'
    BY <1>0, <1>1, <1>2, <1>3 DEF StoreTypes
  <2> QED BY <1>0, <1>1, <1>2, <1>3, <2>1, <2>2 DEF StoreTypes
<1>5. Saves(P)'
  <2>1. \A b \in P.Savers : saver'[b] \in Early <=> saver[b] \in Early
    BY <1>0, <1>1 DEF Early
  <2> QED BY <1>0, <1>3, <1>4, <2>1, SavesStay DEF StoreInv
<1>6. Finals(P)'
  <2>1. ASSUME NEW b \in P.Savers, b # c PROVE Finalizes(P, b)' /\ Closed(P, b)'
    BY <1>0, <1>1, <1>3, <1>4, <2>1, FinalsStay
  <2>2. Finalizes(P, c)'
    BY <1>0, <1>1 DEF Finalizes, Owned, Before, Later
  <2>3. ASSUME up[c] \in Ids(P), up[c] \notin removed', WholeFiles(P, up[c]) PROVE WholeFiles(P, up[c])'
    BY <1>0, <1>3, <2>3 DEF WholeFiles, FilesGo
  <2>4. up[c] \in promoted => up[c] \in Ids(P)
    BY <1>1 DEF StoreTypes
  <2>5. Closed(P, c)'
    BY <1>0, <1>1, <1>4, <2>3, <2>4 DEF Closed, Before, Later
  <2> QED BY <2>1, <2>2, <2>5 DEF Finals, FinInv, ClosedInv
<1>7. GoneInv(P)' /\ GcInv'
  BY <1>0, <1>1 DEF StoreInv, Entries, GoneInv, GcInv, EntryIds
<1>8. ReaderInv(P)'
  BY <1>0, <1>4, ReadersStay DEF StoreInv
<1> QED BY <1>3, <1>5, <1>6, <1>7, <1>8 DEF StoreInv, Entries

-----------------------------------------------------------------------------
(* evict, deleteEntry and the downloads: no step of theirs is a saver's. *)

SaversRest == UNCHANGED <<saver, up, acked, fin, put, upload, promoted, raced>>
\* Rows may go or change places.
RowsGo(P) == lru' \in Seq(Entry(P)) /\ Distinct(lru') /\ \A k \in DOMAIN lru' : \E m \in DOMAIN lru : lru'[k] = lru[m]

LEMMA RowsStay ==
  ASSUME NEW P, StoreInv(P), UNCHANGED lru
  PROVE  RowsGo(P)
BY DEF RowsGo, Entry, Distinct, StoreInv, Saves, StoreTypes, Entries, EntryInv

LEMMA SaversStay ==
  ASSUME NEW P, Store(P)!StoreAssumption, StoreInv(P), SaversRest, UNCHANGED <<file, removed>>, RowsGo(P)
  PROVE  /\ Saves(P)' /\ Finals(P)' /\ EntryInv(P)'
         /\ \A i : i \notin EntryIds => i \notin EntryIds'
<1>1. StoreTypes(P)'
  BY DEF SaversRest, RowsGo, Entry, StoreInv, Saves, StoreTypes
<1>2. FilesGo(P)
  BY DEF FilesGo
<1>3. Saves(P)'
  BY <1>1, <1>2, SavesStay DEF SaversRest, StoreInv
<1>4. Finals(P)'
  <2>1. ASSUME NEW b \in P.Savers PROVE Finalizes(P, b)' /\ Closed(P, b)'
    BY <1>2, FinalsStay DEF SaversRest
  <2> QED BY <2>1 DEF Finals, FinInv, ClosedInv
<1>5. EntryInv(P)'
  BY DEF SaversRest, RowsGo, Distinct, StoreInv, Entries, EntryInv
<1>6. \A i : i \notin EntryIds => i \notin EntryIds'
  BY DEF RowsGo, EntryIds
<1> QED BY <1>3, <1>4, <1>5, <1>6

\* The collector moves on without a row of its entry.
LEMMA CollectorKeeps ==
  ASSUME NEW P, Store(P)!StoreAssumption, StoreInv(P), SaversRest, UNCHANGED <<file, removed, reader>>, RowsGo(P), GcInv',
         gc'.step = "folder" /\ gc'.id \notin raced => gc'.id \notin EntryIds'
  PROVE  StoreInv(P)'
<1>1. Saves(P)' /\ Finals(P)' /\ EntryInv(P)' /\ \A i : i \notin EntryIds => i \notin EntryIds'
  BY SaversStay
<1>2. GoneInv(P)'
  BY <1>1 DEF SaversRest, StoreInv, Entries, GoneInv
<1>3. ReaderInv(P)'
  BY ReadersStay DEF StoreInv, SaversRest
<1> QED BY <1>1, <1>2, <1>3 DEF StoreInv, Entries

\* The ids of rows, listed.
LEMMA ListedWereEntries ==
  ASSUME NEW P, StoreInv(P), NEW n \in 0..Len(lru)
  PROVE  [i \in 1..n |-> lru[i].id] \in Seq(promoted)
<1>1. lru \in Seq([id : Ids(P), key : Keys(P), parts : 0..P.PartCount]) /\ n \in Nat
  BY DEF StoreInv, Saves, StoreTypes
<1>2. \A i \in 1..n : i \in DOMAIN lru
  BY <1>1
<1>3. \A i \in 1..n : lru[i].id \in promoted
  BY <1>2 DEF StoreInv, Entries, EntryInv
<1>4. [i \in 1..n |-> lru[i].id] \in [1..n -> promoted]
  BY <1>3
<1> QED BY <1>1, <1>4

LEMMA GcKeeps ==
  ASSUME NEW P, Store(P)!StoreAssumption, StoreInv(P), Store(P)!GcAge \/ Store(P)!GcNext \/ Store(P)!GcSizes
  PROVE  StoreInv(P)'
<1>1. SaversRest /\ UNCHANGED <<file, removed, reader, lru>>
  BY DEF SaversRest, Store!GcAge, Store!GcNext, Store!GcSizes, Store!tables, Store!history
<1>2. RowsGo(P)
  BY <1>1, RowsStay
<1>g. DOMAIN gc = {"step", "ids", "id", "size", "total"} /\ gc.ids \in Seq(promoted) /\ UNCHANGED promoted
  BY <1>1 DEF StoreInv, Entries, GcInv, SaversRest
<1>3. CASE Store(P)!GcAge
  <2>1. PICK n \in 0..Len(lru) : gc' = [Store(P)!GcIdle EXCEPT !.step = "scan", !.ids = [i \in 1..n |-> lru[i].id]]
    BY <1>3 DEF Store!GcAge
  <2>2. [i \in 1..n |-> lru[i].id] \in Seq(promoted)
    BY ListedWereEntries
  <2> DEFINE ids == [i \in 1..n |-> lru[i].id]
  <2> HIDE DEF ids
  <2>3. gc'.ids = ids /\ gc'.step = "scan" /\ DOMAIN gc' = {"step", "ids", "id", "size", "total"}
    BY <2>1 DEF Store!GcIdle, ids
  <2>4. GcInv'
    BY <1>g, <2>2, <2>3 DEF GcInv, ids
  <2> QED BY <1>1, <1>2, <2>3, <2>4, CollectorKeeps
<1>4. CASE Store(P)!GcNext
  <2>1. CASE gc.ids # <<>> /\ gc' = [gc EXCEPT !.step = Store(P)!After(@), !.id = Head(gc.ids), !.ids = Tail(@)]
    <3>1. Store(P)!After(gc.step) = "row"
      BY <1>4 DEF Store!GcNext, Store!After
    <3>2. Head(gc.ids) \in promoted /\ Tail(gc.ids) \in Seq(promoted)
      BY <1>g, <2>1
    <3>3. /\ gc'.step = "row" /\ gc'.id = Head(gc.ids) /\ gc'.ids = Tail(gc.ids)
          /\ DOMAIN gc' = {"step", "ids", "id", "size", "total"}
      BY <1>g, <2>1, <3>1
    <3>4. GcInv'
      BY <1>g, <3>2, <3>3 DEF GcInv
    <3> QED BY <1>1, <1>2, <3>3, <3>4, CollectorKeeps
  <2>2. CASE gc' = Store(P)!GcIdle
    <3>1. gc'.step = "idle" /\ gc'.ids = <<>> /\ DOMAIN gc' = {"step", "ids", "id", "size", "total"}
      BY <2>2 DEF Store!GcIdle
    <3>2. GcInv'
      BY <3>1 DEF GcInv
    <3> QED BY <1>1, <1>2, <3>1, <3>2, CollectorKeeps
  <2>3. CASE gc' = [gc EXCEPT !.step = "sizes", !.ids = <<>>]
    <3>1. gc'.step = "sizes" /\ gc'.ids = <<>> /\ DOMAIN gc' = {"step", "ids", "id", "size", "total"}
      BY <1>g, <2>3
    <3>2. GcInv'
      BY <3>1 DEF GcInv
    <3> QED BY <1>1, <1>2, <3>1, <3>2, CollectorKeeps
  <2>4. \/ gc.ids # <<>> /\ gc' = [gc EXCEPT !.step = Store(P)!After(@), !.id = Head(gc.ids), !.ids = Tail(@)]
        \/ gc' = Store(P)!GcIdle \/ gc' = [gc EXCEPT !.step = "sizes", !.ids = <<>>]
    BY <1>4, Zenon DEF Store!GcNext
  <2> QED BY <2>1, <2>2, <2>3, <2>4
<1>5. CASE Store(P)!GcSizes
  <2> DEFINE ids == IF Store(P)!Fits(Store(P)!TotalBlobSize) THEN <<>> ELSE [i \in DOMAIN lru |-> lru[i].id]
             total == Store(P)!TotalBlobSize
  <2>1. gc' = [gc EXCEPT !.step = "scan", !.size = TRUE, !.total = total, !.ids = ids]
    BY <1>5 DEF Store!GcSizes
  <2>2. ids \in Seq(promoted)
    <3>1. DOMAIN lru = 1..Len(lru) /\ Len(lru) \in 0..Len(lru)
      BY DEF StoreInv, Saves, StoreTypes
    <3>2. [i \in DOMAIN lru |-> lru[i].id] \in Seq(promoted)
      BY <3>1, ListedWereEntries
    <3> QED BY <3>2
  <2> HIDE DEF ids, total
  <2>3. gc'.step = "scan" /\ gc'.ids = ids /\ DOMAIN gc' = {"step", "ids", "id", "size", "total"}
    BY <1>g, <2>1
  <2>4. GcInv'
    BY <1>g, <2>2, <2>3 DEF GcInv
  <2> QED BY <1>1, <1>2, <2>3, <2>4, CollectorKeeps
<1> QED BY <1>3, <1>4, <1>5

LEMMA GcRows ==
  ASSUME NEW P, Store(P)!StoreAssumption, StoreInv(P), Store(P)!GcRow
  PROVE  StoreInv(P)'
<1>1. SaversRest /\ UNCHANGED <<file, removed, reader>> /\ gc.step = "row"
  BY DEF SaversRest, Store!GcRow, Store!history
<1>g. DOMAIN gc = {"step", "ids", "id", "size", "total"} /\ gc.ids \in Seq(promoted) /\ gc.id \in promoted
  BY <1>1 DEF StoreInv, Entries, GcInv
<1>2. /\ gc'.step = "folder" /\ gc'.id = gc.id /\ gc'.ids = gc.ids
      /\ DOMAIN gc' = {"step", "ids", "id", "size", "total"}
  <2> DEFINE total == IF gc.size THEN gc.total - Store(P)!FolderSize(gc.id) ELSE gc.total
  <2>1. gc' = [gc EXCEPT !.step = Store(P)!After(gc.step), !.total = total]
    BY DEF Store!GcRow
  <2>2. Store(P)!After(gc.step) = "folder"
    BY <1>1 DEF Store!After
  <2> HIDE DEF total
  <2> QED BY <1>g, <2>1, <2>2
<1>3. GcInv'
  BY <1>1, <1>g, <1>2 DEF GcInv, SaversRest
<1>4. RowsGo(P) /\ \A k \in DOMAIN lru' : lru'[k].id # gc.id
  <2>t. lru \in Seq(Entry(P)) /\ Distinct(lru)
    BY DEF StoreInv, Saves, StoreTypes, Entry, Entries, EntryInv, Distinct
  <2>1. CASE gc.id \in Store(P)!EntryIds
    <3> DEFINE i == Store(P)!RowOf(gc.id)
    <3>1. i \in DOMAIN lru /\ lru[i].id = gc.id
      BY <2>1 DEF Store!EntryIds, Store!RowOf
    <3>2. lru' = Store(P)!RemoveAt(lru, i)
      BY <2>1 DEF Store!GcRow
    <3> HIDE DEF i
    <3> QED BY <2>t, <3>1, <3>2, RowRemoved DEF RowsGo
  <2>2. CASE gc.id \notin Store(P)!EntryIds
    <3>1. UNCHANGED lru
      BY <2>2 DEF Store!GcRow
    <3> QED BY <2>2, <3>1, RowsStay DEF Store!EntryIds
  <2> QED BY <2>1, <2>2
<1>5. gc'.id \notin EntryIds'
  BY <1>2, <1>4 DEF EntryIds
<1> QED BY <1>1, <1>3, <1>4, <1>5, CollectorKeeps

LEMMA GcFolders ==
  ASSUME NEW P, Store(P)!StoreAssumption, StoreInv(P), Store(P)!GcFolder
  PROVE  StoreInv(P)'
<1>1. SaversRest /\ UNCHANGED <<lru, reader>> /\ gc.step = "folder" /\ Store(P)!RemoveFolder(gc.id)
  BY DEF SaversRest, Store!GcFolder
<1>g. DOMAIN gc = {"step", "ids", "id", "size", "total"} /\ gc.ids \in Seq(promoted) /\ gc.id \in promoted /\ gc.id \in Ids(P)
  BY <1>1 DEF StoreInv, Entries, GcInv, Saves, StoreTypes
<1>2. /\ gc'.step = "scan" /\ gc'.ids = gc.ids /\ DOMAIN gc' = {"step", "ids", "id", "size", "total"}
  <2>1. Store(P)!After(gc.step) = "scan"
    BY <1>1 DEF Store!After
  <2> QED BY <1>g, <2>1 DEF Store!GcFolder
<1>3. GcInv'
  BY <1>1, <1>g, <1>2 DEF GcInv, SaversRest
<1>4. /\ FilesGo(P) /\ removed' = removed \cup {gc.id}
      /\ file' \in [Ids(P) -> [Parts(P) -> {"none", "torn", "whole"}]]
  BY <1>1, <1>g, FolderGoes
<1>5. StoreTypes(P)'
  BY <1>1, <1>g, <1>4 DEF SaversRest, StoreInv, Saves, StoreTypes
<1>6. Saves(P)'
  BY <1>1, <1>4, <1>5, SavesStay DEF SaversRest, StoreInv
<1>7. Finals(P)'
  <2>1. ASSUME NEW b \in P.Savers PROVE Finalizes(P, b)' /\ Closed(P, b)'
    BY <1>1, <1>g, <1>4, FinalsStay DEF SaversRest
  <2> QED BY <2>1 DEF Finals, FinInv, ClosedInv
<1>8. EntryInv(P)'
  <2>1. gc.id \notin raced => gc.id \notin EntryIds
    BY <1>1 DEF StoreInv, Entries, GoneInv
  <2> QED BY <1>1, <1>g, <1>4, <2>1, RemovedIsNoEntry DEF SaversRest
<1>9. GoneInv(P)'
  BY <1>1, <1>2 DEF StoreInv, Entries, GoneInv, EntryIds, SaversRest
<1>10. ReaderInv(P)'
  BY <1>1, <1>4, ReadersStay DEF StoreInv, SaversRest
<1> QED BY <1>3, <1>6, <1>7, <1>8, <1>9, <1>10 DEF StoreInv, Entries

\* What has been an entry, and was neither raced nor removed, is on disk, whole.
LEMMA PromotedIsWhole ==
  ASSUME NEW P, StoreInv(P), NEW i \in promoted, i \notin raced, i \notin removed
  PROVE  WholeFiles(P, i)
<1>1. i \in Ids(P)
  BY DEF StoreInv, Saves, StoreTypes
<1>2. PICK c \in P.Savers : up[c] = i
  BY <1>1 DEF StoreInv, Saves, FreshInv, Owned
<1>3. Closed(P, c)
  BY DEF StoreInv, Finals, ClosedInv
<1> QED BY <1>2, <1>3 DEF Closed

Download(P) == [step : {"lookup", "open", "read", "done", "miss"}, id : Ids(P) \cup {0}, parts : 0..P.PartCount,
                got : Seq({"torn", "whole"})]
\* What ReaderInv says of one download.
Delivers(P, r) ==
  /\ r.step = "lookup" => r.got = <<>>
  /\ r.step \in {"open", "read", "done"} => r.id \in promoted
  /\ r.step = "open" => r.got = <<>>
  /\ r.step = "read" => Len(r.got) <= r.parts
  /\ r.step \in {"read", "done"} /\ r.id \notin removed \cup raced =>
       /\ r.parts = P.PartCount /\ Len(r.got) <= P.PartCount
       /\ \A k \in 1..Len(r.got) : r.got[k] = "whole"
       /\ r.step = "done" => Len(r.got) = P.PartCount

LEMMA ReaderKeeps ==
  ASSUME NEW P, Store(P)!StoreAssumption, StoreInv(P), SaversRest, UNCHANGED <<file, removed, gc>>, RowsGo(P),
         NEW d \in P.Readers, NEW r \in Download(P), reader' = [reader EXCEPT ![d] = r], Delivers(P, r)
  PROVE  StoreInv(P)'
<1>1. Saves(P)' /\ Finals(P)' /\ EntryInv(P)' /\ \A i : i \notin EntryIds => i \notin EntryIds'
  BY SaversStay
<1>2. GoneInv(P)' /\ GcInv'
  BY <1>1 DEF SaversRest, StoreInv, Entries, GoneInv, GcInv
<1>3. reader \in [P.Readers -> Download(P)] /\ \A b \in P.Readers : Delivers(P, reader[b])
  BY DEF StoreInv, ReaderInv, Download, Delivers
<1>4. reader' \in [P.Readers -> Download(P)] /\ \A b \in P.Readers : reader'[b] = IF b = d THEN r ELSE reader[b]
  BY <1>3
<1>5. \A b \in P.Readers : Delivers(P, reader'[b])
  BY <1>3, <1>4
<1>6. \A b \in P.Readers : Delivers(P, reader[b])'
  BY <1>5 DEF Delivers, SaversRest
<1>7. ReaderInv(P)'
  BY <1>1, <1>4, <1>6 DEF ReaderInv, Download, Delivers, Ids, Store!Ids
<1> QED BY <1>1, <1>2, <1>7 DEF StoreInv, Entries

LEMMA EntryRemoved ==
  ASSUME NEW P, NEW i, i \in DOMAIN lru, lru \in Seq(Entry(P)), Distinct(lru)
  PROVE  /\ Store(P)!RemoveAt(lru, i) \in Seq(Entry(P)) /\ Distinct(Store(P)!RemoveAt(lru, i))
         /\ \A k \in DOMAIN Store(P)!RemoveAt(lru, i) : Store(P)!RemoveAt(lru, i)[k].id # lru[i].id
         /\ \A k \in DOMAIN Store(P)!RemoveAt(lru, i) : \E m \in DOMAIN lru \ {i} : Store(P)!RemoveAt(lru, i)[k] = lru[m]
BY RowRemoved

LEMMA Lookups ==
  ASSUME NEW P, Store(P)!StoreAssumption, StoreInv(P), NEW d \in P.Readers, Store(P)!Lookup(d)
  PROVE  StoreInv(P)'
<1>0. reader[d].step = "lookup" /\ SaversRest /\ UNCHANGED <<file, removed, gc>>
  BY DEF Store!Lookup, SaversRest, Store!history
<1>t. /\ reader \in [P.Readers -> Download(P)] /\ reader[d].got = <<>>
      /\ lru \in Seq(Entry(P)) /\ Distinct(lru) /\ \A i \in DOMAIN lru : lru[i].id \in promoted
  BY <1>0 DEF StoreInv, ReaderInv, Download, Saves, StoreTypes, Entry, Entries, EntryInv, Distinct
<1>1. ASSUME reader' = [reader EXCEPT ![d].step = "miss"], UNCHANGED lru PROVE StoreInv(P)'
  <2> DEFINE r == [reader[d] EXCEPT !.step = "miss"]
  <2>1. r \in Download(P) /\ reader' = [reader EXCEPT ![d] = r] /\ r.step = "miss"
    BY <1>t, <1>1 DEF Download
  <2> HIDE DEF r
  <2>2. Delivers(P, r)
    BY <2>1 DEF Delivers
  <2>3. RowsGo(P)
    BY <1>1, RowsStay
  <2> QED BY <1>0, <2>1, <2>2, <2>3, ReaderKeeps
<1>2. ASSUME NEW i \in Store(P)!EntriesFor(P.WantedKey[d]), lru' = Append(Store(P)!RemoveAt(lru, i), lru[i]),
             reader' = [reader EXCEPT ![d].step = "open", ![d].id = lru[i].id]
      PROVE  StoreInv(P)'
  <2> DEFINE r == [reader[d] EXCEPT !.step = "open", !.id = lru[i].id] t == Store(P)!RemoveAt(lru, i)
  <2>1. i \in DOMAIN lru
    BY DEF Store!EntriesFor
  <2>2. lru[i] \in Entry(P) /\ lru[i].id \in Ids(P) /\ lru[i].id \in promoted
    <3>1. lru[i] \in Entry(P)
      BY <1>t, <2>1
    <3> QED BY <1>t, <2>1, <3>1 DEF Entry
  <2>3. r \in Download(P) /\ reader' = [reader EXCEPT ![d] = r] /\ r.step = "open" /\ r.id = lru[i].id /\ r.got = <<>>
    BY <1>t, <1>2, <2>2 DEF Download
  <2> HIDE DEF r
  <2>4. Delivers(P, r)
    BY <2>2, <2>3 DEF Delivers
  <2>5. /\ t \in Seq(Entry(P)) /\ Distinct(t) /\ (\A k \in DOMAIN t : t[k].id # lru[i].id)
        /\ \A k \in DOMAIN t : \E m \in DOMAIN lru \ {i} : t[k] = lru[m]
    <3>1. lru \in Seq(Entry(P)) /\ i \in DOMAIN lru /\ Distinct(lru)
      BY <1>t, <2>1
    <3> HIDE DEF t
    <3> QED BY <3>1, EntryRemoved DEF t
  <2>6. lru' = Append(t, lru[i])
    BY <1>2
  <2> HIDE DEF t
  <2>7. /\ lru' \in Seq(Entry(P)) /\ Distinct(lru')
        /\ \A k \in DOMAIN lru' : lru'[k] = lru[i] \/ (k \in DOMAIN t /\ lru'[k] = t[k])
    BY <2>2, <2>5, <2>6, RowAdded
  <2>8. RowsGo(P)
    BY <2>1, <2>5, <2>7 DEF RowsGo
  <2> QED BY <1>0, <2>3, <2>4, <2>8, ReaderKeeps
<1> QED BY <1>1, <1>2 DEF Store!Lookup

LEMMA OpensDownload ==
  ASSUME NEW P, Store(P)!StoreAssumption, StoreInv(P), NEW d \in P.Readers, Store(P)!OpenDownload(d)
  PROVE  StoreInv(P)'
<1>0. reader[d].step = "open" /\ SaversRest /\ UNCHANGED <<file, removed, gc, lru>>
  BY DEF Store!OpenDownload, SaversRest, Store!history, Store!tables
<1>t. /\ reader \in [P.Readers -> Download(P)] /\ reader[d].got = <<>> /\ reader[d].id \in promoted
      /\ P.PartCount \in Nat
  BY <1>0, StoreBasics DEF StoreInv, ReaderInv, Download
<1>r. RowsGo(P)
  BY <1>0, RowsStay
<1>1. CASE reader[d].id \in Store(P)!EntryIds
  <2> DEFINE i == Store(P)!RowOf(reader[d].id) r == [reader[d] EXCEPT !.step = "read", !.parts = lru[i].parts]
  <2>1. i \in DOMAIN lru /\ lru[i].id = reader[d].id
    BY <1>1 DEF Store!EntryIds, Store!RowOf
  <2>2. reader' = [reader EXCEPT ![d] = r]
    BY <1>1, <1>t DEF Store!OpenDownload
  <2> HIDE DEF i
  <2>3. lru[i].parts \in 0..P.PartCount /\ (lru[i].id \notin raced => lru[i].parts = P.PartCount)
    <3>1. lru \in Seq(Entry(P))
      BY DEF StoreInv, Saves, StoreTypes, Entry
    <3>2. lru[i] \in Entry(P)
      BY <2>1, <3>1
    <3> QED BY <2>1, <3>2 DEF Entry, StoreInv, Entries, EntryInv
  <2>4. r \in Download(P) /\ r.step = "read" /\ r.id = reader[d].id /\ r.got = <<>> /\ r.parts = lru[i].parts
    BY <1>t, <2>3 DEF Download
  <2> HIDE DEF r
  <2>5. Delivers(P, r)
    BY <1>t, <2>1, <2>3, <2>4 DEF Delivers
  <2> QED BY <1>0, <1>r, <2>2, <2>4, <2>5, ReaderKeeps
<1>2. CASE reader[d].id \notin Store(P)!EntryIds
  <2> DEFINE r == [reader[d] EXCEPT !.step = "miss"]
  <2>1. reader' = [reader EXCEPT ![d] = r]
    BY <1>2, <1>t DEF Store!OpenDownload
  <2>2. r \in Download(P) /\ r.step = "miss"
    BY <1>t DEF Download
  <2> HIDE DEF r
  <2>3. Delivers(P, r)
    BY <2>2 DEF Delivers
  <2> QED BY <1>0, <1>r, <2>1, <2>2, <2>3, ReaderKeeps
<1> QED BY <1>1, <1>2

LEMMA ReadsPart ==
  ASSUME NEW P, Store(P)!StoreAssumption, StoreInv(P), NEW d \in P.Readers, Store(P)!ReadPart(d)
  PROVE  StoreInv(P)'
<1> DEFINE r == reader[d] n == Len(r.got)
<1>0. r.step = "read" /\ SaversRest /\ UNCHANGED <<file, removed, gc, lru>>
  BY DEF Store!ReadPart, SaversRest, Store!history, Store!tables
<1>1. \/ /\ Store(P)!NoPartLeft(r) \/ file[r.id][n] = "none"
         /\ reader' = [reader EXCEPT ![d] = [r EXCEPT !.step = "done"]]
      \/ /\ ~Store(P)!NoPartLeft(r) /\ file[r.id][n] # "none"
         /\ reader' = [reader EXCEPT ![d] = [r EXCEPT !.got = Append(@, file[r.id][n])]]
  BY DEF Store!ReadPart
<1>t. r \in Download(P) /\ Delivers(P, r) /\ r.id \in Ids(P) /\ r.id \in promoted /\ P.PartCount \in Nat \ {0}
  BY <1>0, StoreBasics DEF StoreInv, ReaderInv, Download, Delivers, Saves, StoreTypes
<1>r. RowsGo(P)
  BY <1>0, RowsStay
<1>w. r.id \notin removed \cup raced => WholeFiles(P, r.id)
  BY <1>t, PromotedIsWhole
<1>n. r.got \in Seq({"torn", "whole"}) /\ r.parts \in 0..P.PartCount /\ n \in Nat /\ n <= r.parts /\ (Store(P)!NoPartLeft(r) <=> n = r.parts)
  BY <1>0, <1>t DEF Download, Delivers, Store!NoPartLeft
<1>k. r.id \notin removed \cup raced =>
        /\ r.parts = P.PartCount /\ n <= P.PartCount /\ \A k \in 1..n : r.got[k] = "whole"
        /\ n # P.PartCount => n \in Parts(P) /\ file[r.id][n] = "whole"
  <2>1. n <= P.PartCount /\ n # P.PartCount => n \in Parts(P)
    BY <1>n, <1>t, StoreBasics
  <2> QED BY <1>0, <1>t, <1>w, <2>1 DEF Delivers, WholeFiles
<1> HIDE DEF r
<1>2. ASSUME Store(P)!NoPartLeft(r) \/ file[r.id][n] = "none", reader' = [reader EXCEPT ![d] = [r EXCEPT !.step = "done"]]
      PROVE  StoreInv(P)'
  <2> DEFINE q == [r EXCEPT !.step = "done"]
  <2>1. q \in Download(P) /\ q.step = "done" /\ q.id = r.id /\ q.parts = r.parts /\ q.got = r.got
    BY <1>t DEF Download
  <2> HIDE DEF q
  <2>2. r.id \notin removed \cup raced => n = P.PartCount
    BY <1>2, <1>k, <1>n
  <2>3. Delivers(P, q)
    BY <1>t, <1>k, <2>1, <2>2 DEF Delivers
  <2>4. reader' = [reader EXCEPT ![d] = q]
    BY <1>2 DEF q
  <2> QED BY <1>0, <1>r, <2>1, <2>3, <2>4, ReaderKeeps
<1>3. ASSUME ~Store(P)!NoPartLeft(r), file[r.id][n] # "none",
             reader' = [reader EXCEPT ![d] = [r EXCEPT !.got = Append(@, file[r.id][n])]]
      PROVE  StoreInv(P)'
  <2> DEFINE f == file[r.id][n] q == [r EXCEPT !.got = Append(@, f)]
  <2>1. n \in Parts(P) /\ n + 1 <= r.parts
    BY <1>3, <1>n, <1>t, StoreBasics
  <2>2. f \in {"torn", "whole"}
    BY <1>3, <1>t, <2>1 DEF StoreInv, Saves, StoreTypes
  <2>3. reader' = [reader EXCEPT ![d] = q]
    BY <1>3
  <2>4. r.id \notin removed \cup raced => f = "whole" /\ r.parts = P.PartCount
    BY <1>3, <1>k, <1>n
  <2> HIDE DEF f
  <2>5. /\ Append(r.got, f) \in Seq({"torn", "whole"}) /\ Len(Append(r.got, f)) = n + 1
        /\ \A k \in 1..n + 1 : Append(r.got, f)[k] = IF k = n + 1 THEN f ELSE r.got[k]
    BY <1>n, <2>2
  <2>6. q \in Download(P) /\ q.step = "read" /\ q.id = r.id /\ q.parts = r.parts /\ q.got = Append(r.got, f)
    BY <1>0, <1>t, <2>5 DEF Download, r
  <2> HIDE DEF q
  <2>7. r.id \notin removed \cup raced => \A k \in 1..n + 1 : q.got[k] = "whole"
    <3> SUFFICES ASSUME r.id \notin removed \cup raced, NEW k \in 1..n + 1 PROVE q.got[k] = "whole"
      OBVIOUS
    <3>1. k = n + 1 \/ k \in 1..n
      BY <1>n
    <3> QED BY <1>k, <2>4, <2>5, <2>6, <3>1
  <2>8. Delivers(P, q)
    BY <1>t, <2>1, <2>4, <2>5, <2>6, <2>7 DEF Delivers
  <2> QED BY <1>0, <1>r, <2>3, <2>6, <2>8, ReaderKeeps
<1> QED BY <1>1, <1>2, <1>3

LEMMA StoreStep ==
  ASSUME NEW P, Store(P)!StoreAssumption, StoreInv(P), [Store(P)!Next]_(Store(P)!vars)
  PROVE  StoreInv(P)'
<1>1. ASSUME NEW c \in P.Savers, Store(P)!CreateSelect(c) \/ Store(P)!CreateInsert(c) \/ Store(P)!Die(c)
      PROVE  StoreInv(P)'
  BY <1>1, CreateSelects, CreateInserts, Dies
<1>2. ASSUME NEW c \in P.Savers, Store(P)!Finalize(c) PROVE StoreInv(P)'
  BY <1>2, FinalizeSelects, FinalizeCounts, FinalizeQueries, FinalizeUpdates, FinalizeInserts, FinalizeUnlinks,
     FinalizeDrops DEF Store!Finalize
<1>3. ASSUME NEW x \in P.PutSlots, NEW c \in P.Savers, NEW p \in Parts(P), Store(P)!PutSelect(x, c, p) PROVE StoreInv(P)'
  BY <1>3, PutSelects
<1>4. ASSUME NEW x \in P.PutSlots,
             Store(P)!PutStart(x) \/ Store(P)!PutCreate(x) \/ Store(P)!PutWrite(x) \/ Store(P)!PutFinish(x) \/ Store(P)!GiveUp(x)
      PROVE  StoreInv(P)'
  BY <1>4, PutStarts, PutCreates, PutWrites, PutFinishes, GivesUp
<1>5. CASE Store(P)!GcAge \/ Store(P)!GcNext \/ Store(P)!GcSizes \/ Store(P)!GcRow \/ Store(P)!GcFolder
  BY <1>5, GcKeeps, GcRows, GcFolders
<1>6. ASSUME NEW d \in P.Readers, Store(P)!Lookup(d) \/ Store(P)!OpenDownload(d) \/ Store(P)!ReadPart(d) PROVE StoreInv(P)'
  BY <1>6, Lookups, OpensDownload, ReadsPart
<1>7. CASE UNCHANGED Store(P)!vars
  <2>1. SaversRest /\ UNCHANGED <<file, removed, lru, gc, reader>>
    BY <1>7 DEF Store!vars, SaversRest
  <2>2. RowsGo(P)
    BY <2>1, RowsStay
  <2>3. GcInv' /\ (gc'.step = "folder" /\ gc'.id \notin raced => gc'.id \notin EntryIds')
    BY <2>1 DEF StoreInv, Entries, GcInv, GoneInv, EntryIds, SaversRest
  <2> QED BY <2>1, <2>2, <2>3, CollectorKeeps
<1> QED BY <1>1, <1>2, <1>3, <1>4, <1>5, <1>6, <1>7 DEF Store!Next, Store!Quiet, Parts

LEMMA StoreServesWhole ==
  ASSUME NEW P, Store(P)!StoreAssumption, StoreInv(P)
  PROVE  Store(P)!ArchivesAreWhole
<1>1. Store(P)!EntriesAreWhole
  <2> SUFFICES ASSUME NEW i \in DOMAIN lru, lru[i].id \notin raced PROVE Store(P)!Whole(lru[i])
    BY DEF Store!EntriesAreWhole
  <2>1. lru[i].id \in promoted /\ lru[i].id \notin removed /\ lru[i].parts = P.PartCount
    BY DEF StoreInv, Entries, EntryInv
  <2>2. WholeFiles(P, lru[i].id)
    BY <2>1, PromotedIsWhole
  <2> QED BY <2>1, <2>2 DEF Store!Whole, WholeFiles, Parts
<1>2. Store(P)!DownloadsWholeUnlessRemoved
  <2> SUFFICES ASSUME NEW d \in P.Readers, reader[d].step = "done", reader[d].id \notin removed \cup raced
               PROVE  reader[d].got = [p \in 1..P.PartCount |-> "whole"]
    BY DEF Store!DownloadsWholeUnlessRemoved
  <2>1. reader[d].got \in Seq({"torn", "whole"})
    BY DEF StoreInv, ReaderInv
  <2>2. Len(reader[d].got) = P.PartCount /\ \A k \in 1..Len(reader[d].got) : reader[d].got[k] = "whole"
    BY DEF StoreInv, ReaderInv
  <2> HIDE DEF StoreInv
  <2> QED BY <2>1, <2>2
<1> QED BY <1>1, <1>2 DEF Store!ArchivesAreWhole

-----------------------------------------------------------------------------
(* CacheStore: what a saver is told, and what the collector removes for its size. *)

\* Most steps leave the rows and the collector alone, remove no file, and take no saver to where it
\* has replaced, added or dropped a row.
FilesKept(P) == \A i \in Ids(P), p \in Parts(P) : file[i][p] # "none" => file'[i][p] # "none"
Calm(P) ==
  /\ UNCHANGED <<lru, promoted, gc>> /\ budget'.gc = budget.gc /\ FilesKept(P)
  /\ \A c \in P.Savers : \/ saver'[c] = saver[c] /\ fin'[c] = fin[c]
                         \/ saver[c] \notin Later /\ saver'[c] \notin Later \cup {"update"}

LEMMA CalmSaver ==
  ASSUME NEW P, StoreInv(P), NEW c \in P.Savers, NEW t \in Early \cup {"upload", "gone", "failed", "count", "query"},
         saver' = [saver EXCEPT ![c] = t], saver[c] \notin Later, fin' = fin \/ \E f : fin' = [fin EXCEPT ![c] = f],
         UNCHANGED <<lru, promoted, gc, file>>, budget'.gc = budget.gc
  PROVE  Calm(P)
BY DEF Calm, FilesKept, StoreInv, Saves, StoreTypes, Later, Early

LEMMA CalmStarts ==
  ASSUME NEW P, StoreInv(P), NEW c \in P.Savers, Store(P)!CreateSelect(c) \/ Store(P)!CreateInsert(c) \/ Store(P)!Die(c)
  PROVE  Calm(P)
<1>1. CASE Store(P)!CreateSelect(c)
  <2>1. saver' = [saver EXCEPT ![c] = "insert"] \/ saver' = [saver EXCEPT ![c] = "refused"]
    BY <1>1 DEF Store!CreateSelect, Store!Becomes
  <2>2. saver[c] \notin Later /\ UNCHANGED <<lru, promoted, gc, file, fin>> /\ budget'.gc = budget.gc
    BY <1>1 DEF Store!CreateSelect, Store!tables, Store!history, Later
  <2> QED BY <2>1, <2>2, CalmSaver DEF Early
<1>2. CASE Store(P)!CreateInsert(c)
  <2>1. saver' = [saver EXCEPT ![c] = "upload"] /\ saver[c] \notin Later
        /\ UNCHANGED <<lru, promoted, gc, file, fin>> /\ budget'.gc = budget.gc
    BY <1>2 DEF Store!CreateInsert, Store!Becomes, Store!history, Later
  <2> QED BY <2>1, CalmSaver
<1>3. CASE Store(P)!Die(c)
  <2>1. saver' = [saver EXCEPT ![c] = "gone"] /\ saver[c] \notin Later /\ UNCHANGED <<lru, promoted, gc, file, fin>>
    BY <1>3 DEF Store!Die, Store!Becomes, Store!tables, Store!history, Later
  <2>2. budget'.gc = budget.gc
    BY <1>3 DEF Store!Die
  <2> QED BY <2>1, <2>2, CalmSaver
<1> QED BY <1>1, <1>2, <1>3

LEMMA CalmFinals ==
  ASSUME NEW P, StoreInv(P), NEW c \in P.Savers, Store(P)!FinalizeSelect(c) \/ Store(P)!FinalizeCount(c)
  PROVE  Calm(P)
<1>1. CASE Store(P)!FinalizeSelect(c)
  <2>1. saver' = [saver EXCEPT ![c] = "count"] \/ saver' = [saver EXCEPT ![c] = "failed"]
    BY <1>1 DEF Store!FinalizeSelect, Store!Becomes
  <2>2. fin' = fin \/ \E f : fin' = [fin EXCEPT ![c] = f]
    BY <1>1 DEF Store!FinalizeSelect
  <2>3. saver[c] \notin Later /\ UNCHANGED <<lru, promoted, gc, file>> /\ budget'.gc = budget.gc
    BY <1>1 DEF Store!FinalizeSelect, Later
  <2> QED BY <2>1, <2>2, <2>3, CalmSaver
<1>2. CASE Store(P)!FinalizeCount(c)
  <2>1. saver' = [saver EXCEPT ![c] = "query"] \/ saver' = [saver EXCEPT ![c] = "failed"]
    BY <1>2 DEF Store!FinalizeCount, Store!Becomes
  <2>2. saver[c] \notin Later /\ UNCHANGED <<lru, promoted, gc, file, fin>> /\ budget'.gc = budget.gc
    BY <1>2 DEF Store!FinalizeCount, Store!history, Later
  <2> QED BY <2>1, <2>2, CalmSaver
<1> QED BY <1>1, <1>2

LEMMA CalmRest ==
  ASSUME NEW P, UNCHANGED <<saver, fin, lru, promoted, gc>>, budget'.gc = budget.gc, FilesKept(P)
  PROVE  Calm(P)
BY DEF Calm

LEMMA CalmPuts ==
  ASSUME NEW P, StoreInv(P), NEW x \in P.PutSlots,
         \/ \E c \in P.Savers, p \in Parts(P) : Store(P)!PutSelect(x, c, p)
         \/ Store(P)!PutStart(x) \/ Store(P)!PutCreate(x) \/ Store(P)!PutWrite(x) \/ Store(P)!PutFinish(x) \/ Store(P)!GiveUp(x)
  PROVE  Calm(P)
<1>t. file \in [Ids(P) -> [Parts(P) -> {"none", "torn", "whole"}]]
  BY DEF StoreInv, Saves, StoreTypes
<1>1. CASE \E c \in P.Savers, p \in Parts(P) : Store(P)!PutSelect(x, c, p)
  <2>1. UNCHANGED <<saver, fin, lru, promoted, gc, file, budget>>
    BY <1>1 DEF Store!PutSelect, Store!tables, Store!history
  <2> QED BY <2>1, CalmRest DEF FilesKept
<1>2. CASE Store(P)!PutStart(x) \/ Store(P)!PutFinish(x)
  <2>1. UNCHANGED <<saver, fin, lru, promoted, gc, file, budget>>
    BY <1>2 DEF Store!PutStart, Store!PutFinish, Store!history
  <2> QED BY <2>1, CalmRest DEF FilesKept
<1>3. CASE Store(P)!PutCreate(x)
  <2>1. UNCHANGED <<saver, fin, lru, promoted, gc, budget>> /\ file' = [file EXCEPT ![put[x].id][put[x].part] = "torn"]
    BY <1>3 DEF Store!PutCreate, Store!history
  <2>2. FilesKept(P)
    BY <1>t, <2>1 DEF FilesKept
  <2> QED BY <2>1, <2>2, CalmRest
<1>4. CASE Store(P)!PutWrite(x)
  <2>1. UNCHANGED <<saver, fin, lru, promoted, gc, budget>>
    BY <1>4 DEF Store!PutWrite, Store!history
  <2>2. file' = file \/ file' = [file EXCEPT ![put[x].id][put[x].part] = IF @ = "none" THEN @ ELSE "whole"]
    BY <1>4 DEF Store!PutWrite
  <2>3. FilesKept(P)
    BY <1>t, <2>2 DEF FilesKept
  <2> QED BY <2>1, <2>3, CalmRest
<1>5. CASE Store(P)!GiveUp(x)
  <2>1. UNCHANGED <<saver, fin, lru, promoted, gc, file>> /\ budget'.gc = budget.gc
    BY <1>5 DEF Store!GiveUp, Store!tables, Store!history
  <2> QED BY <2>1, CalmRest DEF FilesKept
<1> QED BY <1>1, <1>2, <1>3, <1>4, <1>5

LEMMA CalmReads ==
  ASSUME NEW P, NEW d \in P.Readers, Store(P)!OpenDownload(d) \/ Store(P)!ReadPart(d)
  PROVE  Calm(P)
<1>1. UNCHANGED <<saver, fin, lru, promoted, gc, file, budget>>
  BY DEF Store!OpenDownload, Store!ReadPart, Store!tables, Store!history
<1> QED BY <1>1, CalmRest DEF FilesKept

\* The steps that matter to the rows.
Deciding(P) ==
  \/ \E c \in P.Savers : \/ Store(P)!FinalizeQuery(c) \/ Store(P)!FinalizeUpdate(c) \/ Store(P)!FinalizeInsert(c)
                         \/ Store(P)!FinalizeUnlink(c) \/ Store(P)!FinalizeDrop(c)
  \/ \E d \in P.Readers : Store(P)!Lookup(d)
Collecting(P) == Store(P)!GcAge \/ Store(P)!GcNext \/ Store(P)!GcSizes \/ Store(P)!GcRow \/ Store(P)!GcFolder

LEMMA StepKinds ==
  ASSUME NEW P, StoreInv(P), [Store(P)!Next]_(Store(P)!vars)
  PROVE  Calm(P) \/ Deciding(P) \/ Collecting(P)
<1>1. CASE UNCHANGED Store(P)!vars
  <2>1. UNCHANGED <<saver, fin, lru, promoted, gc, file, budget>>
    BY <1>1 DEF Store!vars
  <2> QED BY <2>1, CalmRest DEF FilesKept
<1>2. ASSUME NEW c \in P.Savers, Store(P)!Finalize(c) PROVE Calm(P) \/ Deciding(P)
  BY <1>2, CalmFinals DEF Store!Finalize, Deciding
<1>3. ASSUME NEW c \in P.Savers, Store(P)!CreateSelect(c) \/ Store(P)!CreateInsert(c) \/ Store(P)!Die(c) PROVE Calm(P)
  BY <1>3, CalmStarts
<1>4. ASSUME NEW x \in P.PutSlots,
             \/ \E c \in P.Savers, p \in Parts(P) : Store(P)!PutSelect(x, c, p)
             \/ Store(P)!PutStart(x) \/ Store(P)!PutCreate(x) \/ Store(P)!PutWrite(x) \/ Store(P)!PutFinish(x) \/ Store(P)!GiveUp(x)
      PROVE  Calm(P)
  BY <1>4, CalmPuts
<1>5. ASSUME NEW d \in P.Readers, Store(P)!Lookup(d) \/ Store(P)!OpenDownload(d) \/ Store(P)!ReadPart(d)
      PROVE  Calm(P) \/ Deciding(P)
  BY <1>5, CalmReads DEF Deciding
<1> QED BY <1>1, <1>2, <1>3, <1>4, <1>5 DEF Store!Next, Store!Quiet, Collecting, Parts

-----------------------------------------------------------------------------
(* The keys that have an entry. *)

KeysListed == {lru[k].key : k \in DOMAIN lru}

RowAt(S, s, i) == s \in Seq(S) /\ i \in DOMAIN s

LEMMA RowsLeft ==
  ASSUME NEW P, NEW S, NEW s, NEW i, RowAt(S, s, i), NEW e \in S
  PROVE  LET t == Append(Store(P)!RemoveAt(s, i), e) IN
         (\E k \in DOMAIN t : t[k] = e) /\ \A m \in DOMAIN s \ {i} : \E k \in DOMAIN t : t[k] = s[m]
<1> DEFINE u == Store(P)!RemoveAt(s, i) t == Append(u, e)
<1>1. i \in 1..Len(s) /\ Len(s) \in Nat /\ s \in Seq(S) /\ i \in DOMAIN s
  BY DEF RowAt
<1>2. u \in Seq(S) /\ Len(u) = Len(s) - 1 /\ DOMAIN u = 1..Len(s) - 1
      /\ \A k \in 1..Len(s) - 1 : u[k] = IF k < i THEN s[k] ELSE s[k + 1]
  BY <1>1, RemovalMoves
<1> HIDE DEF u
<1>3. t \in Seq(S) /\ DOMAIN t = 1..Len(s) /\ t[Len(s)] = e /\ \A k \in 1..Len(s) - 1 : t[k] = u[k]
  BY <1>1, <1>2
<1> HIDE DEF t
<1>4. ASSUME NEW m \in DOMAIN s \ {i} PROVE \E k \in DOMAIN t : t[k] = s[m]
  <2>1. m \in 1..Len(s) /\ m # i
    BY <1>1
  <2>2. CASE m < i
    BY <1>1, <1>2, <1>3, <2>1, <2>2
  <2>3. CASE m > i
    <3>1. m - 1 \in 1..Len(s) - 1 /\ ~(m - 1 < i) /\ (m - 1) + 1 = m
      BY <1>1, <2>1, <2>3
    <3>2. t[m - 1] = s[m] /\ m - 1 \in DOMAIN t
      BY <1>1, <1>2, <1>3, <3>1
    <3> QED BY <3>2
  <2> QED BY <1>1, <2>1, <2>2, <2>3
<1>5. \E k \in DOMAIN t : t[k] = e
  BY <1>1, <1>3
<1> QED BY <1>4, <1>5 DEF t, u

LEMMA RowsMoved ==
  ASSUME NEW P, NEW S, NEW s, NEW i, RowAt(S, s, i), NEW e \in S
  PROVE  LET t == Append(Store(P)!RemoveAt(s, i), e) IN
         \A k \in DOMAIN t : t[k] = e \/ \E m \in DOMAIN s : t[k] = s[m]
<1> DEFINE u == Store(P)!RemoveAt(s, i) t == Append(u, e)
<1>0. s \in Seq(S) /\ i \in DOMAIN s
  BY DEF RowAt
<1>a. Len(s) \in Nat /\ DOMAIN s = 1..Len(s)
  BY <1>0
<1>b. u \in Seq(S) /\ DOMAIN u = 1..Len(s) - 1 /\ \A k \in 1..Len(s) - 1 : u[k] = IF k < i THEN s[k] ELSE s[k + 1]
  BY <1>0, RemovalMoves
<1> HIDE DEF u
<1>1. u \in Seq(S) /\ \A k \in DOMAIN u : \E m \in DOMAIN s : u[k] = s[m]
  BY <1>a, <1>b
<1>2. \A k \in DOMAIN t : t[k] = e \/ (k \in DOMAIN u /\ t[k] = u[k])
  BY <1>1, RowAdded
<1> QED BY <1>1, <1>2 DEF u

\* A row that is replaced by one of its key, or moves, leaves the keys as they were.
LEMMA KeysMove ==
  ASSUME NEW P, NEW i, i \in DOMAIN lru, lru \in Seq(Entry(P)), NEW e \in Entry(P), e.key = lru[i].key,
         lru' = Append(Store(P)!RemoveAt(lru, i), e)
  PROVE  KeysListed' = KeysListed
<1> DEFINE t == Append(Store(P)!RemoveAt(lru, i), e)
<1>0. RowAt(Entry(P), lru, i)
  BY DEF RowAt
<1>1. (\E k \in DOMAIN t : t[k] = e) /\ \A m \in DOMAIN lru \ {i} : \E k \in DOMAIN t : t[k] = lru[m]
  BY <1>0, RowsLeft
<1>2. \A k \in DOMAIN t : t[k] = e \/ \E m \in DOMAIN lru : t[k] = lru[m]
  BY <1>0, RowsMoved
<1>3. lru' = t
  OBVIOUS
<1> HIDE DEF t
<1> QED BY <1>1, <1>2, <1>3 DEF KeysListed

LEMMA KeysAdd ==
  ASSUME NEW P, lru \in Seq(Entry(P)), NEW e \in Entry(P), lru' = Append(lru, e)
  PROVE  KeysListed' = KeysListed \cup {e.key}
<1>1. Len(lru) \in Nat /\ DOMAIN lru = 1..Len(lru) /\ DOMAIN lru' = 1..Len(lru) + 1
      /\ lru'[Len(lru) + 1] = e /\ \A k \in 1..Len(lru) : lru'[k] = lru[k]
  OBVIOUS
<1>2. Len(lru) + 1 \in DOMAIN lru' /\ \A k \in DOMAIN lru : k \in DOMAIN lru'
  BY <1>1
<1>3. \A k \in DOMAIN lru' : k \in DOMAIN lru \/ k = Len(lru) + 1
  BY <1>1
<1> QED BY <1>1, <1>2, <1>3 DEF KeysListed

LEMMA KeysShrink ==
  ASSUME NEW P, \A k \in DOMAIN lru' : \E m \in DOMAIN lru : lru'[k] = lru[m]
  PROVE  KeysListed' \subseteq KeysListed
BY DEF KeysListed

\* What the steps on rows do to keys, savers and files.
LEMMA EntryTypes ==
  ASSUME NEW P, StoreInv(P)
  PROVE  /\ lru \in Seq(Entry(P)) /\ Distinct(lru)
         /\ saver \in [P.Savers -> Early \cup {"upload", "gone", "failed"} \cup Before \cup Later]
         /\ \A c \in P.Savers : saver[c] \in {"update", "store"} => Store(P)!NewEntry(c) \in Entry(P)
BY DEF StoreInv, Saves, StoreTypes, Entry, Entries, EntryInv, Distinct, Finals, FinInv, Finalizes, Before, Later,
       Store!NewEntry, Keys

Goes(c, from, to) == saver[c] = from /\ saver' = [saver EXCEPT ![c] = to]
RestOfStore == UNCHANGED gc /\ budget' = budget

LEMMA Queries ==
  ASSUME NEW P, NEW c \in P.Savers, Store(P)!FinalizeQuery(c)
  PROVE  /\ RestOfStore /\ UNCHANGED <<lru, promoted, file>>
         /\ \/ Goes(c, "query", "store") /\ fin' = fin
            \/ /\ Goes(c, "query", "update") /\ P.KeyOf[c] \in KeysListed
               /\ \E o : fin' = [fin EXCEPT ![c].old = o]
BY DEF Store!FinalizeQuery, Store!EntriesFor, Store!Becomes, Store!tables, Store!history, Goes, RestOfStore, KeysListed

LEMMA Updates ==
  ASSUME NEW P, StoreInv(P), NEW c \in P.Savers, Store(P)!FinalizeUpdate(c)
  PROVE  /\ RestOfStore /\ UNCHANGED <<fin, file>> /\ KeysListed' = KeysListed
         /\ \/ Goes(c, "update", "failed") /\ UNCHANGED promoted
            \/ Goes(c, "update", "unlink") /\ UNCHANGED promoted /\ P.KeyOf[c] \notin KeysListed
            \/ Goes(c, "update", "unlink") /\ promoted' = promoted \cup {fin[c].id}
<1>1. saver[c] = "update" /\ RestOfStore /\ UNCHANGED <<fin, file>>
  BY DEF Store!FinalizeUpdate, RestOfStore
<1>2. CASE Store(P)!EntriesFor(P.KeyOf[c]) = {} /\ Store(P)!Becomes(c, "unlink") /\ UNCHANGED <<lru, promoted>>
  BY <1>1, <1>2 DEF Store!EntriesFor, Store!Becomes, KeysListed, Goes
<1>3. CASE Store(P)!Becomes(c, "failed") /\ UNCHANGED <<lru, promoted>>
  BY <1>1, <1>3 DEF Store!Becomes, KeysListed, Goes
<1>4. CASE /\ \E i \in Store(P)!EntriesFor(P.KeyOf[c]) : lru' = Store(P)!Repoint(c, i)
           /\ promoted' = promoted \cup {fin[c].id} /\ Store(P)!Becomes(c, "unlink")
  <2>1. PICK i \in DOMAIN lru : lru[i].key = P.KeyOf[c] /\ lru' = Append(Store(P)!RemoveAt(lru, i), Store(P)!NewEntry(c))
    BY <1>4 DEF Store!EntriesFor, Store!Repoint
  <2>2. lru \in Seq(Entry(P)) /\ Store(P)!NewEntry(c) \in Entry(P)
    BY <1>1, EntryTypes
  <2>3. Store(P)!NewEntry(c).key = P.KeyOf[c]
    BY DEF Store!NewEntry
  <2>4. KeysListed' = KeysListed
    BY <2>1, <2>2, <2>3, KeysMove
  <2> QED BY <1>1, <1>4, <2>4 DEF Store!Becomes, Goes
<1> QED BY <1>2, <1>3, <1>4 DEF Store!FinalizeUpdate

LEMMA Inserts ==
  ASSUME NEW P, StoreInv(P), NEW c \in P.Savers, Store(P)!FinalizeInsert(c)
  PROVE  /\ RestOfStore /\ UNCHANGED <<fin, file>>
         /\ \/ Goes(c, "store", "failed") /\ UNCHANGED <<lru, promoted>>
            \/ Goes(c, "store", "drop") /\ promoted' = promoted \cup {fin[c].id} /\ KeysListed' = KeysListed \cup {P.KeyOf[c]}
<1>1. saver[c] = "store" /\ RestOfStore /\ UNCHANGED <<fin, file>>
  BY DEF Store!FinalizeInsert, RestOfStore
<1>2. CASE Store(P)!Becomes(c, "failed") /\ UNCHANGED <<lru, promoted>>
  BY <1>1, <1>2 DEF Store!Becomes, Goes
<1>3. CASE lru' = Append(lru, Store(P)!NewEntry(c)) /\ promoted' = promoted \cup {fin[c].id} /\ Store(P)!Becomes(c, "drop")
  <2>1. lru \in Seq(Entry(P)) /\ Store(P)!NewEntry(c) \in Entry(P)
    BY <1>1, EntryTypes
  <2>2. Store(P)!NewEntry(c).key = P.KeyOf[c]
    BY DEF Store!NewEntry
  <2>3. KeysListed' = KeysListed \cup {P.KeyOf[c]}
    BY <1>3, <2>1, <2>2, KeysAdd
  <2> QED BY <1>1, <1>3, <2>3 DEF Store!Becomes, Goes
<1> QED BY <1>2, <1>3 DEF Store!FinalizeInsert

LEMMA Ends ==
  ASSUME NEW P, NEW c \in P.Savers, Store(P)!FinalizeUnlink(c) \/ Store(P)!FinalizeDrop(c)
  PROVE  /\ RestOfStore /\ UNCHANGED <<fin, lru, promoted>>
         /\ \/ Goes(c, "unlink", "drop")
            \/ Goes(c, "drop", "saved") /\ UNCHANGED file
BY DEF Store!FinalizeUnlink, Store!FinalizeDrop, Store!Becomes, Store!history, RestOfStore, Goes

LEMMA Touches ==
  ASSUME NEW P, StoreInv(P), NEW d \in P.Readers, Store(P)!Lookup(d)
  PROVE  RestOfStore /\ UNCHANGED <<saver, fin, promoted, file>> /\ KeysListed' = KeysListed
<1>1. RestOfStore /\ UNCHANGED <<saver, fin, promoted, file>>
  BY DEF Store!Lookup, RestOfStore, Store!history
<1>2. CASE UNCHANGED lru
  BY <1>1, <1>2 DEF KeysListed
<1>3. CASE \E i \in Store(P)!EntriesFor(P.WantedKey[d]) : lru' = Append(Store(P)!RemoveAt(lru, i), lru[i])
  <2>1. PICK i \in DOMAIN lru : lru' = Append(Store(P)!RemoveAt(lru, i), lru[i])
    BY <1>3 DEF Store!EntriesFor
  <2>2. lru \in Seq(Entry(P)) /\ lru[i] \in Entry(P)
    BY <2>1, EntryTypes
  <2>3. KeysListed' = KeysListed
    BY <2>1, <2>2, KeysMove
  <2> QED BY <1>1, <2>3
<1> QED BY <1>2, <1>3 DEF Store!Lookup

-----------------------------------------------------------------------------
(* Without a collector a key that has an entry keeps one, and who is told "saved" has had one. *)

PromisedInv(P) ==
  P.GcBudget = 0 =>
    /\ budget.gc = 0 /\ gc.step = "idle"
    /\ \A c \in P.Savers : /\ saver[c] = "update" => P.KeyOf[c] \in KeysListed
                           /\ saver[c] \in Later => fin[c].id \in promoted

LEMMA PromisedInitial == ASSUME NEW P, Store(P)!Init PROVE PromisedInv(P)
BY DEF Store!Init, PromisedInv, Later, Store!GcIdle

LEMMA PromiseKept ==
  ASSUME NEW P, PromisedInv(P), gc' = gc, budget'.gc = budget.gc, KeysListed \subseteq KeysListed', promoted \subseteq promoted',
         \A c \in P.Savers : /\ saver'[c] = "update" => saver[c] = "update" \/ P.KeyOf[c] \in KeysListed
                             /\ saver'[c] \in Later => (saver[c] \in Later /\ fin'[c].id = fin[c].id) \/ fin'[c].id \in promoted'
  PROVE  PromisedInv(P)'
BY DEF PromisedInv

LEMMA PromisedStep ==
  ASSUME NEW P, StoreInv(P), PromisedInv(P), [Store(P)!Next]_(Store(P)!vars)
  PROVE  PromisedInv(P)'
<1>0. SUFFICES ASSUME P.GcBudget = 0 PROVE PromisedInv(P)'
  BY DEF PromisedInv
<1>t. saver \in [P.Savers -> Early \cup {"upload", "gone", "failed"} \cup Before \cup Later]
      /\ fin \in [P.Savers -> [id : Ids(P) \cup {0}, finished : Nat, old : Ids(P) \cup {0}]]
  BY DEF StoreInv, Saves, StoreTypes
<1>1. CASE Calm(P)
  <2>1. KeysListed' = KeysListed /\ UNCHANGED <<gc, promoted>> /\ budget'.gc = budget.gc
    BY <1>1 DEF Calm, KeysListed
  <2>2. \A c \in P.Savers : /\ saver'[c] = "update" => saver[c] = "update"
                            /\ saver'[c] \in Later => saver[c] \in Later /\ fin'[c] = fin[c]
    BY <1>1 DEF Calm, Later
  <2> QED BY <2>1, <2>2, PromiseKept
<1>2. ASSUME NEW c \in P.Savers, Store(P)!FinalizeQuery(c) PROVE PromisedInv(P)'
  <2>1. UNCHANGED <<lru, promoted, gc, budget>>
    BY <1>2, Queries DEF RestOfStore
  <2>2. \A b \in P.Savers : /\ saver'[b] = "update" => saver[b] = "update" \/ P.KeyOf[b] \in KeysListed
                            /\ saver'[b] \in Later => saver[b] \in Later /\ fin'[b].id = fin[b].id
    BY <1>2, <1>t, Queries DEF Goes, Later
  <2>3. KeysListed' = KeysListed
    BY <2>1 DEF KeysListed
  <2> QED BY <2>1, <2>2, <2>3, PromiseKept
<1>3. ASSUME NEW c \in P.Savers, Store(P)!FinalizeUpdate(c) PROVE PromisedInv(P)'
  <2>1. UNCHANGED <<gc, budget, fin>> /\ KeysListed' = KeysListed /\ promoted \subseteq promoted'
    BY <1>3, Updates DEF RestOfStore
  <2>2. saver[c] = "update" /\ P.KeyOf[c] \in KeysListed
    BY <1>0, <1>3, Updates DEF Goes, PromisedInv
  <2>3. \/ saver' = [saver EXCEPT ![c] = "failed"]
        \/ saver' = [saver EXCEPT ![c] = "unlink"] /\ fin[c].id \in promoted'
    BY <1>3, <2>2, Updates DEF Goes
  <2>4. \A b \in P.Savers : /\ saver'[b] = "update" => saver[b] = "update"
                            /\ saver'[b] \in Later => saver[b] \in Later \/ fin[b].id \in promoted'
    BY <2>3, <1>t DEF Later
  <2> QED BY <2>1, <2>4, PromiseKept
<1>4. ASSUME NEW c \in P.Savers, Store(P)!FinalizeInsert(c) PROVE PromisedInv(P)'
  <2>1. UNCHANGED <<gc, budget, fin>> /\ promoted \subseteq promoted' /\ KeysListed \subseteq KeysListed'
    BY <1>4, Inserts DEF RestOfStore, KeysListed
  <2>2. \/ saver' = [saver EXCEPT ![c] = "failed"]
        \/ saver' = [saver EXCEPT ![c] = "drop"] /\ fin[c].id \in promoted'
    BY <1>4, Inserts DEF Goes
  <2>3. \A b \in P.Savers : /\ saver'[b] = "update" => saver[b] = "update"
                            /\ saver'[b] \in Later => saver[b] \in Later \/ fin[b].id \in promoted'
    BY <2>2, <1>t DEF Later
  <2> QED BY <2>1, <2>3, PromiseKept
<1>5. ASSUME NEW c \in P.Savers, Store(P)!FinalizeUnlink(c) \/ Store(P)!FinalizeDrop(c) PROVE PromisedInv(P)'
  <2>1. UNCHANGED <<gc, budget, fin, promoted, lru>> /\ (Goes(c, "unlink", "drop") \/ Goes(c, "drop", "saved"))
    BY <1>5, Ends DEF RestOfStore
  <2>2. \A b \in P.Savers : /\ saver'[b] = "update" => saver[b] = "update"
                            /\ saver'[b] \in Later => saver[b] \in Later
    BY <2>1, <1>t DEF Goes, Later
  <2>3. KeysListed' = KeysListed
    BY <2>1 DEF KeysListed
  <2> QED BY <2>1, <2>2, <2>3, PromiseKept
<1>6. ASSUME NEW d \in P.Readers, Store(P)!Lookup(d) PROVE PromisedInv(P)'
  <2>1. UNCHANGED <<saver, fin, promoted, gc, budget>> /\ KeysListed' = KeysListed
    BY <1>6, Touches DEF RestOfStore
  <2> QED BY <2>1, PromiseKept
<1>7. CASE Collecting(P)
  <2>1. budget.gc = 0 /\ gc.step = "idle"
    BY <1>0 DEF PromisedInv
  <2>2. ~Store(P)!GcAge
    BY <2>1 DEF Store!GcAge
  <2>3. ~Store(P)!GcNext /\ ~Store(P)!GcSizes
    BY <2>1 DEF Store!GcNext, Store!GcSizes
  <2>4. ~Store(P)!GcRow /\ ~Store(P)!GcFolder
    BY <2>1 DEF Store!GcRow, Store!GcFolder
  <2> QED BY <1>7, <2>2, <2>3, <2>4 DEF Collecting
<1> QED BY <1>1, <1>2, <1>3, <1>4, <1>5, <1>6, <1>7, StepKinds DEF Deciding

LEMMA PromisedGoal == ASSUME NEW P, PromisedInv(P), P.GcBudget = 0 PROVE Store(P)!SavedIsPromoted
BY DEF PromisedInv, Store!SavedIsPromoted, Later

-----------------------------------------------------------------------------
(* What evict has added up is never more than what is there, while no second save of a key *)
(* removes a folder beside it. *)

Stored(P) == {f \in Ids(P) \X Parts(P) : file[f[1]][f[2]] # "none"}
Elsewhere(P, i) == {f \in Stored(P) : f[1] # i}

LEMMA StoredIsFinite ==
  ASSUME NEW P, Store(P)!StoreAssumption
  PROVE  /\ IsFiniteSet(Stored(P)) /\ Cardinality(Stored(P)) \in Nat
         /\ IsFiniteSet(Stored(P)') /\ Cardinality(Stored(P)') \in Nat
         /\ IsFiniteSet(Parts(P))
         /\ \A i : /\ IsFiniteSet(Elsewhere(P, i)) /\ Cardinality(Elsewhere(P, i)) \in Nat
                   /\ IsFiniteSet(Elsewhere(P, i)') /\ Cardinality(Elsewhere(P, i)') \in Nat
<1>1. IsFiniteSet(Ids(P))
  <2>1. IsFiniteSet(P.Savers) /\ Store(P)!Cardinality(P.Savers) = Cardinality(P.Savers)
    BY DEF Store!StoreAssumption, Store!IsFiniteSet, IsFiniteSet, Store!Cardinality, Cardinality
  <2>2. Cardinality(P.Savers) \in Nat
    BY <2>1, FS_CardinalityType
  <2> QED BY <2>1, <2>2, FS_Interval DEF Ids, Store!Ids
<1>2. IsFiniteSet(Parts(P))
  <2>1. 0 \in Int /\ P.PartCount - 1 \in Int
    BY DEF Store!StoreAssumption
  <2> QED BY <2>1, FS_Interval DEF Parts, Store!Parts
<1>3. IsFiniteSet(Ids(P) \X Parts(P))
  BY <1>1, <1>2, FS_Product
<1>4. Stored(P) \in SUBSET (Ids(P) \X Parts(P)) /\ Stored(P)' \in SUBSET (Ids(P) \X Parts(P))
  BY DEF Stored
<1>5. IsFiniteSet(Stored(P)) /\ IsFiniteSet(Stored(P)')
  BY <1>3, <1>4, FS_Subset
<1>6. \A i : Elsewhere(P, i) \in SUBSET Stored(P) /\ Elsewhere(P, i)' \in SUBSET Stored(P)'
  BY DEF Elsewhere
<1>7. \A i : IsFiniteSet(Elsewhere(P, i)) /\ IsFiniteSet(Elsewhere(P, i)')
  BY <1>5, <1>6, FS_Subset
<1> QED BY <1>2, <1>5, <1>7, FS_CardinalityType

LEMMA Sizes ==
  ASSUME NEW P, Store(P)!StoreAssumption, NEW i \in Ids(P)
  PROVE  /\ Store(P)!TotalBlobSize = Cardinality(Stored(P))
         /\ Store(P)!FolderSize(i) \in Nat
         /\ Cardinality(Stored(P)) - Store(P)!FolderSize(i) <= Cardinality(Elsewhere(P, i))
<1> DEFINE folder == {p \in Parts(P) : file[i][p] # "none"}
           rest == {f \in Stored(P) : f[1] = i}
<1>1. \A S : Store(P)!Cardinality(S) = Cardinality(S)
  BY DEF Store!Cardinality, Cardinality, Store!IsFiniteSet, IsFiniteSet
<1>2. Store(P)!TotalBlobSize = Cardinality(Stored(P)) /\ Store(P)!FolderSize(i) = Cardinality(folder)
  BY <1>1 DEF Store!TotalBlobSize, Store!FolderSize, Stored, Ids, Parts
<1>3. IsFiniteSet(folder) /\ Cardinality(folder) \in Nat
  <2>1. folder \in SUBSET Parts(P)
    OBVIOUS
  <2> HIDE DEF folder
  <2> QED BY <2>1, StoredIsFinite, FS_Subset, FS_CardinalityType
<1>4. [p \in folder |-> <<i, p>>] \in Surjection(folder, rest)
  <2> DEFINE g == [p \in folder |-> <<i, p>>]
  <2>1. \A p \in folder : <<i, p>> \in rest
    BY DEF Stored
  <2>2. \A f \in rest : f[2] \in folder /\ g[f[2]] = f
    BY DEF Stored
  <2> HIDE DEF rest, folder
  <2>3. g \in [folder -> rest] /\ \A f \in rest : \E p \in folder : g[p] = f
    BY <2>1, <2>2
  <2> QED BY <2>3 DEF Surjection
<1>5. Cardinality(rest) <= Cardinality(folder) /\ IsFiniteSet(rest)
  <2> HIDE DEF rest, folder
  <2> QED BY <1>3, <1>4, FS_Surjection
<1>6. Stored(P) = rest \cup Elsewhere(P, i) /\ rest \cap Elsewhere(P, i) = {}
  BY DEF Elsewhere
<1> HIDE DEF rest, folder
<1>7. Cardinality(Stored(P)) = Cardinality(rest) + Cardinality(Elsewhere(P, i)) - Cardinality(rest \cap Elsewhere(P, i))
  BY <1>5, <1>6, StoredIsFinite, FS_Union
<1>8. Cardinality(rest \cap Elsewhere(P, i)) = 0 /\ Cardinality(rest) \in Nat
  BY <1>5, <1>6, FS_EmptySet, FS_CardinalityType
<1> QED BY <1>2, <1>3, <1>5, <1>7, <1>8, StoredIsFinite

LEMMA StoredGrows ==
  ASSUME NEW P, Store(P)!StoreAssumption, FilesKept(P)
  PROVE  /\ Cardinality(Stored(P)) <= Cardinality(Stored(P)')
         /\ \A i : Cardinality(Elsewhere(P, i)) <= Cardinality(Elsewhere(P, i)')
<1>1. Stored(P) \in SUBSET (Stored(P)')
  BY DEF Stored, FilesKept
<1>2. \A i : Elsewhere(P, i) \in SUBSET (Elsewhere(P, i)')
  BY <1>1 DEF Elsewhere
<1> QED BY <1>1, <1>2, StoredIsFinite, FS_Subset

\* A key that is saved once is never found in the rows by its own save, which replaces nothing.
Replaces == {"update", "unlink"}
Done == {"drop", "saved"}
OnceInv(P) ==
  /\ \A c \in P.Savers : saver[c] \notin Replaces
  /\ \A k \in KeysListed : \E c \in P.Savers : k = P.KeyOf[c] /\ saver[c] \in Done
TotalInv(P) ==
  /\ gc.total \in Int /\ gc.size \in BOOLEAN
  /\ gc.size /\ gc.step \in {"scan", "row"} => gc.total <= Cardinality(Stored(P))
  /\ gc.size /\ gc.step = "folder" => gc.total <= Cardinality(Elsewhere(P, gc.id))
  /\ gc.size /\ gc.step = "row" => gc.total > P.MaxParts
EvictInv(P) == Store(P)!KeysDiffer => OnceInv(P) /\ TotalInv(P)

LEMMA EvictInitial == ASSUME NEW P, Store(P)!Init PROVE EvictInv(P)
BY DEF Store!Init, EvictInv, OnceInv, TotalInv, Replaces, KeysListed, Store!GcIdle

LEMMA OnceKept ==
  ASSUME NEW P, OnceInv(P), KeysListed' \subseteq KeysListed,
         \A c \in P.Savers : saver'[c] \notin Replaces /\ (saver[c] \in Done => saver'[c] \in Done)
  PROVE  OnceInv(P)'
BY DEF OnceInv

\* What the fields of the collector have to be, for the invariant to hold after a step.
LEMMA TotalMoves ==
  ASSUME NEW P, NEW s, NEW t \in Int, NEW z \in BOOLEAN, NEW i,
         gc'.step = s, gc'.total = t, gc'.size = z, gc'.id = i,
         z /\ s \in {"scan", "row"} => t <= Cardinality(Stored(P)'),
         z /\ s = "folder" => t <= Cardinality(Elsewhere(P, i)'),
         z /\ s = "row" => t > P.MaxParts
  PROVE  TotalInv(P)'
<1>1. Elsewhere(P, gc.id)' = Elsewhere(P, i)'
  BY DEF Elsewhere
<1> QED BY <1>1 DEF TotalInv

LEMMA TotalKept ==
  ASSUME NEW P, Store(P)!StoreAssumption, TotalInv(P), UNCHANGED gc, FilesKept(P)
  PROVE  TotalInv(P)'
<1>8. gc.total \in Int /\ gc.size \in BOOLEAN
  BY DEF TotalInv
<1>4. PICK s : s = gc.step
  OBVIOUS
<1>5. PICK t \in Int : t = gc.total
  BY <1>8
<1>6. PICK z \in BOOLEAN : z = gc.size
  BY <1>8
<1>7. PICK i : i = gc.id
  OBVIOUS
<1>9. s = gc.step /\ t = gc.total /\ z = gc.size /\ i = gc.id
  BY <1>4, <1>5, <1>6, <1>7
<1>0. gc'.step = s /\ gc'.total = t /\ gc'.size = z /\ gc'.id = i
  BY <1>9
<1>1. z /\ s \in {"scan", "row"} => t <= Cardinality(Stored(P)')
  BY <1>9, StoredGrows, StoredIsFinite DEF TotalInv
<1>2. z /\ s = "folder" => t <= Cardinality(Elsewhere(P, i)')
  BY <1>9, StoredGrows, StoredIsFinite DEF TotalInv
<1>3. z /\ s = "row" => t > P.MaxParts
  BY <1>9 DEF TotalInv
<1> QED BY <1>0, <1>1, <1>2, <1>3, TotalMoves

LEMMA CollectedOnce ==
  ASSUME NEW P, StoreInv(P), OnceInv(P), Collecting(P)
  PROVE  OnceInv(P)'
<1>1. UNCHANGED saver
  BY DEF Collecting, Store!GcAge, Store!GcNext, Store!GcSizes, Store!GcRow, Store!GcFolder
<1>2. KeysListed' \subseteq KeysListed
  <2>1. CASE UNCHANGED lru
    BY <2>1 DEF KeysListed
  <2>2. CASE Store(P)!GcRow
    <3>1. CASE UNCHANGED lru
      BY <3>1 DEF KeysListed
    <3>2. CASE gc.id \in Store(P)!EntryIds /\ lru' = Store(P)!RemoveAt(lru, Store(P)!RowOf(gc.id))
      <4> DEFINE i == Store(P)!RowOf(gc.id)
      <4>1. i \in DOMAIN lru
        BY <3>2 DEF Store!EntryIds, Store!RowOf
      <4>2. lru' = Store(P)!RemoveAt(lru, i)
        BY <3>2
      <4> HIDE DEF i
      <4>3. lru \in Seq(Entry(P)) /\ Distinct(lru)
        BY EntryTypes
      <4>4. \A k \in DOMAIN lru' : \E m \in DOMAIN lru \ {i} : lru'[k] = lru[m]
        BY <4>1, <4>2, <4>3, EntryRemoved
      <4> QED BY <4>4 DEF KeysListed
    <3> QED BY <2>2, <3>1, <3>2 DEF Store!GcRow
  <2> QED BY <2>1, <2>2 DEF Collecting, Store!GcAge, Store!GcNext, Store!GcSizes, Store!GcFolder, Store!tables
<1> QED BY <1>1, <1>2, OnceKept DEF OnceInv

LEMMA CollectedTotal ==
  ASSUME NEW P, Store(P)!StoreAssumption, StoreInv(P), TotalInv(P), Collecting(P)
  PROVE  TotalInv(P)'
<1>g. /\ DOMAIN gc = {"step", "ids", "id", "size", "total"} /\ gc.total \in Int /\ gc.size \in BOOLEAN
      /\ gc.step \in {"row", "folder"} => gc.id \in Ids(P)
  BY DEF StoreInv, Entries, GcInv, TotalInv, Saves, StoreTypes
<1>1. CASE Store(P)!GcAge
  <2>1. gc'.step = "scan" /\ gc'.total = 0 /\ gc'.size = FALSE /\ gc'.id = 0
    BY <1>1 DEF Store!GcAge, Store!GcIdle
  <2>2. PICK z \in BOOLEAN : z = gc'.size
    BY <2>1
  <2>3. gc'.step = "scan" /\ gc'.total = 0 /\ gc'.size = z /\ gc'.id = 0 /\ ~z
    BY <2>1, <2>2
  <2> QED BY <2>2, <2>3, TotalMoves
<1>2. CASE Store(P)!GcNext
  <2>0. UNCHANGED file /\ gc.step = "scan"
    BY <1>2 DEF Store!GcNext, Store!tables
  <2>1. CASE gc' = [gc EXCEPT !.step = Store(P)!After(@), !.id = Head(gc.ids), !.ids = Tail(@)] /\ ~(gc.size /\ Store(P)!Fits(gc.total))
    <3>1. gc'.step = "row" /\ gc'.size = gc.size /\ gc'.total = gc.total
      BY <1>g, <2>0, <2>1 DEF Store!After
    <3>2. gc.size => gc.total > P.MaxParts
      BY <1>g, <2>1 DEF Store!Fits, Store!StoreAssumption
    <3>3. Stored(P)' = Stored(P)
      BY <2>0 DEF Stored
    <3> QED BY <1>g, <2>0, <3>1, <3>2, <3>3 DEF TotalInv
  <2>2. CASE gc' = Store(P)!GcIdle
    BY <2>2 DEF TotalInv, Store!GcIdle
  <2>3. CASE gc' = [gc EXCEPT !.step = "sizes", !.ids = <<>>]
    <3>1. gc'.step = "sizes" /\ gc'.size = gc.size /\ gc'.total = gc.total
      BY <1>g, <2>3
    <3> QED BY <1>g, <3>1 DEF TotalInv
  <2> QED BY <1>2, <2>1, <2>2, <2>3 DEF Store!GcNext
<1>3. CASE Store(P)!GcSizes
  <2>1. UNCHANGED file /\ gc'.step = "scan" /\ gc'.total = Store(P)!TotalBlobSize /\ gc'.size = TRUE /\ gc'.id = gc.id
    BY <1>3, <1>g DEF Store!GcSizes, Store!tables
  <2>2. Store(P)!TotalBlobSize = Cardinality(Stored(P))
    <3>1. \A S : Store(P)!Cardinality(S) = Cardinality(S)
      BY DEF Store!Cardinality, Cardinality, Store!IsFiniteSet, IsFiniteSet
    <3> QED BY <3>1 DEF Store!TotalBlobSize, Stored, Ids, Parts
  <2>3. Stored(P)' = Stored(P)
    BY <2>1 DEF Stored
  <2>4. gc'.total = Cardinality(Stored(P)) /\ Cardinality(Stored(P)) \in Int /\ Cardinality(Stored(P)) <= Cardinality(Stored(P)')
    BY <2>1, <2>2, <2>3, StoredIsFinite
  <2> QED BY <2>1, <2>4, TotalMoves
<1>4. CASE Store(P)!GcRow
  <2> DEFINE total == IF gc.size THEN gc.total - Store(P)!FolderSize(gc.id) ELSE gc.total
  <2>1. UNCHANGED file /\ gc.step = "row" /\ gc' = [gc EXCEPT !.step = Store(P)!After(gc.step), !.total = total]
    BY <1>4 DEF Store!GcRow
  <2>2. gc.id \in Ids(P) /\ Store(P)!After(gc.step) = "folder"
    BY <1>g, <2>1 DEF Store!After
  <2>3. total \in Int /\ (gc.size => total <= Cardinality(Elsewhere(P, gc.id)))
    BY <1>g, <2>1, <2>2, Sizes, StoredIsFinite DEF TotalInv
  <2> HIDE DEF total
  <2>4. gc'.step = "folder" /\ gc'.total = total /\ gc'.size = gc.size /\ gc'.id = gc.id
    BY <1>g, <2>1, <2>2
  <2>8. PICK z, i, t : z \in BOOLEAN /\ z = gc.size /\ i = gc.id /\ t = total
    BY <1>g
  <2>5. gc'.size = z /\ gc'.id = i /\ gc'.total = t /\ t \in Int
    BY <2>3, <2>4, <2>8
  <2>6. z => t <= Cardinality(Elsewhere(P, i))
    BY <2>3, <2>8
  <2>7. Elsewhere(P, i)' = Elsewhere(P, i)
    BY <2>1 DEF Elsewhere, Stored
  <2> QED BY <2>4, <2>8, <2>5, <2>6, <2>7, TotalMoves
<1>5. CASE Store(P)!GcFolder
  <2>1. /\ gc.step = "folder" /\ gc' = [gc EXCEPT !.step = Store(P)!After(@)]
        /\ file' = [file EXCEPT ![gc.id] = [p \in Parts(P) |-> "none"]]
    BY <1>5 DEF Store!GcFolder, Store!RemoveFolder, Parts
  <2>2. gc'.step = "scan" /\ gc'.total = gc.total /\ gc'.size = gc.size
    BY <1>g, <2>1 DEF Store!After
  <2>3. Elsewhere(P, gc.id) \in SUBSET (Stored(P)')
    <3>1. file \in [Ids(P) -> [Parts(P) -> {"none", "torn", "whole"}]]
      BY DEF StoreInv, Saves, StoreTypes
    <3> QED BY <2>1, <3>1 DEF Elsewhere, Stored
  <2>4. Cardinality(Elsewhere(P, gc.id)) <= Cardinality(Stored(P)')
    BY <2>3, StoredIsFinite, FS_Subset
  <2>5. gc.size => gc.total <= Cardinality(Stored(P)')
    BY <1>g, <2>1, <2>4, StoredIsFinite DEF TotalInv
  <2> QED BY <1>g, <2>2, <2>5 DEF TotalInv
<1> QED BY <1>1, <1>2, <1>3, <1>4, <1>5 DEF Collecting

LEMMA EvictStep ==
  ASSUME NEW P, Store(P)!StoreAssumption, StoreInv(P), EvictInv(P), [Store(P)!Next]_(Store(P)!vars)
  PROVE  EvictInv(P)'
<1>0. SUFFICES ASSUME Store(P)!KeysDiffer, OnceInv(P), TotalInv(P) PROVE OnceInv(P)' /\ TotalInv(P)'
  BY DEF EvictInv, Store!KeysDiffer
<1>t. saver \in [P.Savers -> Early \cup {"upload", "gone", "failed"} \cup Before \cup Later]
  BY EntryTypes
<1>1. CASE Calm(P)
  <2>1. KeysListed' = KeysListed /\ FilesKept(P) /\ UNCHANGED gc
    BY <1>1 DEF Calm, KeysListed
  <2>2. \A c \in P.Savers : saver'[c] \notin Replaces /\ (saver[c] \in Done => saver'[c] \in Done)
    BY <1>0, <1>1 DEF Calm, OnceInv, Replaces, Done, Later
  <2> QED BY <1>0, <2>1, <2>2, OnceKept, TotalKept
<1>2. ASSUME NEW c \in P.Savers, Store(P)!FinalizeQuery(c) PROVE OnceInv(P)' /\ TotalInv(P)'
  <2>1. UNCHANGED <<lru, gc, file>> /\ saver[c] = "query"
    BY <1>2, Queries DEF RestOfStore, Goes
  <2>2. P.KeyOf[c] \notin KeysListed
    BY <1>0, <2>1 DEF OnceInv, Store!KeysDiffer, Done
  <2>3. saver' = [saver EXCEPT ![c] = "store"]
    BY <1>2, <2>2, Queries DEF Goes
  <2>4. \A b \in P.Savers : saver'[b] \notin Replaces /\ (saver[b] \in Done => saver'[b] \in Done)
    BY <1>0, <1>t, <2>1, <2>3 DEF OnceInv, Replaces, Done
  <2>5. KeysListed' = KeysListed /\ FilesKept(P)
    BY <2>1 DEF KeysListed, FilesKept
  <2> QED BY <1>0, <2>1, <2>4, <2>5, OnceKept, TotalKept
<1>3. ASSUME NEW c \in P.Savers, Store(P)!FinalizeInsert(c) PROVE OnceInv(P)' /\ TotalInv(P)'
  <2>1. UNCHANGED <<gc, file>> /\ saver[c] = "store"
    BY <1>3, Inserts DEF RestOfStore, Goes
  <2>2. FilesKept(P)
    BY <2>1 DEF FilesKept
  <2>3. CASE Goes(c, "store", "failed") /\ UNCHANGED lru
    <3>1. \A b \in P.Savers : saver'[b] \notin Replaces /\ (saver[b] \in Done => saver'[b] \in Done)
      BY <1>0, <1>t, <2>3 DEF OnceInv, Replaces, Done, Goes
    <3>2. KeysListed' = KeysListed
      BY <2>3 DEF KeysListed
    <3> QED BY <1>0, <2>1, <2>2, <3>1, <3>2, OnceKept, TotalKept
  <2>4. CASE Goes(c, "store", "drop") /\ KeysListed' = KeysListed \cup {P.KeyOf[c]}
    <3>1. \A b \in P.Savers : saver'[b] \notin Replaces /\ (saver[b] \in Done => saver'[b] \in Done) /\ (b = c => saver'[b] \in Done)
      BY <1>0, <1>t, <2>4 DEF OnceInv, Replaces, Done, Goes
    <3>2. \A k \in KeysListed' : \E b \in P.Savers : k = P.KeyOf[b] /\ saver'[b] \in Done
      BY <1>0, <2>4, <3>1 DEF OnceInv
    <3> QED BY <1>0, <2>1, <2>2, <3>1, <3>2, TotalKept DEF OnceInv
  <2> QED BY <1>3, <2>3, <2>4, Inserts
<1>4. ASSUME NEW c \in P.Savers, Store(P)!FinalizeUpdate(c) \/ Store(P)!FinalizeUnlink(c) PROVE FALSE
  BY <1>0, <1>4 DEF OnceInv, Replaces, Store!FinalizeUpdate, Store!FinalizeUnlink
<1>5. ASSUME NEW c \in P.Savers, Store(P)!FinalizeDrop(c) PROVE OnceInv(P)' /\ TotalInv(P)'
  <2>1. UNCHANGED <<gc, lru, file>> /\ saver' = [saver EXCEPT ![c] = "saved"]
    BY <1>5 DEF Store!FinalizeDrop, Store!Becomes
  <2>2. \A b \in P.Savers : saver'[b] \notin Replaces /\ (saver[b] \in Done => saver'[b] \in Done)
    BY <1>0, <1>t, <2>1 DEF OnceInv, Replaces, Done
  <2>3. KeysListed' = KeysListed /\ FilesKept(P)
    BY <2>1 DEF KeysListed, FilesKept
  <2> QED BY <1>0, <2>1, <2>2, <2>3, OnceKept, TotalKept
<1>6. ASSUME NEW d \in P.Readers, Store(P)!Lookup(d) PROVE OnceInv(P)' /\ TotalInv(P)'
  <2>1. UNCHANGED <<saver, gc, file>> /\ KeysListed' = KeysListed
    BY <1>6, Touches DEF RestOfStore
  <2>2. FilesKept(P) /\ \A b \in P.Savers : saver'[b] \notin Replaces
    BY <1>0, <2>1 DEF FilesKept, OnceInv
  <2> QED BY <1>0, <2>1, <2>2, OnceKept, TotalKept
<1>7. CASE Collecting(P)
  BY <1>0, <1>7, CollectedOnce, CollectedTotal
<1> QED BY <1>1, <1>2, <1>3, <1>4, <1>5, <1>6, <1>7, StepKinds DEF Deciding

LEMMA EvictGoal ==
  ASSUME NEW P, Store(P)!StoreAssumption, StoreInv(P), EvictInv(P), Store(P)!KeysDiffer
  PROVE  Store(P)!EvictionIsNeeded
<1> SUFFICES ASSUME gc.step = "row", gc.size PROVE Store(P)!TotalBlobSize > P.MaxParts
  BY DEF Store!EvictionIsNeeded
<1>1. gc.total <= Cardinality(Stored(P)) /\ gc.total > P.MaxParts /\ gc.total \in Int /\ gc.id \in Ids(P)
  BY DEF EvictInv, TotalInv, StoreInv, Entries, GcInv, Saves, StoreTypes
<1> QED BY <1>1, Sizes, StoredIsFinite DEF Store!StoreAssumption

-----------------------------------------------------------------------------
(* The golden image. *)

Phases == {"down", "check", "install", "exited", "verified", "rearm", "rearmed", "ping", "serving"}
Metas(P) == [kind : {"meta"}, created : Int, rearms : Nat, hash : P.Tools, licensed : BOOLEAN]
IsMeta == meta.kind = "meta"

GoldenTypes(P) ==
  /\ phase \in Phases /\ begun \in BOOLEAN /\ want \in P.Tools /\ iso \in BOOLEAN /\ licensed \in BOOLEAN
  /\ image \in P.Tools \cup {"absent", "blank", "half"} /\ today \in Nat /\ rearmed \in Nat /\ mishaps \in Nat
  /\ IsMeta => meta \in Metas(P)
\* The marker in the log is of the bake under way.
MarkerIsFresh ==
  /\ phase \in {"install", "exited"} /\ serial = "ok" => image = want /\ rearmed = 0
  /\ phase = "verified" => image = want /\ rearmed = 0
\* A rearm is for the image of the record, which has one left.
RearmIsDue(P) ==
  phase \in {"rearm", "rearmed"} => IsMeta /\ (iso => want = meta.hash) /\ meta.rearms < P.MaxRearms
\* A bake under way is not recorded yet; without one the record describes the disk.
RecordHolds(P) ==
  /\ phase \in {"install", "exited", "verified"} => begun
  /\ Golden(P)!RecordIsTrue
\* A rearm is recorded, is being recorded, or was lost to a crash or an error.
RearmsAreRecorded(P) ==
  /\ IsMeta => /\ meta.rearms <= P.MaxRearms
               /\ rearmed <= meta.rearms + mishaps + (IF phase = "rearmed" THEN 1 ELSE 0)
  /\ rearmed <= P.MaxRearms + mishaps
GoldenInv(P) ==
  /\ GoldenTypes(P) /\ MarkerIsFresh /\ RearmIsDue(P) /\ RearmsAreRecorded(P)
  /\ RecordHolds(P) /\ Golden(P)!CheckConverges

LEMMA GoldenInitial == ASSUME NEW P, Golden(P)!GoldenAssumption, Golden(P)!Init PROVE GoldenInv(P)
<1>1. phase = "down" /\ ~IsMeta /\ rearmed = 0 /\ mishaps = 0 /\ P.MaxRearms \in Nat
  BY DEF Golden!Init, Golden!Absent, IsMeta, Golden!GoldenAssumption
<1>2. GoldenTypes(P)
  <2>1. phase \in Phases /\ begun \in BOOLEAN /\ want \in P.Tools /\ iso \in BOOLEAN /\ licensed \in BOOLEAN
    BY Zenon DEF Golden!Init, Phases
  <2>2. image = "absent" /\ today \in Nat /\ rearmed \in Nat /\ mishaps \in Nat
    BY DEF Golden!Init
  <2> QED BY <1>1, <2>1, <2>2, Zenon DEF GoldenTypes
<1>3. MarkerIsFresh /\ RearmIsDue(P) /\ RecordHolds(P) /\ Golden(P)!CheckConverges
  BY <1>1 DEF MarkerIsFresh, RearmIsDue, RecordHolds, Golden!RecordIsTrue, Golden!CheckConverges, IsMeta
<1>4. RearmsAreRecorded(P)
  BY <1>1 DEF RearmsAreRecorded
<1> QED BY <1>2, <1>3, <1>4 DEF GoldenInv

\* Nothing changes but where the process is, and that is nothing the invariant looks at.
LEMMA GoldenMoves ==
  ASSUME NEW P, GoldenInv(P), UNCHANGED <<want, iso, licensed, image, meta, rearmed, today, begun, mishaps>>,
         phase' \in {"down", "check", "serving", "ping"}, phase # "rearmed",
         phase' = "ping" /\ checked' /\ IsMeta => Golden(P)!Decide(meta) = "none"
  PROVE  GoldenInv(P)'
<1>1. GoldenTypes(P)'
  BY DEF GoldenInv, GoldenTypes, IsMeta, Phases, Metas
<1>2. MarkerIsFresh'
  BY DEF MarkerIsFresh
<1>3. RearmIsDue(P)'
  BY DEF RearmIsDue
<1>4. RearmsAreRecorded(P)'
  BY DEF GoldenInv, RearmsAreRecorded, IsMeta
<1>5. Golden(P)!CheckConverges'
  BY DEF Golden!CheckConverges, IsMeta, Golden!Decide, Golden!DaysLeft
<1>6. RecordHolds(P)'
  BY DEF GoldenInv, RecordHolds, Golden!RecordIsTrue
<1> QED BY <1>1, <1>2, <1>3, <1>4, <1>5, <1>6 DEF GoldenInv

LEMMA GoldenChecks ==
  ASSUME NEW P, Golden(P)!GoldenAssumption, GoldenInv(P), Golden(P)!CheckOnce
  PROVE  GoldenInv(P)'
<1>0. phase = "check" /\ UNCHANGED <<want, iso, licensed, meta, rearmed, today, mishaps>>
  BY DEF Golden!CheckOnce, Golden!config
<1>1. CASE ~IsMeta \/ Golden(P)!Decide(meta) = "none" \/ (Golden(P)!Decide(meta) = "rebuild" /\ ~iso)
  <2>1. UNCHANGED <<image, begun>> /\ phase' \in {"down", "ping"}
    BY <1>1 DEF Golden!CheckOnce, Golden!Ends, IsMeta
  <2>2. phase' = "ping" /\ checked' /\ IsMeta => Golden(P)!Decide(meta) = "none"
    BY <1>1 DEF Golden!CheckOnce, Golden!Ends, IsMeta
  <2> QED BY <1>0, <2>1, <2>2, GoldenMoves
<1>2. CASE IsMeta /\ Golden(P)!Decide(meta) = "rearm"
  <2>1. phase' = "rearm" /\ UNCHANGED <<image, begun>>
    BY <1>2 DEF Golden!CheckOnce, Golden!Ends, IsMeta
  <2>2. (iso => want = meta.hash) /\ meta.rearms < P.MaxRearms
    BY <1>2 DEF Golden!Decide
  <2>3. GoldenTypes(P)'
    BY <1>0, <2>1 DEF GoldenInv, GoldenTypes, IsMeta, Phases, Metas
  <2>4. MarkerIsFresh' /\ RearmIsDue(P)' /\ Golden(P)!CheckConverges' /\ RecordHolds(P)'
    BY <1>0, <1>2, <2>1, <2>2
    DEF MarkerIsFresh, RearmIsDue, IsMeta, Golden!CheckConverges, GoldenInv, RecordHolds, Golden!RecordIsTrue
  <2>5. RearmsAreRecorded(P)'
    BY <1>0, <2>1 DEF GoldenInv, RearmsAreRecorded, IsMeta
  <2> QED BY <2>3, <2>4, <2>5 DEF GoldenInv
<1>3. CASE IsMeta /\ Golden(P)!Decide(meta) = "rebuild" /\ iso
  <2>1. phase' = "install" /\ image' = "blank" /\ serial' = "none" /\ begun'
    BY <1>3 DEF Golden!CheckOnce, Golden!Create, IsMeta
  <2>3. GoldenTypes(P)'
    BY <1>0, <2>1 DEF GoldenInv, GoldenTypes, IsMeta, Phases, Metas
  <2>4. MarkerIsFresh' /\ RearmIsDue(P)' /\ Golden(P)!CheckConverges' /\ RecordHolds(P)'
    BY <1>0, <2>1 DEF MarkerIsFresh, RearmIsDue, Golden!CheckConverges, RecordHolds, Golden!RecordIsTrue
  <2>5. RearmsAreRecorded(P)'
    BY <1>0, <2>1 DEF GoldenInv, RearmsAreRecorded, IsMeta
  <2> QED BY <2>3, <2>4, <2>5 DEF GoldenInv
<1> QED BY <1>1, <1>2, <1>3 DEF Golden!Decide, GoldenInv, GoldenTypes

LEMMA GoldenBakes ==
  ASSUME NEW P, Golden(P)!GoldenAssumption, GoldenInv(P),
         Golden(P)!Prepare \/ Golden(P)!Install \/ Golden(P)!QEMUExits \/ Golden(P)!Verify
  PROVE  GoldenInv(P)'
<1>0. /\ UNCHANGED <<want, iso, licensed, meta, today, mishaps>> /\ rearmed' \in {rearmed, 0} /\ phase # "rearmed"
      /\ begun' \in BOOLEAN
  BY DEF Golden!Prepare, Golden!Create, Golden!Install, Golden!QEMUExits, Golden!Verify, Golden!config, Golden!disk,
         GoldenInv, GoldenTypes
<1>1. CASE phase' \in {"down", "ping"}
  <2>1. UNCHANGED <<image, rearmed, begun>> /\ (phase' = "ping" => ~checked')
    BY <1>1 DEF Golden!Prepare, Golden!Install, Golden!QEMUExits, Golden!Verify, Golden!disk, Golden!Ends
  <2> QED BY <1>0, <1>1, <2>1, GoldenMoves
<1>2. CASE phase' \in {"install", "exited", "verified"}
  <2>1. image' \in P.Tools \cup {"absent", "blank", "half"}
    BY DEF Golden!Prepare, Golden!Create, Golden!Install, Golden!QEMUExits, Golden!Verify, Golden!disk, GoldenInv, GoldenTypes
  <2>2. GoldenTypes(P)'
    BY <1>0, <1>2, <2>1 DEF GoldenInv, GoldenTypes, IsMeta, Phases, Metas
  <2>3. MarkerIsFresh'
    <3>1. CASE Golden(P)!Prepare
      BY <3>1 DEF Golden!Prepare, Golden!Create, MarkerIsFresh
    <3>2. CASE Golden(P)!Install
      BY <1>0, <3>2 DEF Golden!Install, MarkerIsFresh, GoldenInv, GoldenTypes, Golden!GoldenAssumption
    <3>3. CASE Golden(P)!QEMUExits
      BY <1>0, <1>2, <3>3 DEF Golden!QEMUExits, Golden!disk, Golden!Ends, MarkerIsFresh, GoldenInv
    <3>4. CASE Golden(P)!Verify
      BY <1>0, <1>2, <3>4 DEF Golden!Verify, Golden!disk, Golden!Ends, MarkerIsFresh, GoldenInv
    <3> QED BY <3>1, <3>2, <3>3, <3>4
  <2>4. RearmIsDue(P)' /\ Golden(P)!CheckConverges'
    BY <1>2 DEF RearmIsDue, Golden!CheckConverges
  <2>5. RearmsAreRecorded(P)'
    BY <1>0, <1>2 DEF GoldenInv, RearmsAreRecorded, IsMeta, GoldenTypes, Metas, Golden!GoldenAssumption
  <2>6. RecordHolds(P)'
    <3>1. begun' = TRUE
      <4>1. CASE Golden(P)!Prepare
        BY <4>1 DEF Golden!Prepare, Golden!Create
      <4>2. CASE phase \in {"install", "exited"} /\ UNCHANGED begun
        BY <4>2 DEF GoldenInv, GoldenTypes, RecordHolds
      <4> QED BY <4>1, <4>2 DEF Golden!Install, Golden!QEMUExits, Golden!Verify
    <3> QED BY <3>1 DEF RecordHolds, Golden!RecordIsTrue
  <2> QED BY <2>2, <2>3, <2>4, <2>5, <2>6 DEF GoldenInv
<1> QED BY <1>1, <1>2 DEF Golden!Prepare, Golden!Install, Golden!QEMUExits, Golden!Verify, Golden!Ends

LEMMA GoldenRecords ==
  ASSUME NEW P, Golden(P)!GoldenAssumption, GoldenInv(P), Golden(P)!SaveBaked \/ Golden(P)!SaveRearm
  PROVE  GoldenInv(P)'
<1>0. /\ UNCHANGED <<want, iso, licensed, image, rearmed, today>> /\ phase' \in {"down", "ping"}
      /\ GoldenTypes(P) /\ mishaps' \in {mishaps, mishaps + 1} /\ begun' \in BOOLEAN
  BY DEF Golden!SaveBaked, Golden!SaveRearm, Golden!SaveMetaFails, Golden!Mishap, Golden!Ends, Golden!config, GoldenInv, GoldenTypes
<1>6. MarkerIsFresh' /\ RearmIsDue(P)'
  BY <1>0 DEF MarkerIsFresh, RearmIsDue
<1>1. ASSUME Golden(P)!SaveMetaFails, UNCHANGED begun, phase = "rearmed" => mishaps' = mishaps + 1
      PROVE  GoldenInv(P)'
  <2>1. ~checked' /\ (meta' = meta \/ meta' = [kind |-> "cut"])
    BY <1>1 DEF Golden!SaveMetaFails, Golden!Ends, Golden!CutShort
  <2>2. GoldenTypes(P)'
    BY <1>0, <2>1 DEF GoldenTypes, IsMeta, Metas, Phases
  <2>3. RearmsAreRecorded(P)'
    BY <1>0, <1>1, <2>1 DEF GoldenInv, RearmsAreRecorded, IsMeta, Metas, GoldenTypes, Golden!GoldenAssumption
  <2>4. RecordHolds(P)' /\ Golden(P)!CheckConverges'
    BY <1>0, <1>1, <2>1 DEF GoldenInv, RecordHolds, Golden!RecordIsTrue, Golden!CheckConverges
  <2> QED BY <1>6, <2>2, <2>3, <2>4 DEF GoldenInv
<1>2. ASSUME /\ meta' \in Metas(P) /\ meta'.created = today /\ (iso => want = meta'.hash) /\ UNCHANGED mishaps
             /\ meta'.rearms <= P.MaxRearms /\ rearmed <= meta'.rearms + mishaps /\ (~begun' => image = meta'.hash)
      PROVE  GoldenInv(P)'
  <2>1. GoldenTypes(P)'
    BY <1>0, <1>2 DEF GoldenTypes, IsMeta, Metas, Phases
  <2>2. RearmsAreRecorded(P)'
    <3>1. rearmed <= P.MaxRearms + mishaps
      BY DEF GoldenInv, RearmsAreRecorded
    <3> QED BY <1>0, <1>2, <3>1 DEF RearmsAreRecorded, IsMeta, Metas, GoldenTypes
  <2>3. Golden(P)!CheckConverges'
    BY <1>0, <1>2 DEF Golden!CheckConverges, Golden!Decide, Golden!DaysLeft, GoldenTypes, Metas, Golden!GoldenAssumption
  <2>4. RecordHolds(P)'
    BY <1>0, <1>2 DEF RecordHolds, Golden!RecordIsTrue
  <2> QED BY <1>6, <2>1, <2>2, <2>3, <2>4 DEF GoldenInv
<1>3. ASSUME Golden(P)!SaveBaked, meta' = Golden(P)!Baked PROVE GoldenInv(P)'
  <2>1. UNCHANGED mishaps /\ image = want /\ rearmed = 0
    BY <1>3 DEF Golden!SaveBaked, GoldenInv, MarkerIsFresh
  <2> QED BY <1>0, <1>2, <1>3, <2>1 DEF Golden!Baked, Metas, GoldenTypes, Golden!GoldenAssumption
<1>4. ASSUME Golden(P)!SaveRearm, meta' = Golden(P)!ApplyRearm(meta), UNCHANGED mishaps PROVE GoldenInv(P)'
  <2>1. meta \in Metas(P) /\ meta' = [meta EXCEPT !.created = today, !.rearms = @ + 1] /\ phase = "rearmed" /\ UNCHANGED begun
    BY <1>4 DEF Golden!SaveRearm, Golden!ApplyRearm, GoldenInv, GoldenTypes, RearmIsDue
  <2>2. /\ meta.created \in Int /\ meta.rearms + 1 \in Nat /\ today \in Int
        /\ DOMAIN meta = {"kind", "created", "rearms", "hash", "licensed"}
    BY <1>0, <2>1 DEF Metas, GoldenTypes
  <2>3. meta' \in Metas(P) /\ meta'.created = today /\ meta'.hash = meta.hash /\ meta'.rearms = meta.rearms + 1
    BY <2>1, <2>2 DEF Metas
  <2>4. /\ meta.rearms \in Nat /\ meta.rearms < P.MaxRearms /\ rearmed <= meta.rearms + mishaps + 1
        /\ (iso => want = meta.hash) /\ (~begun => image = meta.hash)
    BY <2>1 DEF GoldenInv, RearmIsDue, RearmsAreRecorded, IsMeta, Metas, RecordHolds, Golden!RecordIsTrue
  <2>5. meta'.rearms <= P.MaxRearms /\ rearmed <= meta'.rearms + mishaps
    BY <1>0, <2>3, <2>4 DEF GoldenTypes, Golden!GoldenAssumption
  <2> QED BY <1>0, <1>2, <1>4, <2>1, <2>3, <2>4, <2>5
<1>5. CASE Golden(P)!SaveBaked
  <2>1. phase = "verified"
    BY <1>5 DEF Golden!SaveBaked
  <2> QED BY <1>1, <1>3, <1>5, <2>1 DEF Golden!SaveBaked
<1>7. CASE Golden(P)!SaveRearm
  BY <1>1, <1>4, <1>7 DEF Golden!SaveRearm, Golden!Mishap
<1> QED BY <1>5, <1>7

\* A rearm that was not recorded: the image and its record are as they were.
LEMMA GoldenLoses ==
  ASSUME NEW P, Golden(P)!GoldenAssumption, GoldenInv(P), phase' \in {"down", "ping"}, ~checked',
         UNCHANGED <<want, iso, licensed, image, today, begun>>, mishaps' = mishaps + 1,
         meta' = meta \/ meta' = [kind |-> "cut"],
         rearmed' = rearmed \/ (phase # "rearmed" /\ rearmed' = rearmed + 1 /\ IsMeta)
  PROVE  GoldenInv(P)'
<1>1. GoldenTypes(P)'
  BY DEF GoldenInv, GoldenTypes, IsMeta, Phases, Metas
<1>2. MarkerIsFresh' /\ RearmIsDue(P)' /\ Golden(P)!CheckConverges' /\ RecordHolds(P)'
  BY DEF MarkerIsFresh, RearmIsDue, Golden!CheckConverges, GoldenInv, RecordHolds, Golden!RecordIsTrue
<1>3. RearmsAreRecorded(P)'
  <2>1. rearmed' <= P.MaxRearms + mishaps'
    BY DEF GoldenInv, GoldenTypes, RearmsAreRecorded, Golden!GoldenAssumption
  <2>2. IsMeta' => IsMeta /\ meta' = meta
    BY DEF IsMeta
  <2>3. IsMeta => meta.rearms \in Nat /\ meta.rearms <= P.MaxRearms /\ rearmed' <= meta.rearms + mishaps'
    BY DEF GoldenInv, GoldenTypes, RearmsAreRecorded, Metas
  <2> QED BY <2>1, <2>2, <2>3 DEF RearmsAreRecorded, GoldenInv, GoldenTypes
<1> QED BY <1>1, <1>2, <1>3 DEF GoldenInv

LEMMA GoldenRearms ==
  ASSUME NEW P, Golden(P)!GoldenAssumption, GoldenInv(P), Golden(P)!Rearm
  PROVE  GoldenInv(P)'
<1>0. phase = "rearm" /\ UNCHANGED <<want, iso, licensed, image, meta, today, begun>> /\ IsMeta
  BY DEF Golden!Rearm, Golden!config, GoldenInv, RearmIsDue
<1>1. CASE phase' = "rearmed" /\ rearmed' = rearmed + 1 /\ UNCHANGED mishaps
  <2>1. GoldenTypes(P)'
    BY <1>0, <1>1 DEF GoldenInv, GoldenTypes, IsMeta, Phases, Metas
  <2>2. MarkerIsFresh' /\ RearmIsDue(P)' /\ Golden(P)!CheckConverges' /\ RecordHolds(P)'
    BY <1>0, <1>1
    DEF GoldenInv, MarkerIsFresh, RearmIsDue, IsMeta, Golden!CheckConverges, RecordHolds, Golden!RecordIsTrue
  <2>3. RearmsAreRecorded(P)'
    BY <1>0, <1>1 DEF GoldenInv, GoldenTypes, RearmIsDue, RearmsAreRecorded, IsMeta, Metas, Golden!GoldenAssumption
  <2> QED BY <2>1, <2>2, <2>3 DEF GoldenInv
<1>2. CASE Golden(P)!Ends(FALSE) /\ UNCHANGED <<rearmed, mishaps>>
  BY <1>0, <1>2, GoldenMoves DEF Golden!Ends
<1>3. CASE Golden(P)!Ends(FALSE) /\ rearmed' = rearmed + 1 /\ Golden(P)!Mishap
  BY <1>0, <1>3, GoldenLoses DEF Golden!Ends, Golden!Mishap
<1> QED BY <1>1, <1>2, <1>3 DEF Golden!Rearm

LEMMA GoldenCrashes ==
  ASSUME NEW P, Golden(P)!GoldenAssumption, GoldenInv(P), Golden(P)!Crash
  PROVE  GoldenInv(P)'
<1>1. /\ phase' = "down" /\ mishaps' = mishaps + 1 /\ UNCHANGED <<want, iso, licensed, image, today, begun>> /\ ~checked'
      /\ meta' = meta \/ meta' = [kind |-> "cut"]
  BY DEF Golden!Crash, Golden!Mishap, Golden!config, Golden!CutShort
<1>2. rearmed' = rearmed \/ (phase # "rearmed" /\ rearmed' = rearmed + 1 /\ IsMeta)
  BY DEF Golden!Crash, GoldenInv, RearmIsDue
<1> QED BY <1>1, <1>2, GoldenLoses

LEMMA GoldenAges ==
  ASSUME NEW P, Golden(P)!GoldenAssumption, GoldenInv(P), Golden(P)!Edit \/ Golden(P)!Day
  PROVE  GoldenInv(P)'
<1>0. /\ UNCHANGED <<phase, licensed, image, meta, rearmed, begun, mishaps>> /\ phase \in {"down", "serving"}
      /\ want' \in P.Tools /\ iso' \in BOOLEAN /\ today' \in Nat
  BY DEF Golden!Edit, Golden!Day, Golden!config, Golden!disk, GoldenInv, GoldenTypes
<1>1. GoldenTypes(P)'
  BY <1>0 DEF GoldenInv, GoldenTypes, IsMeta, Phases, Metas
<1>2. MarkerIsFresh' /\ RearmIsDue(P)' /\ Golden(P)!CheckConverges' /\ RecordHolds(P)'
  BY <1>0 DEF MarkerIsFresh, RearmIsDue, Golden!CheckConverges, GoldenInv, RecordHolds, Golden!RecordIsTrue
<1>3. RearmsAreRecorded(P)'
  BY <1>0 DEF GoldenInv, RearmsAreRecorded, IsMeta
<1> QED BY <1>1, <1>2, <1>3 DEF GoldenInv

LEMMA GoldenStep ==
  ASSUME NEW P, Golden(P)!GoldenAssumption, GoldenInv(P), [Golden(P)!Next]_(Golden(P)!vars)
  PROVE  GoldenInv(P)'
<1>1. ASSUME Golden(P)!Start \/ Golden(P)!Ping \/ Golden(P)!Stop PROVE GoldenInv(P)'
  <2>1. /\ UNCHANGED <<want, iso, licensed, image, meta, rearmed, today, begun, mishaps>>
        /\ phase' \in {"down", "check", "serving"} /\ phase # "rearmed"
    BY <1>1 DEF Golden!Start, Golden!Ping, Golden!Stop, Golden!config, Golden!disk
  <2> QED BY <2>1, GoldenMoves
<1>2. ASSUME UNCHANGED Golden(P)!vars PROVE GoldenInv(P)'
  BY <1>2 DEF Golden!vars, GoldenInv, GoldenTypes, MarkerIsFresh, RearmIsDue, RearmsAreRecorded, IsMeta, Metas,
              RecordHolds, Golden!RecordIsTrue, Golden!CheckConverges, Golden!Decide, Golden!DaysLeft
<1> QED BY <1>1, <1>2, GoldenChecks, GoldenBakes, GoldenRecords, GoldenRearms, GoldenCrashes, GoldenAges DEF Golden!Next

LEMMA GoldenGoal == ASSUME NEW P, GoldenInv(P) PROVE Golden(P)!RecordIsTrue /\ Golden(P)!CheckConverges /\ Golden(P)!RearmsAreBounded
BY DEF GoldenInv, RecordHolds, RearmsAreRecorded, IsMeta, Golden!RearmsAreBounded

-----------------------------------------------------------------------------
(* The inputs of the golden image. *)

Chosen(P) == tools \in Seq(Inputs(P)!Selectors)
PlanInv(P) == Chosen(P) /\ manifest \in Inputs(P)!Manifests
Asked(P) == Inputs(P)!normalizeTools
LinesOf(P) == Inputs(P)!Selected("buildtools")

LEMMA PlanInitial == ASSUME NEW P, Inputs(P)!Init PROVE PlanInv(P)
BY DEF Inputs!Init, PlanInv, Chosen

LEMMA AskedIs == ASSUME NEW P PROVE Asked(P) = {tools[i] : i \in DOMAIN tools}
BY DEF Asked, Inputs!normalizeTools, Inputs!Range

\* A selector more, or one that is there already.
LEMMA ToolAdded ==
  ASSUME NEW P, Chosen(P), NEW s \in Inputs(P)!Selectors, tools' = Append(tools, s)
  PROVE  Chosen(P)' /\ Asked(P)' = Asked(P) \cup {s}
<1>1. /\ Len(tools) \in Nat /\ Len(tools') = Len(tools) + 1 /\ DOMAIN tools = 1..Len(tools) /\ DOMAIN tools' = 1..Len(tools) + 1
      /\ tools' \in Seq(Inputs(P)!Selectors)
      /\ \A i \in 1..Len(tools) : tools'[i] = tools[i]
      /\ tools'[Len(tools) + 1] = s
  BY DEF Chosen
<1>2. {tools'[i] : i \in DOMAIN tools'} = {tools[i] : i \in DOMAIN tools} \cup {s}
  BY <1>1
<1>3. Asked(P)' = {tools'[i] : i \in DOMAIN tools'}
  BY DEF Asked, Inputs!normalizeTools, Inputs!Range
<1> QED BY <1>1, <1>2, <1>3, AskedIs DEF Chosen

LEMMA ToolsReversed ==
  ASSUME NEW P, Chosen(P), Inputs(P)!Reorder
  PROVE  Chosen(P)' /\ Asked(P)' = Asked(P)
<1> DEFINE n == Len(tools)
<1>1. n \in Nat /\ DOMAIN tools = 1..n /\ tools' = [i \in 1..n |-> tools[n + 1 - i]] /\ tools \in Seq(Inputs(P)!Selectors)
  BY DEF Chosen, Inputs!Reorder
<1>2. \A i \in 1..n : tools[i] \in Inputs(P)!Selectors
  BY <1>1
<1> HIDE DEF n
<1>3. \A i \in 1..n : n + 1 - i \in 1..n /\ n + 1 - (n + 1 - i) = i
  BY <1>1
<1>4. tools' \in Seq(Inputs(P)!Selectors) /\ DOMAIN tools' = 1..n
  BY <1>1, <1>2, <1>3
<1>5. \A i \in 1..n : tools'[i] = tools[n + 1 - i] /\ tools[i] = tools'[n + 1 - i]
  BY <1>1, <1>3
<1>6. {tools'[i] : i \in 1..n} = {tools[i] : i \in 1..n}
  BY <1>3, <1>5
<1>7. Asked(P)' = {tools'[i] : i \in DOMAIN tools'}
  BY DEF Asked, Inputs!normalizeTools, Inputs!Range
<1> QED BY <1>1, <1>4, <1>6, <1>7, AskedIs DEF Chosen

LEMMA FirstRepeated ==
  ASSUME NEW P, Chosen(P), Inputs(P)!Repeat
  PROVE  Chosen(P)' /\ Asked(P)' = Asked(P)
<1>1. tools' = Append(tools, tools[1]) /\ 1 \in DOMAIN tools /\ tools[1] \in Inputs(P)!Selectors
  BY DEF Chosen, Inputs!Repeat
<1>2. PICK s \in Inputs(P)!Selectors : s = tools[1]
  BY <1>1
<1>3. s \in Asked(P) /\ tools' = Append(tools, s)
  BY <1>1, <1>2, AskedIs
<1>4. Chosen(P)' /\ Asked(P)' = Asked(P) \cup {s}
  BY <1>3, ToolAdded
<1> QED BY <1>3, <1>4

LEMMA PlanStep ==
  ASSUME NEW P, PlanInv(P), [Inputs(P)!Next]_(Inputs(P)!vars)
  PROVE  PlanInv(P)'
<1>1. Chosen(P)'
  <2>1. CASE Inputs(P)!AddTool
    BY <2>1, ToolAdded DEF Inputs!AddTool, PlanInv
  <2>2. CASE UNCHANGED tools
    BY <2>2 DEF PlanInv, Chosen
  <2> QED BY <2>1, <2>2, ToolsReversed, FirstRepeated
          DEF Inputs!Next, Inputs!vars, Inputs!NewISO, Inputs!Rotate, Inputs!Release, PlanInv
<1>2. manifest' \in Inputs(P)!Manifests
  <2>1. CASE Inputs(P)!Release
    <3>1. /\ manifest.nodeDefault \in P.NodeMajors /\ manifest.go \in {1, 2} /\ manifest.line \in P.Lines
          /\ manifest.supported \in SUBSET P.DotNetMajors /\ DOMAIN manifest = {"nodeDefault", "go", "line", "supported"}
          /\ manifest \in Inputs(P)!Manifests
      BY DEF PlanInv, Inputs!Manifests
    <3>2. 3 - manifest.go \in {1, 2}
      BY <3>1
    <3> QED BY <2>1, <3>1, <3>2 DEF Inputs!Release, Inputs!Manifests
  <2>2. CASE UNCHANGED manifest
    BY <2>2 DEF PlanInv
  <2> QED BY <2>1, <2>2 DEF Inputs!Next, Inputs!vars, Inputs!AddTool, Inputs!Reorder, Inputs!Repeat, Inputs!NewISO, Inputs!Rotate
<1> QED BY <1>1, <1>2 DEF PlanInv

\* The hash names all the guest ends up with.
LEMMA HashTellsGuest ==
  ASSUME NEW P PROVE Inputs(P)!HashSeesEveryChange
<1> SUFFICES ASSUME Inputs(P)!ToolsHash' = Inputs(P)!ToolsHash PROVE Inputs(P)!Guest' = Inputs(P)!Guest
  BY DEF Inputs!HashSeesEveryChange
<1>1. /\ iso' = iso /\ Inputs(P)!Plan' = Inputs(P)!Plan
      /\ Inputs(P)!AutounattendFiles("fingerprint")' = Inputs(P)!AutounattendFiles("fingerprint")
  BY DEF Inputs!ToolsHash
<1>2. /\ Inputs(P)!Default(Inputs(P)!Plan.node, manifest.nodeDefault)' = Inputs(P)!Default(Inputs(P)!Plan.node, manifest.nodeDefault)
      /\ Inputs(P)!Default(Inputs(P)!Plan.buildtools, manifest.line)' = Inputs(P)!Default(Inputs(P)!Plan.buildtools, manifest.line)
      /\ manifest'.go = manifest.go
  BY <1>1 DEF Inputs!AutounattendFiles
<1>3. Inputs(P)!Plan'.node = Inputs(P)!Plan.node /\ Inputs(P)!Plan'.go = Inputs(P)!Plan.go
      /\ Inputs(P)!Plan'.dotnet = Inputs(P)!Plan.dotnet /\ Inputs(P)!Plan'.buildtools = Inputs(P)!Plan.buildtools
  BY <1>1
<1> QED BY <1>1, <1>2, <1>3 DEF Inputs!Guest

\* With selectors that resolve, what is selected says which kinds were asked for.
Planned(P) == Chosen(P) /\ Inputs(P)!resolves =>
  /\ Inputs(P)!Kinds \subseteq {"node", "dotnet", "buildtools", "go"}
  /\ \A k : k \in Inputs(P)!Kinds <=> Inputs(P)!Selected(k) # {}
LEMMA KindsArePlanned == ASSUME NEW P PROVE Planned(P)
<1> SUFFICES ASSUME Chosen(P), Inputs(P)!resolves
             PROVE  /\ Inputs(P)!Kinds \subseteq {"node", "dotnet", "buildtools", "go"}
                    /\ \A k : k \in Inputs(P)!Kinds <=> Inputs(P)!Selected(k) # {}
  BY DEF Planned
<1>1. Asked(P) \subseteq Inputs(P)!Selectors
  BY AskedIs DEF Chosen
<1>2. \A s \in Inputs(P)!Selectors : s.kind \in {"node", "dotnet", "buildtools", "go"}
  BY DEF Inputs!Selectors
<1>3. \A s \in Asked(P) : Inputs(P)!Versions(s) # {}
  BY DEF Inputs!resolves, Asked
<1>4. \A k : k \in Inputs(P)!Kinds <=> \E s \in Asked(P) : s.kind = k
  BY DEF Inputs!Kinds, Asked
<1>5. \A k : Inputs(P)!Selected(k) = UNION {Inputs(P)!Versions(s) : s \in {t \in Asked(P) : t.kind = k}}
  BY DEF Inputs!Selected, Asked
<1>6. ASSUME NEW k PROVE k \in Inputs(P)!Kinds <=> Inputs(P)!Selected(k) # {}
  BY <1>3, <1>4, <1>5
<1> QED BY <1>1, <1>2, <1>4, <1>6
LEMMA KindsArePlannedNext == ASSUME NEW P PROVE Planned(P)'
BY KindsArePlanned, PTL

LEMMA NothingRebuilt ==
  ASSUME NEW P, PlanInv(P), PlanInv(P)' PROVE Inputs(P)!NoNeedlessRebuild
<1> SUFFICES ASSUME Inputs(P)!resolves, Inputs(P)!resolves', Inputs(P)!Guest' = Inputs(P)!Guest, manifest'.go = manifest.go
             PROVE  Inputs(P)!ToolsHash' = Inputs(P)!ToolsHash
  BY DEF Inputs!NoNeedlessRebuild
<1>1. /\ iso' = iso /\ Inputs(P)!Plan'.node = Inputs(P)!Plan.node
      /\ Inputs(P)!Plan'.dotnet = Inputs(P)!Plan.dotnet /\ Inputs(P)!Plan'.buildtools = Inputs(P)!Plan.buildtools
      /\ (IF Inputs(P)!Plan'.go THEN manifest'.go ELSE 0) = (IF Inputs(P)!Plan.go THEN manifest.go ELSE 0)
      /\ Inputs(P)!Default(Inputs(P)!Plan.node, manifest.nodeDefault)' = Inputs(P)!Default(Inputs(P)!Plan.node, manifest.nodeDefault)
      /\ Inputs(P)!Default(Inputs(P)!Plan.buildtools, manifest.line)' = Inputs(P)!Default(Inputs(P)!Plan.buildtools, manifest.line)
  BY DEF Inputs!Guest
<1>2. manifest.go # 0 /\ manifest'.go # 0
  BY DEF PlanInv, Inputs!Manifests
<1>3. Inputs(P)!Plan'.go <=> Inputs(P)!Plan.go
  BY <1>1, <1>2
<1>4. /\ Inputs(P)!Selected("node")' = Inputs(P)!Selected("node") /\ Inputs(P)!Selected("dotnet")' = Inputs(P)!Selected("dotnet")
      /\ Inputs(P)!Selected("buildtools")' = Inputs(P)!Selected("buildtools")
      /\ "go" \in Inputs(P)!Kinds' <=> "go" \in Inputs(P)!Kinds
  BY <1>1, <1>3 DEF Inputs!Plan
<1>5. Inputs(P)!Plan' = Inputs(P)!Plan
  BY <1>4 DEF Inputs!Plan
<1>6. Inputs(P)!Kinds' = Inputs(P)!Kinds
  <2>1. Planned(P) /\ Planned(P)'
    BY KindsArePlanned, KindsArePlannedNext
  <2>2. /\ Inputs(P)!Kinds' \subseteq {"node", "dotnet", "buildtools", "go"}
        /\ \A k : k \in Inputs(P)!Kinds' <=> Inputs(P)!Selected(k)' # {}
    BY <2>1 DEF Planned, PlanInv
  <2>3. /\ Inputs(P)!Kinds \subseteq {"node", "dotnet", "buildtools", "go"}
        /\ \A k : k \in Inputs(P)!Kinds <=> Inputs(P)!Selected(k) # {}
    BY <2>1 DEF Planned, PlanInv
  <2> QED BY <1>4, <2>2, <2>3
<1>7. Inputs(P)!bakeArtifacts' = Inputs(P)!bakeArtifacts
  BY <1>5 DEF Inputs!bakeArtifacts
<1>8. Inputs(P)!AutounattendFiles("fingerprint")' = Inputs(P)!AutounattendFiles("fingerprint")
  BY <1>1, <1>5, <1>6 DEF Inputs!AutounattendFiles
<1> QED BY <1>1, <1>5, <1>7, <1>8 DEF Inputs!ToolsHash

LEMMA LinesAreFinite ==
  ASSUME NEW P, Chosen(P) PROVE IsFiniteSet(LinesOf(P))
<1> DEFINE S == {i \in 1..Len(tools) : tools[i].kind = "buildtools"}
           g == [i \in S |-> IF tools[i].version = 0 THEN manifest.line ELSE tools[i].version]
<1>1. IsFiniteSet(S)
  <2>1. IsFiniteSet(1..Len(tools))
    BY FS_Interval DEF Chosen
  <2>2. S \in SUBSET (1..Len(tools))
    OBVIOUS
  <2> HIDE DEF S
  <2> QED BY <2>1, <2>2, FS_Subset
<1>2. DOMAIN tools = 1..Len(tools) /\ Asked(P) = {tools[i] : i \in 1..Len(tools)}
  BY AskedIs DEF Chosen
<1>3. \A s : s.kind = "buildtools" => Inputs(P)!Versions(s) = {IF s.version = 0 THEN manifest.line ELSE s.version}
  BY DEF Inputs!Versions
<1>4. \A v : v \in LinesOf(P) <=> \E s \in Asked(P) : s.kind = "buildtools" /\ v \in Inputs(P)!Versions(s)
  BY DEF LinesOf, Asked, Inputs!Selected
<1>5. \A v : v \in LinesOf(P) <=> \E i \in S : v = g[i]
  <2>1. ASSUME NEW v \in LinesOf(P) PROVE \E i \in S : v = g[i]
    <3>1. PICK s \in Asked(P) : s.kind = "buildtools" /\ v \in Inputs(P)!Versions(s)
      BY <1>4, <2>1
    <3>2. PICK i \in 1..Len(tools) : s = tools[i]
      BY <1>2, <3>1
    <3>3. i \in S /\ v = g[i]
      BY <1>3, <3>1, <3>2
    <3> QED BY <3>3
  <2>2. ASSUME NEW i \in S PROVE g[i] \in LinesOf(P)
    <3>1. tools[i] \in Asked(P) /\ tools[i].kind = "buildtools" /\ g[i] \in Inputs(P)!Versions(tools[i])
      BY <1>2, <1>3, <2>2
    <3> QED BY <1>4, <3>1
  <2> HIDE DEF S, g
  <2> QED BY <2>1, <2>2
<1>6. g \in Surjection(S, LinesOf(P))
  <2>1. \A i \in S : g[i] \in LinesOf(P)
    BY <1>5
  <2>2. g \in [S -> LinesOf(P)]
    <3> DEFINE h == g
    <3>1. g = [i \in S |-> g[i]]
      OBVIOUS
    <3> HIDE DEF S
    <3> HIDE DEF g
    <3> QED BY <2>1, <3>1
  <2> HIDE DEF S, g
  <2> QED BY <1>5, <2>2 DEF Surjection
<1> HIDE DEF S, g
<1> QED BY <1>1, <1>6, FS_Surjection

LEMMA MoreTime ==
  ASSUME NEW P, Chosen(P) PROVE Inputs(P)!MoreToolsMoreTime
<1> DEFINE n == Cardinality(LinesOf(P))
           m == Cardinality(LinesOf(P)')
           few == Inputs(P)!Kinds \cap {"dotnet", "node", "go"} # {}
           many == (Inputs(P)!Kinds)' \cap {"dotnet", "node", "go"} # {}
<1> SUFFICES ASSUME Inputs(P)!AddTool
             PROVE  /\ Inputs(P)!bakeTimeout' >= Inputs(P)!bakeTimeout
                    /\ Inputs(P)!Plan'.buildtools # Inputs(P)!Plan.buildtools /\ Inputs(P)!Plan.buildtools # {}
                         => Inputs(P)!bakeTimeout' >= Inputs(P)!bakeTimeout + 90
  BY DEF Inputs!MoreToolsMoreTime
<1>1. PICK s \in Inputs(P)!Selectors : tools' = Append(tools, s)
  BY DEF Inputs!AddTool
<1>2. Asked(P)' = Asked(P) \cup {s} /\ Chosen(P)' /\ UNCHANGED manifest
  BY <1>1, ToolAdded DEF Inputs!AddTool
<1>3. Asked(P) \subseteq Asked(P)'
  BY <1>2
<1>4. few => many
  BY <1>3 DEF Asked, Inputs!Kinds
<1>5. LinesOf(P) \in SUBSET (LinesOf(P)')
  <2>1. \A t : Inputs(P)!Versions(t)' = Inputs(P)!Versions(t)
    BY <1>2 DEF Inputs!Versions
  <2> QED BY <1>3, <2>1 DEF LinesOf, Asked, Inputs!Selected
<1>6. IsFiniteSet(LinesOf(P)) /\ IsFiniteSet(LinesOf(P)')
  <2>1. IsFiniteSet(LinesOf(P))
    BY LinesAreFinite
  <2>2. PICK l : s.kind = "buildtools" => Inputs(P)!Versions(s) = {l}
    BY DEF Inputs!Versions
  <2>3. LinesOf(P)' \in SUBSET (LinesOf(P) \cup {l})
    <3>1. \A t : Inputs(P)!Versions(t)' = Inputs(P)!Versions(t)
      BY <1>2 DEF Inputs!Versions
    <3>2. \A v \in LinesOf(P)' : \E t \in Asked(P)' : t.kind = "buildtools" /\ v \in Inputs(P)!Versions(t)
      BY <3>1 DEF LinesOf, Asked, Inputs!Selected
    <3>3. \A t \in Asked(P) : t.kind = "buildtools" => Inputs(P)!Versions(t) \subseteq LinesOf(P)
      BY DEF LinesOf, Asked, Inputs!Selected
    <3> QED BY <1>2, <2>2, <3>2, <3>3
  <2>4. IsFiniteSet(LinesOf(P) \cup {l})
    BY <2>1, FS_AddElement
  <2> QED BY <2>1, <2>3, <2>4, FS_Subset
<1>7. n \in Nat /\ m \in Nat /\ n <= m /\ (LinesOf(P)' # LinesOf(P) => n < m) /\ (LinesOf(P) # {} => n > 0)
  <2>1. n \in Nat /\ m \in Nat
    BY <1>6, FS_CardinalityType
  <2>2. n <= m /\ (m = n => LinesOf(P)' = LinesOf(P))
    BY <1>5, <1>6, FS_Subset
  <2>3. LinesOf(P) # {} => n # 0
    BY <1>6, FS_EmptySet
  <2> QED BY <2>1, <2>2, <2>3
<1>8. Inputs(P)!Plan.buildtools = LinesOf(P) /\ Inputs(P)!Plan'.buildtools = LinesOf(P)'
  BY DEF Inputs!Plan, LinesOf
<1>9. \A S : Inputs(P)!Cardinality(S) = Cardinality(S)
  BY DEF Inputs!Cardinality, Cardinality, Inputs!IsFiniteSet, IsFiniteSet
<1>10. Inputs(P)!bakeTimeout = IF few /\ 45 + 90 * n < 75 THEN 75 ELSE 45 + 90 * n
  BY <1>8, <1>9 DEF Inputs!bakeTimeout
<1>11. Inputs(P)!bakeTimeout' = IF many /\ 45 + 90 * m < 75 THEN 75 ELSE 45 + 90 * m
  BY <1>8, <1>9 DEF Inputs!bakeTimeout
<1> HIDE DEF n, m, few, many
<1> QED BY <1>4, <1>7, <1>8, <1>10, <1>11

LEMMA PlanGoal ==
  ASSUME NEW P, PlanInv(P), PlanInv(P)'
  PROVE  Inputs(P)!HashSeesEveryChange /\ Inputs(P)!NoNeedlessRebuild /\ Inputs(P)!MoreToolsMoreTime
BY HashTellsGuest, NothingRebuilt, MoreTime DEF PlanInv

-----------------------------------------------------------------------------
(* Counting: the least number of a set, and its numbers in order. *)

LEMMA LeastNumber == ASSUME NEW S \in SUBSET Nat, S # {} PROVE \E x \in S : \A y \in S : x <= y
<1>1. /\ IsWellFoundedOn(OpToRel(<, Nat), Nat)
      /\ \A x, y \in Nat : (<<y, x>> \in OpToRel(<, Nat)) <=> y < x
  BY NatLessThanWellFounded DEF OpToRel
<1>2. PICK R : IsWellFoundedOn(R, Nat) /\ \A x, y \in Nat : (<<y, x>> \in R) <=> y < x
  BY <1>1
<1>3. PICK x \in S : \A y \in S : ~(<<y, x>> \in R)
  BY <1>2, WFMin
<1>4. ASSUME NEW y \in S PROVE x <= y
  <2>1. x \in Nat /\ y \in Nat
    OBVIOUS
  <2>2. ~(y < x)
    BY <1>2, <1>3, <2>1
  <2> QED BY <2>1, <2>2
<1> QED BY <1>4

\* A set within another one that has an element more is smaller.
LEMMA SmallerSet ==
  ASSUME NEW S, NEW T, IsFiniteSet(T), S \subseteq T, NEW x \in T, x \notin S
  PROVE  Cardinality(S) \in Nat /\ Cardinality(T) \in Nat /\ Cardinality(S) < Cardinality(T)
<1>1. IsFiniteSet(S) /\ Cardinality(S) <= Cardinality(T) /\ (Cardinality(S) = Cardinality(T) => S = T)
  BY FS_Subset
<1>2. Cardinality(S) \in Nat /\ Cardinality(T) \in Nat
  BY <1>1, FS_CardinalityType
<1> QED BY <1>1, <1>2

\* Places that differ, no more of them than there are elements, are all taken.
LEMMA PlacesAreTaken ==
  ASSUME NEW S, IsFiniteSet(S), NEW place \in [S -> 1..Cardinality(S)],
         \A i, k \in S : place[i] = place[k] => i = k
  PROVE  \A n \in 1..Cardinality(S) : \E i \in S : place[i] = n
<1>1. PICK m : m = Cardinality(S)
  OBVIOUS
<1>2. m \in Nat
  BY <1>1, FS_CardinalityType
<1>3. IsFiniteSet(1..m) /\ Cardinality(1..m) = m
  BY <1>2, FS_Interval
<1>4. place \in Injection(S, 1..m)
  BY <1>1 DEF Injection, IsInjective
<1>5. place \in Surjection(S, 1..m)
  BY <1>1, <1>3, <1>4, FS_Injection
<1> QED BY <1>1, <1>5 DEF Surjection

\* The numbers of a finite set up to one of them, counted.
LEMMA Places ==
  ASSUME NEW S \in SUBSET Nat, IsFiniteSet(S)
  PROVE  /\ \A i \in S : Cardinality({k \in S : k <= i}) \in 1..Cardinality(S)
         /\ \A i, k \in S : i < k => Cardinality({q \in S : q <= i}) < Cardinality({q \in S : q <= k})
         /\ \A n \in 1..Cardinality(S) : \E i \in S : Cardinality({k \in S : k <= i}) = n
<1>1. ASSUME NEW i \in S PROVE Cardinality({k \in S : k <= i}) \in 1..Cardinality(S)
  <2>1. IsFiniteSet({k \in S : k <= i}) /\ Cardinality({k \in S : k <= i}) <= Cardinality(S)
    BY FS_Subset
  <2>2. {} \subseteq {k \in S : k <= i} /\ i \in {k \in S : k <= i}
    OBVIOUS
  <2>3. Cardinality({}) < Cardinality({k \in S : k <= i}) /\ Cardinality({k \in S : k <= i}) \in Nat
    BY <2>1, <2>2, SmallerSet
  <2>4. Cardinality({}) = 0 /\ Cardinality(S) \in Nat
    BY FS_EmptySet, FS_CardinalityType
  <2> QED BY <2>1, <2>3, <2>4
<1>2. ASSUME NEW i \in S, NEW k \in S, i < k
      PROVE  Cardinality({q \in S : q <= i}) < Cardinality({q \in S : q <= k})
  <2>1. IsFiniteSet({q \in S : q <= k})
    BY FS_Subset
  <2>2. {q \in S : q <= i} \subseteq {q \in S : q <= k} /\ k \in {q \in S : q <= k} /\ k \notin {q \in S : q <= i}
    <3>1. i \in Nat /\ k \in Nat /\ \A q \in S : q \in Nat
      OBVIOUS
    <3>2. \A q \in S : q <= i => q <= k
      BY <1>2, <3>1
    <3>3. ~(k <= i) /\ k <= k
      BY <1>2, <3>1
    <3> QED BY <3>2, <3>3
  <2> QED BY <2>1, <2>2, SmallerSet
<1>3. PICK place : place = [i \in S |-> Cardinality({k \in S : k <= i})]
  OBVIOUS
<1>4. place \in [S -> 1..Cardinality(S)]
  BY <1>1, <1>3
<1>5. ASSUME NEW i \in S, NEW k \in S, place[i] = place[k] PROVE i = k
  <2>1. i \in Nat /\ k \in Nat /\ place[i] \in Nat /\ place[k] \in Nat
    BY <1>4
  <2>2. ~(i < k)
    BY <1>2, <1>3, <1>5, <2>1
  <2>3. ~(k < i)
    BY <1>2, <1>3, <1>5, <2>1
  <2> QED BY <2>1, <2>2, <2>3
<1>6. \A n \in 1..Cardinality(S) : \E i \in S : place[i] = n
  BY <1>4, <1>5, PlacesAreTaken
<1> QED BY <1>1, <1>2, <1>3, <1>6

-----------------------------------------------------------------------------
(* GitEnv: what a git process is given. *)

EnvInv(P) ==
  Env(P)!GitEnvAssumption /\ count \in Int /\ token \in BOOLEAN /\ file \subseteq Env(P)!FileEntries

LEMMA EnvInitial == ASSUME NEW P, Env(P)!GitEnvAssumption, Env(P)!Init PROVE EnvInv(P)
BY DEF EnvInv, Env!Init, Env!Unset

LEMMA EnvStep == ASSUME NEW P, EnvInv(P), [Env(P)!Next]_(Env(P)!vars) PROVE EnvInv(P)'
<1>1. Env(P)!GitEnvAssumption'
  BY DEF EnvInv, Env!GitEnvAssumption
<1>2. count' \in Int /\ token' \in BOOLEAN /\ file' \subseteq Env(P)!FileEntries
  BY DEF EnvInv, Env!GitEnvAssumption, Env!Next, Env!SetCount, Env!SetSlot, Env!SetParams, Env!EditFile, Env!Counts,
     Env!Unset, Env!Bad, Env!vars
<1>3. Env(P)!FileEntries' = Env(P)!FileEntries
  BY DEF Env!FileEntries, Env!URLs, Env!CloneURL, Env!Base
<1> QED BY <1>1, <1>2, <1>3 DEF EnvInv

LEMMA EnvCounts == ASSUME NEW P PROVE \A S : Env(P)!Cardinality(S) = Cardinality(S)
BY DEF Env!Cardinality, Cardinality, Env!IsFiniteSet, IsFiniteSet

\* The n-th of the slots that are kept: all of them, in their order.
LEMMA NthSlot ==
  ASSUME NEW P, NEW S \in SUBSET Nat, IsFiniteSet(S)
  PROVE  /\ \A n \in 1..Cardinality(S) : Env(P)!Nth(S, n) \in S
         /\ \A n, m \in 1..Cardinality(S) : n < m => Env(P)!Nth(S, n) < Env(P)!Nth(S, m)
         /\ \A i \in S : \E n \in 1..Cardinality(S) : Env(P)!Nth(S, n) = i
<1>1. Cardinality(S) \in Nat
  BY FS_CardinalityType
<1>2. ASSUME NEW n \in 1..Cardinality(S)
      PROVE  Env(P)!Nth(S, n) \in S /\ Cardinality({k \in S : k <= Env(P)!Nth(S, n)}) = n
  <2>1. \E i \in S : Env(P)!Cardinality({k \in S : k <= i}) = n
    BY Places, EnvCounts
  <2>2. Env(P)!Nth(S, n) \in S /\ Env(P)!Cardinality({k \in S : k <= Env(P)!Nth(S, n)}) = n
    BY <2>1 DEF Env!Nth
  <2> QED BY <2>2, EnvCounts
<1>3. ASSUME NEW i \in S, NEW k \in S, Cardinality({q \in S : q <= i}) <= Cardinality({q \in S : q <= k}) PROVE i <= k
  <2>1. i \in Nat /\ k \in Nat
    OBVIOUS
  <2>2. Cardinality({q \in S : q <= i}) \in Nat /\ Cardinality({q \in S : q <= k}) \in Nat
    BY Places, <1>1
  <2>3. ~(k < i)
    BY <1>3, <2>2, Places
  <2> QED BY <2>1, <2>3
<1>4. ASSUME NEW n \in 1..Cardinality(S), NEW m \in 1..Cardinality(S), n < m PROVE Env(P)!Nth(S, n) < Env(P)!Nth(S, m)
  <2>1. PICK i \in S : i = Env(P)!Nth(S, n) /\ Cardinality({q \in S : q <= i}) = n
    BY <1>2
  <2>2. PICK k \in S : k = Env(P)!Nth(S, m) /\ Cardinality({q \in S : q <= k}) = m
    BY <1>2
  <2>3. i <= k /\ i # k
    BY <1>1, <1>3, <1>4, <2>1, <2>2
  <2> QED BY <2>1, <2>2, <2>3
<1>5. ASSUME NEW i \in S PROVE \E n \in 1..Cardinality(S) : Env(P)!Nth(S, n) = i
  <2>1. PICK n \in 1..Cardinality(S) : Cardinality({q \in S : q <= i}) = n
    BY Places
  <2>2. PICK k \in S : k = Env(P)!Nth(S, n) /\ Cardinality({q \in S : q <= k}) = n
    BY <1>2
  <2>3. i <= k /\ k <= i
    BY <1>1, <1>3, <2>1, <2>2
  <2> QED BY <2>2, <2>3
<1> QED BY <1>2, <1>4, <1>5

KeptOf(P, a) == Env(P)!keptSlots(a)
\* What a slot that is kept holds.
LEMMA KeptSlot ==
  ASSUME NEW P, EnvInv(P), NEW a \in BOOLEAN
  PROVE  /\ KeptOf(P, a) \in SUBSET Nat /\ IsFiniteSet(KeptOf(P, a)) /\ Cardinality(KeptOf(P, a)) \in Nat
         /\ \A i \in KeptOf(P, a) : /\ ~Env(P)!IsAuthorization(slot[i])
                                    /\ ~(a /\ token /\ Env(P)!IsRewrite(slot[i]))
<1>1. Env(P)!inheritedCount \in Nat
  BY DEF EnvInv, Env!inheritedCount, Env!GitEnvAssumption
<1>2. PICK n : n = Env(P)!inheritedCount
  OBVIOUS
<1>3. KeptOf(P, a) \subseteq 0..n - 1
  BY <1>2 DEF KeptOf, Env!keptSlots
<1>4. IsFiniteSet(0..n - 1)
  BY <1>1, <1>2, FS_Interval
<1>5. KeptOf(P, a) \in SUBSET Nat /\ IsFiniteSet(KeptOf(P, a)) /\ Cardinality(KeptOf(P, a)) \in Nat
  BY <1>1, <1>2, <1>3, <1>4, FS_Subset, FS_CardinalityType
<1>6. \A i \in KeptOf(P, a) : ~Env(P)!IsAuthorization(slot[i]) /\ ~(a /\ token /\ Env(P)!IsRewrite(slot[i]))
  BY DEF KeptOf, Env!keptSlots, Env!authenticated
<1> QED BY <1>5, <1>6

\* The child's list: what is kept, then the credential of a process that talks to GitHub.
LEMMA EnvBuilt ==
  ASSUME NEW P, EnvInv(P), NEW a \in BOOLEAN, NEW m, m = Cardinality(KeptOf(P, a))
  PROVE  /\ ~Env(P)!buildGitEnv(a).params
         /\ Env(P)!buildGitEnv(a).count = IF a /\ token THEN m + 1 ELSE m
         /\ DOMAIN Env(P)!buildGitEnv(a).slot = 0..Env(P)!buildGitEnv(a).count - 1
         /\ \A i \in 0..m - 1 : Env(P)!buildGitEnv(a).slot[i] = slot[Env(P)!Nth(KeptOf(P, a), i + 1)]
         /\ a /\ token => Env(P)!buildGitEnv(a).slot[m] = Env(P)!Credential
<1>1. m \in Nat /\ Env(P)!Cardinality(KeptOf(P, a)) = m
  BY KeptSlot, EnvCounts
<1>2. PICK f : f = [n \in 1..m |-> slot[Env(P)!Nth(KeptOf(P, a), n)]]
  OBVIOUS
<1>3. Env(P)!kept(a) = f
  BY <1>1, <1>2 DEF Env!kept, KeptOf
<1>4. PICK T : T = {f[n] : n \in 1..m} \cup {Env(P)!Credential}
  OBVIOUS
<1>5. f \in Seq(T) /\ Len(f) = m /\ Env(P)!Credential \in T
  BY <1>1, <1>2, <1>4
<1>6. PICK es : es = Env(P)!entries(a)
  OBVIOUS
<1>7. /\ es \in Seq(T) /\ Len(es) = IF a /\ token THEN m + 1 ELSE m
      /\ \A n \in 1..m : es[n] = f[n]
      /\ a /\ token => es[m + 1] = Env(P)!Credential
  <2>1. CASE a /\ token
    <3>1. es = f \o <<Env(P)!Credential>>
      BY <1>3, <1>6, <2>1 DEF Env!entries, Env!authenticated
    <3>2. PICK c \in T : c = Env(P)!Credential
      BY <1>5
    <3>3. es = f \o <<c>> /\ <<c>> \in Seq(T) /\ Len(<<c>>) = 1
      BY <3>1, <3>2
    <3>4. es \in Seq(T) /\ Len(es) = m + 1 /\ (\A n \in 1..m : es[n] = f[n]) /\ es[m + 1] = c
      BY <1>1, <1>5, <3>3
    <3> QED BY <2>1, <3>2, <3>4
  <2>2. CASE ~(a /\ token)
    <3>1. es = f \o <<>>
      BY <1>3, <1>6, <2>2 DEF Env!entries, Env!authenticated
    <3> QED BY <1>1, <1>5, <2>2, <3>1
  <2> QED BY <2>1, <2>2
<1>8. Env(P)!buildGitEnv(a) = [params |-> FALSE, count |-> Len(es), slot |-> [i \in 0..Len(es) - 1 |-> es[i + 1]]]
  <2>1. Env(P)!stripIndexedGitConfig.params = FALSE /\ DOMAIN Env(P)!stripIndexedGitConfig.slot = {}
    BY DEF Env!stripIndexedGitConfig
  <2>2. PICK old : old = Env(P)!stripIndexedGitConfig.slot
    OBVIOUS
  <2>3. Env(P)!buildGitEnv(a) =
          [params |-> FALSE, count |-> Len(es),
           slot |-> [i \in (0..Len(es) - 1) \cup DOMAIN old |-> IF i < Len(es) THEN es[i + 1] ELSE old[i]]]
    BY <1>6, <2>1, <2>2 DEF Env!buildGitEnv
  <2>4. [i \in (0..Len(es) - 1) \cup DOMAIN old |-> IF i < Len(es) THEN es[i + 1] ELSE old[i]] =
        [i \in 0..Len(es) - 1 |-> es[i + 1]]
    <3>1. Len(es) \in Nat
      BY <1>1, <1>7
    <3> QED BY <2>1, <2>2, <3>1
  <2> QED BY <2>3, <2>4
<1>9. PICK s : s = [i \in 0..Len(es) - 1 |-> es[i + 1]]
  OBVIOUS
<1>10. ~Env(P)!buildGitEnv(a).params /\ Env(P)!buildGitEnv(a).count = Len(es) /\ Env(P)!buildGitEnv(a).slot = s
  BY <1>8, <1>9
<1>11. DOMAIN s = 0..Len(es) - 1 /\ \A i \in 0..m - 1 : s[i] = f[i + 1]
  BY <1>1, <1>7, <1>9
<1>12. ASSUME a /\ token PROVE s[m] = Env(P)!Credential
  <2>0. Len(es) = m + 1 /\ es[m + 1] = Env(P)!Credential
    BY <1>7, <1>12
  <2>1. m \in 0..Len(es) - 1 /\ es[m + 1] = Env(P)!Credential
    BY <1>1, <2>0
  <2> QED BY <1>9, <2>1
<1>13. \A i \in 0..m - 1 : s[i] = slot[Env(P)!Nth(KeptOf(P, a), i + 1)]
  BY <1>1, <1>2, <1>11
<1> QED BY <1>1, <1>7, <1>10, <1>11, <1>12, <1>13

\* The credential is the last entry, and the only one of its kind.
LEMMA EnvSlots ==
  ASSUME NEW P, EnvInv(P), NEW a \in BOOLEAN, NEW m, m = Cardinality(KeptOf(P, a)),
         NEW i \in DOMAIN Env(P)!buildGitEnv(a).slot
  PROVE  /\ Env(P)!IsAuthorization(Env(P)!buildGitEnv(a).slot[i]) <=> (a /\ token /\ i = m)
         /\ a /\ token => ~Env(P)!IsRewrite(Env(P)!buildGitEnv(a).slot[i])
<1>1. m \in Nat /\ (i \in 0..m - 1 \/ (a /\ token /\ i = m))
  BY EnvBuilt, KeptSlot
<1>2. CASE i \in 0..m - 1
  <2>1. PICK k \in KeptOf(P, a) : Env(P)!buildGitEnv(a).slot[i] = slot[k]
    <3>1. i + 1 \in 1..m
      BY <1>1, <1>2
    <3>2. Env(P)!Nth(KeptOf(P, a), i + 1) \in KeptOf(P, a)
      BY <3>1, KeptSlot, NthSlot
    <3> QED BY <1>2, <3>2, EnvBuilt
  <2> QED BY <1>1, <1>2, <2>1, KeptSlot
<1>3. CASE a /\ token /\ i = m
  <2>1. Env(P)!buildGitEnv(a).slot[i] = Env(P)!Credential
    BY <1>3, EnvBuilt
  <2>2. Env(P)!IsAuthorization(Env(P)!Credential) /\ ~Env(P)!IsRewrite(Env(P)!Credential)
    BY DEF Env!Credential, Env!IsAuthorization, Env!IsRewrite
  <2> QED BY <1>3, <2>1, <2>2
<1> QED BY <1>1, <1>2, <1>3

LEMMA CredentialGoal == ASSUME NEW P, EnvInv(P) PROVE Env(P)!OneCredential /\ Env(P)!NoRewriteWithCredential
<1>1. ASSUME NEW a \in BOOLEAN
      PROVE  /\ ~Env(P)!buildGitEnv(a).params
             /\ Env(P)!Cardinality({i \in DOMAIN Env(P)!buildGitEnv(a).slot :
                  Env(P)!IsAuthorization(Env(P)!buildGitEnv(a).slot[i])}) = IF a /\ token THEN 1 ELSE 0
  <2>1. PICK m : m = Cardinality(KeptOf(P, a))
    OBVIOUS
  <2>2. ~Env(P)!buildGitEnv(a).params /\ DOMAIN Env(P)!buildGitEnv(a).slot = 0..(IF a /\ token THEN m ELSE m - 1)
    <3>1. m \in Nat BY <2>1, KeptSlot
    <3> QED BY <2>1, <3>1, EnvBuilt
  <2>3. {i \in DOMAIN Env(P)!buildGitEnv(a).slot : Env(P)!IsAuthorization(Env(P)!buildGitEnv(a).slot[i])} =
        IF a /\ token THEN {m} ELSE {}
    <3>1. m \in Nat BY <2>1, KeptSlot
    <3>2. a /\ token => m \in DOMAIN Env(P)!buildGitEnv(a).slot
      BY <2>2, <3>1
    <3> QED BY <2>1, <3>2, EnvSlots
  <2>4. Cardinality({m}) = 1 /\ Cardinality({}) = 0
    BY FS_Singleton, FS_EmptySet
  <2> QED BY <2>2, <2>3, <2>4, EnvCounts
<1>2. ASSUME NEW a \in BOOLEAN, NEW i \in DOMAIN Env(P)!buildGitEnv(a).slot,
             Env(P)!IsAuthorization(Env(P)!buildGitEnv(a).slot[i])
      PROVE  \A k \in DOMAIN Env(P)!buildGitEnv(a).slot : ~Env(P)!IsRewrite(Env(P)!buildGitEnv(a).slot[k])
  BY <1>2, EnvSlots
<1>3. Env(P)!OneCredential
  BY <1>1 DEF Env!OneCredential
<1>4. Env(P)!NoRewriteWithCredential
  BY <1>2 DEF Env!NoRewriteWithCredential
<1> QED BY <1>3, <1>4

\* The child reads the settings that are kept, in their order.
LEMMA SurviveGoal == ASSUME NEW P, EnvInv(P) PROVE Env(P)!SafeSettingsSurvive
<1> SUFFICES ASSUME count \in 0..P.MaxEntries,
                    \A i \in 0..count - 1 : slot[i].key \notin {Env(P)!Absent, "blank"} /\ slot[i].value # Env(P)!Absent,
                    NEW a \in BOOLEAN
             PROVE  LET env == Env(P)!buildGitEnv(a)
                        safe(e) == ~Env(P)!IsAuthorization(e) /\ ~(a /\ token /\ Env(P)!IsRewrite(e))
                        mine == {i \in 0..env.count - 1 : ~Env(P)!IsAuthorization(env.slot[i])}
                        theirs == {i \in 0..count - 1 : safe(slot[i])}
                    IN  \E of \in [mine -> theirs] :
                          /\ \A i \in mine : env.slot[i] = slot[of[i]]
                          /\ \A i, k \in mine : i < k => of[i] < of[k]
                          /\ \A k \in theirs : \E i \in mine : of[i] = k
  BY DEF Env!SafeSettingsSurvive
<1>1. PICK m : m = Cardinality(KeptOf(P, a))
  OBVIOUS
<1>2. m \in Nat /\ KeptOf(P, a) \in SUBSET Nat /\ IsFiniteSet(KeptOf(P, a))
  BY <1>1, KeptSlot
<1>3. KeptOf(P, a) = {i \in 0..count - 1 : ~Env(P)!IsAuthorization(slot[i]) /\ ~(a /\ token /\ Env(P)!IsRewrite(slot[i]))}
  <2>1. Env(P)!inheritedCount = count /\ count \in Nat
    BY DEF EnvInv, Env!inheritedCount, Env!GitEnvAssumption
  <2>2. ASSUME NEW i \in 0..count - 1 PROVE 0..i \subseteq 0..count - 1
    BY <2>1
  <2>3. \A i \in 0..count - 1 : \A k \in 0..i : slot[k].key # Env(P)!Absent \/ slot[k].value # Env(P)!Absent
    BY <2>2
  <2> QED BY <2>1, <2>3 DEF KeptOf, Env!keptSlots, Env!authenticated
<1>4. {i \in 0..Env(P)!buildGitEnv(a).count - 1 : ~Env(P)!IsAuthorization(Env(P)!buildGitEnv(a).slot[i])} = 0..m - 1
  <2>1. DOMAIN Env(P)!buildGitEnv(a).slot = 0..Env(P)!buildGitEnv(a).count - 1
    BY <1>1, EnvBuilt
  <2>2. \A i \in 0..Env(P)!buildGitEnv(a).count - 1 :
          Env(P)!IsAuthorization(Env(P)!buildGitEnv(a).slot[i]) <=> (a /\ token /\ i = m)
    BY <1>1, <2>1, EnvSlots
  <2>3. CASE a /\ token
    <3>1. Env(P)!buildGitEnv(a).count = m + 1
      BY <1>1, <2>3, EnvBuilt
    <3>2. \A i \in 0..Env(P)!buildGitEnv(a).count - 1 : Env(P)!IsAuthorization(Env(P)!buildGitEnv(a).slot[i]) <=> i = m
      BY <2>2, <2>3
    <3>3. \A i : i \in 0..m - 1 <=> (i \in 0..m /\ i # m)
      BY <1>2
    <3>4. Env(P)!buildGitEnv(a).count - 1 = m
      BY <1>2, <3>1
    <3> QED BY <3>2, <3>3, <3>4
  <2>4. CASE ~(a /\ token)
    <3>1. Env(P)!buildGitEnv(a).count = m
      BY <1>1, <2>4, EnvBuilt
    <3> QED BY <2>2, <2>4, <3>1
  <2> QED BY <2>3, <2>4
<1>5. PICK of : of = [i \in 0..m - 1 |-> Env(P)!Nth(KeptOf(P, a), i + 1)]
  OBVIOUS
<1>6. /\ \A n \in 1..m : Env(P)!Nth(KeptOf(P, a), n) \in KeptOf(P, a)
      /\ \A n, q \in 1..m : n < q => Env(P)!Nth(KeptOf(P, a), n) < Env(P)!Nth(KeptOf(P, a), q)
      /\ \A i \in KeptOf(P, a) : \E n \in 1..m : Env(P)!Nth(KeptOf(P, a), n) = i
  BY <1>1, <1>2, NthSlot
<1>7. \A i \in 0..m - 1 : i + 1 \in 1..m
  BY <1>2
<1>8. of \in [0..m - 1 -> KeptOf(P, a)]
  BY <1>5, <1>6, <1>7
<1>9. \A i \in 0..m - 1 : Env(P)!buildGitEnv(a).slot[i] = slot[of[i]]
  BY <1>1, <1>5, EnvBuilt
<1>10. ASSUME NEW i \in 0..m - 1, NEW k \in 0..m - 1, i < k PROVE of[i] < of[k]
  <2>1. i + 1 \in 1..m /\ k + 1 \in 1..m /\ i + 1 < k + 1
    BY <1>2, <1>10
  <2> QED BY <1>5, <1>6, <2>1
<1>11. ASSUME NEW k \in KeptOf(P, a) PROVE \E i \in 0..m - 1 : of[i] = k
  <2>1. PICK n \in 1..m : Env(P)!Nth(KeptOf(P, a), n) = k
    BY <1>6
  <2>2. n - 1 \in 0..m - 1 /\ (n - 1) + 1 = n
    BY <1>2
  <2>3. of[n - 1] = k
    BY <1>5, <2>1, <2>2
  <2> QED BY <2>2, <2>3
<1> DEFINE mine == {i \in 0..Env(P)!buildGitEnv(a).count - 1 : ~Env(P)!IsAuthorization(Env(P)!buildGitEnv(a).slot[i])}
           theirs == {i \in 0..count - 1 : ~Env(P)!IsAuthorization(slot[i]) /\ ~(a /\ token /\ Env(P)!IsRewrite(slot[i]))}
<1>14. mine = 0..m - 1 /\ theirs = KeptOf(P, a)
  BY <1>3, <1>4
<1> HIDE DEF mine, theirs
<1>15. \E f \in [mine -> theirs] :
            /\ \A i \in mine : Env(P)!buildGitEnv(a).slot[i] = slot[f[i]]
            /\ \A i, k \in mine : i < k => f[i] < f[k]
            /\ \A k \in theirs : \E i \in mine : f[i] = k
  <2>1. of \in [mine -> theirs]
    BY <1>8, <1>14
  <2>2. \A i \in mine : Env(P)!buildGitEnv(a).slot[i] = slot[of[i]]
    BY <1>9, <1>14
  <2>3. \A i, k \in mine : i < k => of[i] < of[k]
    BY <1>10, <1>14
  <2>4. \A k \in theirs : \E i \in mine : of[i] = k
    BY <1>11, <1>14
  <2> WITNESS of \in [mine -> theirs]
  <2> QED BY <2>2, <2>3, <2>4
<1> QED BY <1>15 DEF mine, theirs

\* The maximum of a set of numbers that has one.
LEMMA EnvMax == ASSUME NEW P, NEW S \in SUBSET Nat, NEW x \in S, \A y \in S : y <= x PROVE Env(P)!Max(S) = x
<1>1. PICK y : y = Env(P)!Max(S)
  OBVIOUS
<1>2. y \in S /\ \A z \in S : y >= z
  BY <1>1 DEF Env!Max
<1>3. x \in Nat /\ y \in Nat
  BY <1>2
<1> QED BY <1>1, <1>2, <1>3


\* What the operators on sequences return.
LEMMA SeqCat ==
  ASSUME NEW T, NEW s \in Seq(T), NEW t \in Seq(T), NEW w, w = s \o t
  PROVE  /\ w \in Seq(T) /\ Len(w) = Len(s) + Len(t)
         /\ \A i \in 1..Len(s) : w[i] = s[i]
         /\ \A i \in 1..Len(t) : w[Len(s) + i] = t[i]
OBVIOUS
LEMMA SeqCut ==
  ASSUME NEW T, NEW s \in Seq(T), NEW n \in Nat, n <= Len(s), NEW t, t = SubSeq(s, 1, n)
  PROVE  t \in Seq(T) /\ Len(t) = n /\ DOMAIN t = 1..n /\ \A i \in 1..n : t[i] = s[i]
OBVIOUS
LEMMA SeqEnd ==
  ASSUME NEW T, NEW s \in Seq(T), NEW x \in T, NEW t, t = Append(s, x)
  PROVE  t \in Seq(T) /\ Len(t) = Len(s) + 1 /\ t[Len(s) + 1] = x /\ \A i \in 1..Len(s) : t[i] = s[i]
OBVIOUS

\* A sequence that agrees with the beginning of another one is a prefix of it.
LEMMA Prefixed ==
  ASSUME NEW P, NEW T, NEW s \in Seq(T), NEW t \in Seq(T), Len(t) <= Len(s), \A i \in 1..Len(t) : s[i] = t[i]
  PROVE  Env(P)!HasPrefix(s, t)
<1>1. PICK u : u = SubSeq(s, 1, Len(t))
  OBVIOUS
<1>2. u \in Seq(T) /\ Len(u) = Len(t) /\ \A i \in 1..Len(t) : u[i] = s[i]
  BY <1>1
<1>3. u = t
  BY <1>2
<1> QED BY <1>1, <1>3 DEF Env!HasPrefix

\* The components of URLs.
URLWords == {"https:", "/", "ho", "st", "other", "-old", "r1", "r2"}

\* The URL of a mirror, component by component.
LEMMA URLParts ==
  ASSUME NEW P, NEW r \in URLWords
  PROVE  /\ Env(P)!CloneURL(r) \in Seq(URLWords) /\ Len(Env(P)!CloneURL(r)) = 7
         /\ Env(P)!Base \in Seq(URLWords) /\ Len(Env(P)!Base) = 5
         /\ \A i \in 1..5 : Env(P)!CloneURL(r)[i] = Env(P)!Base[i]
         /\ Env(P)!Base[1] = "https:" /\ Env(P)!Base[2] = "/" /\ Env(P)!Base[3] = "/" /\ Env(P)!Base[4] = "ho"
         /\ Env(P)!Base[5] = "st" /\ Env(P)!CloneURL(r)[6] = "/" /\ Env(P)!CloneURL(r)[7] = r
<1>1. PICK b : b = Env(P)!Base
  OBVIOUS
<1>2. b \in Seq(URLWords) /\ Len(b) = 5 /\ b[1] = "https:" /\ b[2] = "/" /\ b[3] = "/" /\ b[4] = "ho" /\ b[5] = "st"
  <2>1. "https:" \in URLWords /\ "/" \in URLWords /\ "ho" \in URLWords /\ "st" \in URLWords
    BY DEF URLWords
  <2> QED BY <1>1, <2>1 DEF Env!Base
<1>3. PICK t : t = <<"/", r>>
  OBVIOUS
<1>4. t \in Seq(URLWords) /\ Len(t) = 2 /\ t[1] = "/" /\ t[2] = r
  <2>1. "/" \in URLWords
    BY DEF URLWords
  <2> QED BY <1>3, <2>1
<1>5. PICK w : w = b \o t
  OBVIOUS
<1>6. w = Env(P)!CloneURL(r)
  BY <1>1, <1>3, <1>5 DEF Env!CloneURL
<1>7. w \in Seq(URLWords) /\ Len(w) = 7 /\ (\A i \in 1..5 : w[i] = b[i]) /\ w[6] = t[1] /\ w[7] = t[2]
  <2>1. /\ w \in Seq(URLWords) /\ Len(w) = Len(b) + Len(t)
        /\ \A i \in 1..Len(b) : w[i] = b[i]
        /\ \A i \in 1..Len(t) : w[Len(b) + i] = t[i]
    <3>1. b \in Seq(URLWords) /\ t \in Seq(URLWords)
      BY <1>2, <1>4
    <3> QED BY <1>5, <3>1, SeqCat
  <2>2. 1 \in 1..Len(t) /\ 2 \in 1..Len(t) /\ Len(b) = 5
    BY <1>2, <1>4
  <2>3. w[5 + 1] = t[1] /\ w[5 + 2] = t[2]
    BY <2>1, <2>2
  <2> QED BY <1>2, <1>4, <2>1, <2>3
<1> QED BY <1>1, <1>2, <1>4, <1>6, <1>7

LEMMA URLsAreNamed == ASSUME NEW P, NEW v \in Env(P)!URLs PROVE Len(v) \in Nat /\ Len(v) >= 1
<1>1. CASE \E n \in 1..7 : v = SubSeq(Env(P)!CloneURL("r1"), 1, n)
  <2>1. PICK n \in 1..7 : v = SubSeq(Env(P)!CloneURL("r1"), 1, n)
    BY <1>1
  <2>2. Env(P)!CloneURL("r1") \in Seq(URLWords) /\ Len(Env(P)!CloneURL("r1")) = 7
    BY URLParts DEF URLWords
  <2>3. Len(v) = n
    BY <2>1, <2>2
  <2> QED BY <2>3
<1>2. CASE v = <<"https:", "/", "/", "other">>
  BY <1>2
<1>3. CASE \E t \in {<<"/">>, <<"-old">>, <<"/", "r2", "/">>} : v = Env(P)!Base \o t
  <2>1. PICK t \in {<<"/">>, <<"-old">>, <<"/", "r2", "/">>} : v = Env(P)!Base \o t
    BY <1>3
  <2>2. Env(P)!Base \in Seq(URLWords) /\ Len(Env(P)!Base) = 5
    BY URLParts DEF URLWords
  <2>3. t \in Seq(URLWords) /\ Len(t) \in Nat
    <3>1. "/" \in URLWords /\ "-old" \in URLWords /\ "r2" \in URLWords
      BY DEF URLWords
    <3>2. t = <<"/">> \/ t = <<"-old">> \/ t = <<"/", "r2", "/">>
      BY <2>1
    <3>3. <<"/">> \in Seq(URLWords) /\ <<"-old">> \in Seq(URLWords) /\ <<"/", "r2", "/">> \in Seq(URLWords)
      BY <3>1
    <3>4. t \in Seq(URLWords)
      BY <3>2, <3>3
    <3> QED BY <3>4
  <2>4. PICK b \in Seq(URLWords) : b = Env(P)!Base /\ Len(b) = 5
    BY <2>2
  <2>5. Len(v) = Len(b) + Len(t)
    <3>1. v = b \o t /\ t \in Seq(URLWords)
      BY <2>1, <2>3, <2>4
    <3> QED BY <3>1, SeqCat
  <2> QED BY <2>3, <2>4, <2>5
<1> QED BY <1>1, <1>2, <1>3 DEF Env!URLs

\* A rewrite that redirects the fetch of a mirror names a part of its URL: the scheme, the
\* whole host or the whole of it, and slashes.
LEMMA AuditGoal == ASSUME NEW P, EnvInv(P) PROVE Env(P)!AuditSeesRedirects
<1> SUFFICES ASSUME NEW e \in file, e.key = "url.insteadOf", NEW r \in {"r1", "r2"},
                    Env(P)!HasPrefix(Env(P)!CloneURL(r), e.value), ~Env(P)!CutsHost(e.value)
             PROVE  e \in Env(P)!AuditFileConfig
  BY DEF Env!AuditSeesRedirects, Env!AuditFileConfig
<1>1. PICK v : v = e.value
  OBVIOUS
<1>2. v \in Env(P)!URLs
  BY <1>1 DEF EnvInv, Env!FileEntries
<1>3. PICK w : w = Env(P)!CloneURL(r)
  OBVIOUS
<1>4. PICK b : b = Env(P)!Base
  OBVIOUS
<1>5. /\ w \in Seq(URLWords) /\ Len(w) = 7 /\ b \in Seq(URLWords) /\ Len(b) = 5
      /\ \A i \in 1..5 : w[i] = b[i]
      /\ w[1] = "https:" /\ w[2] = "/" /\ w[3] = "/" /\ w[4] = "ho" /\ w[5] = "st" /\ w[6] = "/" /\ w[7] = r
  <2>1. r \in URLWords
    BY DEF URLWords
  <2>2. \A i \in {1, 2, 3, 4, 5} : w[i] = b[i]
    BY <1>3, <1>4, <2>1, URLParts
  <2> QED BY <1>3, <1>4, <2>1, <2>2, URLParts
<1>6. PICK n \in 1..7 : n = Len(v) /\ v = SubSeq(w, 1, n)
  <2>1. Len(v) <= Len(w) /\ v = SubSeq(w, 1, Len(v))
    BY <1>1, <1>3 DEF Env!HasPrefix
  <2>2. Len(v) \in 1..7
    <3>1. Len(v) \in Nat /\ Len(v) >= 1
      BY <1>2, URLsAreNamed
    <3>2. PICK l \in Nat : l = Len(v)
      BY <3>1
    <3>3. l <= 7 /\ l >= 1
      BY <1>5, <2>1, <3>1, <3>2
    <3> QED BY <3>2, <3>3
  <2> QED BY <2>1, <2>2
<1>7. v \in Seq(URLWords) /\ Len(v) = n /\ DOMAIN v = 1..n /\ \A i \in 1..n : v[i] = w[i]
  <2>1. n \in Nat /\ n <= Len(w)
    BY <1>5
  <2>2. w \in Seq(URLWords)
    BY <1>5
  <2> QED BY <1>6, <2>1, <2>2, SeqCut
<1>8. PICK M : M = Env(P)!Max({0} \cup {i \in DOMAIN v : v[i] # "/"})
  OBVIOUS
<1>c. n # 4
  <2> SUFFICES ASSUME n = 4 PROVE FALSE
    OBVIOUS
  <2>1. Len(v) = 4 /\ v[4] = "ho" /\ Len(b) = 5 /\ b[5] = "st"
    BY <1>5, <1>7
  <2>2. Len(v) < Len(b) /\ v[Len(v)] # "/" /\ b[Len(v) + 1] # "/"
    BY <2>1
  <2> QED BY <1>1, <1>4, <2>2 DEF Env!CutsHost
<1>9. (n \in 1..3 /\ M = 1) \/ (n \in 5..6 /\ M = 5) \/ (n = 7 /\ M = 7)
  <2>1. PICK S : S = {0} \cup {i \in DOMAIN v : v[i] # "/"}
    OBVIOUS
  <2>2. S \in SUBSET Nat /\ \A i : i \in S <=> (i = 0 \/ (i \in 1..n /\ w[i] # "/"))
    BY <1>7, <2>1
  <2>3. ASSUME n \in 1..3 PROVE M = 1
    <3>1. 1 \in S
      BY <1>5, <2>2, <2>3
    <3>2. ASSUME NEW y \in S PROVE y <= 1
      <4>1. y = 0 \/ y = 1 \/ ((y = 2 \/ y = 3) /\ w[y] # "/")
        BY <2>2, <2>3
      <4> QED BY <1>5, <4>1
    <3> QED BY <1>8, <2>1, <2>2, <3>1, <3>2, EnvMax
  <2>4. ASSUME n \in 5..6 PROVE M = 5
    <3>1. 5 \in S
      BY <1>5, <2>2, <2>4
    <3>2. ASSUME NEW y \in S PROVE y <= 5
      <4>1. (y \in 0..5) \/ (y = 6 /\ w[y] # "/")
        BY <2>2, <2>4
      <4> QED BY <1>5, <4>1
    <3> QED BY <1>8, <2>1, <2>2, <3>1, <3>2, EnvMax
  <2>5. ASSUME n = 7 PROVE M = 7
    <3>1. 7 \in S
      BY <1>5, <2>2, <2>5
    <3>2. ASSUME NEW y \in S PROVE y <= 7
      BY <2>2, <2>5
    <3> QED BY <1>8, <2>1, <2>2, <3>1, <3>2, EnvMax
  <2>6. n \in 1..3 \/ n \in 5..6 \/ n = 7
    BY <1>c
  <2> QED BY <2>3, <2>4, <2>5, <2>6
<1>10. PICK t : t = SubSeq(v, 1, M)
  OBVIOUS
<1>11. t \in Seq(URLWords) /\ Len(t) = M /\ \A i \in 1..M : t[i] = w[i]
  <2>1. M \in Nat /\ M <= Len(v) /\ 1..M \subseteq 1..n
    BY <1>7, <1>9
  <2>2. t \in Seq(URLWords) /\ Len(t) = M /\ \A i \in 1..M : t[i] = v[i]
    BY <1>7, <1>10, <2>1, SeqCut
  <2> QED BY <1>7, <2>1, <2>2
<1>12. PICK replaced : replaced = Append(t, "/")
  OBVIOUS
<1>13. replaced \in Seq(URLWords) /\ Len(replaced) = M + 1 /\ (\A i \in 1..M : replaced[i] = w[i]) /\ replaced[M + 1] = "/"
  <2>1. "/" \in URLWords
    BY DEF URLWords
  <2> QED BY <1>11, <1>12, <2>1, SeqEnd
<1>14. PICK base : base = Append(b, "/")
  OBVIOUS
<1>15. base \in Seq(URLWords) /\ Len(base) = 6 /\ \A i \in 1..6 : base[i] = w[i]
  <2>1. "/" \in URLWords
    BY DEF URLWords
  <2>2. base \in Seq(URLWords) /\ Len(base) = Len(b) + 1 /\ base[Len(b) + 1] = "/" /\ \A i \in 1..Len(b) : base[i] = b[i]
    <3>1. b \in Seq(URLWords)
      BY <1>5
    <3> QED BY <1>14, <2>1, <3>1, SeqEnd
  <2>3. Len(b) = 5 /\ \A i \in 1..6 : i \in 1..5 \/ i = 5 + 1
    BY <1>5
  <2>4. base[6] = "/" /\ Len(base) = 6 /\ \A i \in 1..5 : base[i] = b[i]
    BY <2>2, <2>3
  <2> QED BY <1>5, <2>2, <2>3, <2>4
<1>16. Env(P)!HasPrefix(base, replaced) \/ Env(P)!HasPrefix(replaced, base)
  <2>1. CASE M = 1
    <3>1. Len(replaced) <= Len(base) /\ \A i \in 1..Len(replaced) : base[i] = replaced[i]
      BY <1>5, <1>13, <1>15, <2>1
    <3> QED BY <1>13, <1>15, <3>1, Prefixed
  <2>2. CASE M = 5
    <3>1. Len(replaced) <= Len(base) /\ \A i \in 1..Len(replaced) : base[i] = replaced[i]
      BY <1>5, <1>13, <1>15, <2>2
    <3> QED BY <1>13, <1>15, <3>1, Prefixed
  <2>3. CASE M = 7
    <3>1. Len(base) <= Len(replaced) /\ \A i \in 1..Len(base) : replaced[i] = base[i]
      BY <1>13, <1>15, <2>3
    <3> QED BY <1>13, <1>15, <3>1, Prefixed
  <2> QED BY <1>9, <2>1, <2>2, <2>3
<1>17. replaced = Append(Env(P)!TrimRight(v), "/")
  BY <1>8, <1>10, <1>12 DEF Env!TrimRight
<1> QED BY <1>1, <1>4, <1>14, <1>16, <1>17 DEF Env!AuditFileConfig

-----------------------------------------------------------------------------
(* CacheServer: who restores what, and the order of a lookup. *)

\* An entry as it was saved, and as a job may restore it.
Saved(P, e) ==
  /\ e.id \in 1..nextId /\ e.updated = e.id /\ e.key \in P.KeySeqs /\ e.by \in P.Jobs
  /\ P.Token[e.by].valid /\ P.Token[e.by].repo = e.repo
  /\ \E i \in DOMAIN P.Token[e.by].scopes :
       P.Token[e.by].scopes[i].scope = e.scope /\ P.Token[e.by].scopes[i].permission >= 2
GrantedTo(P, j, e) == e.repo = P.Token[j].repo /\ e.scope \in Server(P)!Granted(j)

\* Entries differ in their numbers, so the URL of one names no other, also after it is replaced.
ServerInv(P) ==
  /\ Server(P)!ServerAssumption /\ nextId \in Nat
  /\ \A e \in entries : Saved(P, e)
  /\ \A e, f \in entries : e.id = f.id => e = f
  /\ DOMAIN url = P.Jobs /\ DOMAIN got = P.Jobs
  /\ \A j \in P.Jobs : url[j] \in 0..nextId /\ \A e \in entries : e.id = url[j] => GrantedTo(P, j, e)
  /\ \A j \in P.Jobs : got[j] # Server(P)!None => Saved(P, got[j]) /\ GrantedTo(P, j, got[j])

LEMMA ServerInitial == ASSUME NEW P, Server(P)!ServerAssumption, Server(P)!Init PROVE ServerInv(P)
BY DEF ServerInv, Server!Init

LEMMA ServerCounts == ASSUME NEW P PROVE \A S : Server(P)!Cardinality(S) = Cardinality(S)
BY DEF Server!Cardinality, Cardinality, Server!IsFiniteSet, IsFiniteSet

\* The least number of a set, and the newest of some entries.
LEMMA ServerMin ==
  ASSUME NEW P, NEW S \in SUBSET Nat, S # {}
  PROVE  Server(P)!Min(S) \in S /\ Server(P)!Min(S) \in Nat /\ \A y \in S : Server(P)!Min(S) <= y
<1>1. \E x \in S : \A y \in S : x <= y
  BY LeastNumber
<1>2. Server(P)!Min(S) \in S /\ \A y \in S : Server(P)!Min(S) <= y
  BY <1>1 DEF Server!Min
<1> QED BY <1>2

LEMMA NewestRow ==
  ASSUME NEW P, ServerInv(P), NEW R \in SUBSET entries, R # {}
  PROVE  Server(P)!Newest(R) \in R /\ \A f \in R : f.updated <= Server(P)!Newest(R).updated
<1>1. nextId \in Nat /\ \A e \in R : e.updated \in 1..nextId
  BY DEF ServerInv, Saved
<1>2. PICK S : S = {nextId - e.updated : e \in R}
  OBVIOUS
<1>3. S \in SUBSET Nat /\ S # {}
  BY <1>1, <1>2
<1>4. PICK x \in S : \A y \in S : x <= y
  BY <1>3, LeastNumber
<1>5. PICK e \in R : x = nextId - e.updated
  BY <1>2
<1>6. ASSUME NEW f \in R PROVE f.updated <= e.updated
  <2>1. nextId - f.updated \in S
    BY <1>2
  <2>2. nextId - e.updated <= nextId - f.updated
    BY <1>4, <1>5, <2>1
  <2>3. f.updated \in Nat /\ e.updated \in Nat
    BY <1>1
  <2> QED BY <1>1, <2>2, <2>3
<1>7. \E g \in R : \A f \in R : f.updated <= g.updated
  BY <1>6
<1> QED BY <1>7 DEF Server!Newest

-----------------------------------------------------------------------------
\* The sorted scopes are the scopes of the token.
LEMMA ScopesSorted ==
  ASSUME NEW P, Server(P)!ServerAssumption, NEW j \in P.Jobs, NEW Sc, Sc = Server(P)!scopeStringsByPermission(j)
  PROVE  /\ DOMAIN Sc \in SUBSET Nat
         /\ \A i \in DOMAIN Sc : Sc[i] \in Server(P)!Granted(j)
         /\ \A s \in Server(P)!Granted(j) : \E i \in DOMAIN Sc : Sc[i] = s
<1>1. PICK scopes : scopes = P.Token[j].scopes
  OBVIOUS
<1>2. scopes \in Seq({scopes[i] : i \in DOMAIN scopes}) /\ \A i \in DOMAIN scopes : scopes[i].permission \in Int
  BY <1>1 DEF Server!ServerAssumption
<1>3. PICK n \in Nat : DOMAIN scopes = 1..n
  BY <1>2
<1>4. IsFiniteSet(1..n) /\ Cardinality(1..n) = n
  BY FS_Interval
<1> DEFINE upTo(i) == {k \in DOMAIN scopes : \/ scopes[k].permission > scopes[i].permission
                                             \/ scopes[k].permission = scopes[i].permission /\ k <= i}
<1>5. \A i \in 1..n : upTo(i) \subseteq 1..n /\ i \in upTo(i)
  BY <1>2, <1>3
<1>6. ASSUME NEW i \in 1..n, NEW k \in 1..n, i # k, k \notin upTo(i) PROVE upTo(i) \subseteq upTo(k)
  <2>1. /\ scopes[i].permission \in Int /\ scopes[k].permission \in Int
        /\ \A q \in 1..n : scopes[q].permission \in Int
    BY <1>2, <1>3
  <2>2. scopes[k].permission < scopes[i].permission \/ (scopes[k].permission = scopes[i].permission /\ i < k)
    BY <1>3, <1>6, <2>1
  <2>3. ASSUME NEW q \in upTo(i) PROVE q \in upTo(k)
    <3>1. /\ q \in 1..n
          /\ scopes[q].permission > scopes[i].permission \/ (scopes[q].permission = scopes[i].permission /\ q <= i)
      BY <1>3
    <3>2. PICK pq \in Int, pi \in Int, pk \in Int :
            pq = scopes[q].permission /\ pi = scopes[i].permission /\ pk = scopes[k].permission
      BY <2>1, <3>1
    <3>3. pq > pk \/ (pq = pk /\ q <= k)
      BY <2>2, <3>1, <3>2
    <3> QED BY <1>3, <3>1, <3>2, <3>3
  <2> QED BY <2>3
<1>7. ASSUME NEW i \in 1..n, NEW k \in 1..n, i # k PROVE k \notin upTo(i) \/ i \notin upTo(k)
  <2>1. scopes[i].permission \in Int /\ scopes[k].permission \in Int
    BY <1>2, <1>3
  <2> QED BY <1>7, <2>1
<1>8. \A i \in 1..n : IsFiniteSet(upTo(i)) /\ Cardinality(upTo(i)) \in Nat /\ Cardinality(upTo(i)) <= n
  BY <1>4, <1>5, FS_Subset, FS_CardinalityType
<1> HIDE DEF upTo
<1>9. ASSUME NEW i \in 1..n PROVE Cardinality(upTo(i)) \in 1..n
  <2>1. Cardinality({}) < Cardinality(upTo(i))
    BY <1>5, <1>8, SmallerSet
  <2> QED BY <1>8, <2>1, FS_EmptySet
<1>10. ASSUME NEW i \in 1..n, NEW k \in 1..n, Cardinality(upTo(i)) = Cardinality(upTo(k)) PROVE i = k
  <2>1. ASSUME i # k, k \notin upTo(i) PROVE FALSE
    <3>1. Cardinality(upTo(i)) < Cardinality(upTo(k)) /\ Cardinality(upTo(k)) \in Nat
      BY <1>5, <1>6, <1>8, <2>1, SmallerSet
    <3> QED BY <1>10, <3>1
  <2>2. ASSUME i # k, i \notin upTo(k) PROVE FALSE
    <3>1. Cardinality(upTo(k)) < Cardinality(upTo(i)) /\ Cardinality(upTo(k)) \in Nat
      BY <1>5, <1>6, <1>8, <2>2, SmallerSet
    <3> QED BY <1>10, <3>1
  <2> QED BY <1>7, <2>1, <2>2
<1>11. PICK place : place = [i \in 1..n |-> Cardinality(upTo(i))]
  OBVIOUS
<1>12. place \in [1..n -> 1..Cardinality(1..n)] /\ \A i, k \in 1..n : place[i] = place[k] => i = k
  BY <1>4, <1>9, <1>10, <1>11
<1>13. \A m \in 1..n : \E i \in 1..n : place[i] = m
  <2>1. PICK S : S = 1..n
    OBVIOUS
  <2>2. /\ IsFiniteSet(S) /\ Cardinality(S) = n /\ place \in [S -> 1..Cardinality(S)]
        /\ \A i, k \in S : place[i] = place[k] => i = k
    BY <1>4, <1>12, <2>1
  <2>3. \A m \in 1..Cardinality(S) : \E i \in S : place[i] = m
    BY <2>2, PlacesAreTaken
  <2> QED BY <2>1, <2>2, <2>3
<1>14. \A m \in 1..n : \E i \in 1..n : Server(P)!Cardinality(upTo(i)) = m
  BY <1>11, <1>13, ServerCounts
<1> DEFINE pick(m) == CHOOSE i \in DOMAIN scopes : Server(P)!Cardinality(upTo(i)) = m
<1>15. \A m \in 1..n : pick(m) \in 1..n /\ Server(P)!Cardinality(upTo(pick(m))) = m
  BY <1>3, <1>14
<1>16. Sc = [m \in DOMAIN scopes |-> scopes[pick(m)].scope]
  BY <1>1 DEF Server!scopeStringsByPermission, upTo
<1> HIDE DEF pick
<1>17. DOMAIN Sc = 1..n /\ \A m \in 1..n : Sc[m] = scopes[pick(m)].scope
  BY <1>3, <1>16
<1>18. Server(P)!Granted(j) = {scopes[i].scope : i \in 1..n}
  BY <1>1, <1>3 DEF Server!Granted
<1>19. ASSUME NEW i \in 1..n PROVE \E m \in 1..n : pick(m) = i
  <2>1. PICK m \in 1..n : m = Cardinality(upTo(i))
    BY <1>9
  <2>2. pick(m) \in 1..n /\ Cardinality(upTo(pick(m))) = Cardinality(upTo(i))
    BY <1>15, <2>1, ServerCounts
  <2> QED BY <1>10, <2>2
<1>20. \A m \in 1..n : Sc[m] \in Server(P)!Granted(j)
  BY <1>15, <1>17, <1>18
<1>21. ASSUME NEW s \in Server(P)!Granted(j) PROVE \E m \in 1..n : Sc[m] = s
  <2>1. PICK i \in 1..n : s = scopes[i].scope
    BY <1>18
  <2>2. PICK m \in 1..n : pick(m) = i
    BY <1>19
  <2> QED BY <1>17, <2>1, <2>2
<1> QED BY <1>17, <1>20, <1>21

-----------------------------------------------------------------------------
LEMMA PrefixOfItself == ASSUME NEW P, Server(P)!ServerAssumption, NEW k \in P.KeySeqs PROVE Server(P)!Like(k, k)
<1>1. PICK T : T = {k[i] : i \in DOMAIN k}
  OBVIOUS
<1>2. k \in Seq(T)
  BY <1>1 DEF Server!ServerAssumption
<1>3. Len(k) \in Nat
  BY <1>2
<1> QED BY <1>3 DEF Server!Like

\* How a lookup ranks the keys: the first key the entry begins with, then whether it is equal to it.
KeyRank(P, e, ks) == Server(P)!Min({i \in DOMAIN ks : Server(P)!Like(e.key, ks[i])})
Inexact(P, e, ks) == IF e.key = ks[KeyRank(P, e, ks)] THEN 0 ELSE 1
\* The first query of a scope that answers an entry.
FirstQuery(P, e, ks) == 2 * KeyRank(P, e, ks) - 1 + Inexact(P, e, ks)
Fits(P, e, ks) == \E i \in DOMAIN ks : Server(P)!Like(e.key, ks[i])

LEMMA KeyRanks ==
  ASSUME NEW P, NEW ks \in Seq(P.KeySeqs), NEW e, Fits(P, e, ks)
  PROVE  /\ KeyRank(P, e, ks) \in 1..Len(ks) /\ Server(P)!Like(e.key, ks[KeyRank(P, e, ks)])
         /\ \A i \in 1..Len(ks) : Server(P)!Like(e.key, ks[i]) => KeyRank(P, e, ks) <= i
<1>1. PICK S : S = {i \in DOMAIN ks : Server(P)!Like(e.key, ks[i])}
  OBVIOUS
<1>2. DOMAIN ks = 1..Len(ks) /\ Len(ks) \in Nat
  OBVIOUS
<1>3. S \in SUBSET Nat /\ S # {}
  BY <1>1, <1>2 DEF Fits
<1>4. Server(P)!Min(S) \in S /\ \A y \in S : Server(P)!Min(S) <= y
  BY <1>3, ServerMin
<1>5. KeyRank(P, e, ks) = Server(P)!Min(S)
  BY <1>1 DEF KeyRank
<1> QED BY <1>1, <1>2, <1>4, <1>5

\* The queries of a scope: odd ones exact, even ones by prefix.
LEMMA QueryRows ==
  ASSUME NEW P, NEW ks \in Seq(P.KeySeqs), NEW R, NEW q, q = Server(P)!QueriesOf(R, ks)
  PROVE  /\ DOMAIN q = 1..2 * Len(ks)
         /\ \A m \in 1..Len(ks) : /\ 2 * m - 1 \in DOMAIN q /\ 2 * m \in DOMAIN q
                                 /\ q[2 * m - 1] = Server(P)!queryExact(R, ks[m])
                                 /\ q[2 * m] = Server(P)!queryPrefix(R, ks[m])
         /\ \A n \in DOMAIN q : \E m \in 1..Len(ks) : n = 2 * m - 1 \/ n = 2 * m
<1>1. PICK l \in Nat : l = Len(ks)
  OBVIOUS
<1>2. q = [n \in 1..2 * l |-> IF n % 2 = 1 THEN Server(P)!queryExact(R, ks[(n + 1) \div 2])
                                            ELSE Server(P)!queryPrefix(R, ks[(n + 1) \div 2])]
  BY <1>1 DEF Server!QueriesOf
<1>3. ASSUME NEW m \in 1..l
      PROVE  /\ 2 * m - 1 \in 1..2 * l /\ 2 * m \in 1..2 * l
             /\ (2 * m - 1) % 2 = 1 /\ ((2 * m - 1) + 1) \div 2 = m
             /\ (2 * m) % 2 # 1 /\ (2 * m + 1) \div 2 = m
  OBVIOUS
<1>4. ASSUME NEW n \in 1..2 * l PROVE \E m \in 1..l : n = 2 * m - 1 \/ n = 2 * m
  <2>1. PICK m : m = (n + 1) \div 2
    OBVIOUS
  <2>2. m \in 1..l /\ (n = 2 * m - 1 \/ n = 2 * m)
    BY <2>1
  <2> QED BY <2>2
<1>5. DOMAIN q = 1..2 * l
  BY <1>2
<1>6. ASSUME NEW m \in 1..l
      PROVE  q[2 * m - 1] = Server(P)!queryExact(R, ks[m]) /\ q[2 * m] = Server(P)!queryPrefix(R, ks[m])
  BY <1>2, <1>3
<1> QED BY <1>1, <1>3, <1>4, <1>5, <1>6

\* An entry is in the answer of its first query, and in no earlier one.
LEMMA FirstAnswer ==
  ASSUME NEW P, ServerInv(P), NEW ks \in Seq(P.KeySeqs), NEW R \in SUBSET entries, NEW e \in R, Fits(P, e, ks),
         NEW q, q = Server(P)!QueriesOf(R, ks)
  PROVE  /\ FirstQuery(P, e, ks) \in DOMAIN q /\ e \in q[FirstQuery(P, e, ks)]
         /\ \A n \in DOMAIN q : e \in q[n] => FirstQuery(P, e, ks) <= n
<1>1. PICK k : k = KeyRank(P, e, ks)
  OBVIOUS
<1>2. /\ Len(ks) \in Nat /\ k \in 1..Len(ks) /\ Server(P)!Like(e.key, ks[k])
      /\ \A i \in 1..Len(ks) : Server(P)!Like(e.key, ks[i]) => k <= i
  BY <1>1, KeyRanks
<1>3. FirstQuery(P, e, ks) = IF e.key = ks[k] THEN 2 * k - 1 ELSE 2 * k
  BY <1>1, <1>2 DEF FirstQuery, Inexact
<1>4. /\ 2 * k - 1 \in DOMAIN q /\ 2 * k \in DOMAIN q
      /\ q[2 * k - 1] = Server(P)!queryExact(R, ks[k]) /\ q[2 * k] = Server(P)!queryPrefix(R, ks[k])
  BY <1>2, QueryRows
<1>5. FirstQuery(P, e, ks) \in DOMAIN q /\ e \in q[FirstQuery(P, e, ks)]
  <2>1. CASE e.key = ks[k]
    BY <1>3, <1>4, <2>1 DEF Server!queryExact
  <2>2. CASE e.key # ks[k]
    BY <1>2, <1>3, <1>4, <2>2 DEF Server!queryPrefix
  <2> QED BY <2>1, <2>2
<1>6. ASSUME NEW n \in DOMAIN q, e \in q[n] PROVE FirstQuery(P, e, ks) <= n
  <2>1. PICK m \in 1..Len(ks) : n = 2 * m - 1 \/ n = 2 * m
    BY QueryRows
  <2>2. q[2 * m - 1] = Server(P)!queryExact(R, ks[m]) /\ q[2 * m] = Server(P)!queryPrefix(R, ks[m])
    BY QueryRows
  <2>3. CASE n = 2 * m - 1
    <3>1. e.key = ks[m]
      BY <1>6, <2>2, <2>3 DEF Server!queryExact
    <3>2. ks[m] \in P.KeySeqs
      OBVIOUS
    <3>3. Server(P)!Like(e.key, ks[m])
      BY <3>1, <3>2, PrefixOfItself DEF ServerInv
    <3>4. k <= m
      BY <1>2, <3>3
    <3>5. (k = m /\ FirstQuery(P, e, ks) = 2 * k - 1) \/ (k < m /\ FirstQuery(P, e, ks) \in {2 * k - 1, 2 * k})
      BY <1>2, <1>3, <3>1, <3>4
    <3> QED BY <1>2, <2>3, <3>4, <3>5
  <2>4. CASE n = 2 * m
    <3>1. Server(P)!Like(e.key, ks[m])
      BY <1>6, <2>2, <2>4 DEF Server!queryPrefix
    <3>2. k <= m
      BY <1>2, <3>1
    <3>3. FirstQuery(P, e, ks) \in {2 * k - 1, 2 * k}
      BY <1>3
    <3> QED BY <1>2, <2>4, <3>2, <3>3
  <2> QED BY <2>1, <2>3, <2>4
<1> QED BY <1>5, <1>6

-----------------------------------------------------------------------------
\* The answers a lookup compares: of the i-th scope, the queries with an answer, the scopes with one.
RowsAt(P, i, j, v) == Server(P)!RowsOf(Server(P)!scopeStringsByPermission(j)[i], j, v)
AnswersAt(P, i, ks, v, j) == Server(P)!QueriesOf(RowsAt(P, i, j, v), ks)
HitsAt(P, i, ks, v, j) == {n \in DOMAIN AnswersAt(P, i, ks, v, j) : AnswersAt(P, i, ks, v, j)[n] # {}}
FoundAt(P, ks, v, j) == {i \in DOMAIN Server(P)!scopeStringsByPermission(j) : HitsAt(P, i, ks, v, j) # {}}
\* What a lookup may answer.
Fit(P, ks, v, j) ==
  {e \in entries : e.repo = P.Token[j].repo /\ e.version = v /\ e.scope \in Server(P)!Granted(j) /\ Fits(P, e, ks)}
ScopeRank(P, e, j) ==
  Server(P)!Min({i \in DOMAIN Server(P)!scopeStringsByPermission(j) : Server(P)!scopeStringsByPermission(j)[i] = e.scope})

LEMMA MatchAnswers ==
  ASSUME NEW P, NEW ks, NEW v, NEW j
  PROVE  Server(P)!matchEntry(ks, v, j) =
           IF FoundAt(P, ks, v, j) = {} THEN Server(P)!None
           ELSE Server(P)!Newest(AnswersAt(P, Server(P)!Min(FoundAt(P, ks, v, j)), ks, v, j)[
                  Server(P)!Min(HitsAt(P, Server(P)!Min(FoundAt(P, ks, v, j)), ks, v, j))])
BY DEF Server!matchEntry, FoundAt, HitsAt, AnswersAt, RowsAt

\* The answers of a scope are entries that fit, and hold every one of the scope that does.
LEMMA ScopeAnswers ==
  ASSUME NEW P, ServerInv(P), NEW j \in P.Jobs, NEW v, NEW ks \in Seq(P.KeySeqs),
         NEW i \in DOMAIN Server(P)!scopeStringsByPermission(j), NEW q, q = AnswersAt(P, i, ks, v, j)
  PROVE  /\ HitsAt(P, i, ks, v, j) \in SUBSET Nat
         /\ \A n \in DOMAIN q : \A e \in q[n] :
              /\ e \in Fit(P, ks, v, j) /\ e.scope = Server(P)!scopeStringsByPermission(j)[i]
              /\ FirstQuery(P, e, ks) <= n
         /\ \A e \in Fit(P, ks, v, j) : e.scope = Server(P)!scopeStringsByPermission(j)[i] =>
              FirstQuery(P, e, ks) \in HitsAt(P, i, ks, v, j) /\ e \in q[FirstQuery(P, e, ks)]
<1>1. PICK s : s = Server(P)!scopeStringsByPermission(j)[i]
  OBVIOUS
<1>2. s \in Server(P)!Granted(j)
  BY <1>1, ScopesSorted DEF ServerInv
<1>3. PICK R \in SUBSET entries :
        /\ R = RowsAt(P, i, j, v)
        /\ \A e \in entries : e \in R <=> (e.scope = s /\ e.repo = P.Token[j].repo /\ e.version = v)
  <2>1. PICK R : R = RowsAt(P, i, j, v)
    OBVIOUS
  <2>2. R = {e \in entries : e.scope = s /\ e.repo = P.Token[j].repo /\ e.version = v}
    BY <1>1, <2>1 DEF RowsAt, Server!RowsOf
  <2>3. R \in SUBSET entries /\ \A e \in entries : e \in R <=> (e.scope = s /\ e.repo = P.Token[j].repo /\ e.version = v)
    BY <2>2
  <2> QED BY <2>1, <2>3
<1>4. q = Server(P)!QueriesOf(R, ks)
  BY <1>3 DEF AnswersAt
<1>5. ASSUME NEW n \in DOMAIN q, NEW e \in q[n] PROVE e \in R /\ Fits(P, e, ks)
  <2>1. PICK m \in 1..Len(ks) : q[n] = Server(P)!queryExact(R, ks[m]) \/ q[n] = Server(P)!queryPrefix(R, ks[m])
    <3>1. PICK m \in 1..Len(ks) : n = 2 * m - 1 \/ n = 2 * m
      BY <1>4, QueryRows
    <3>2. q[2 * m - 1] = Server(P)!queryExact(R, ks[m]) /\ q[2 * m] = Server(P)!queryPrefix(R, ks[m])
      BY <1>4, QueryRows
    <3> QED BY <3>1, <3>2
  <2>2. e \in R /\ Server(P)!Like(e.key, ks[m])
    <3>1. CASE q[n] = Server(P)!queryPrefix(R, ks[m])
      BY <1>5, <3>1 DEF Server!queryPrefix
    <3>2. CASE q[n] = Server(P)!queryExact(R, ks[m])
      <4>1. e \in R /\ e.key = ks[m] /\ ks[m] \in P.KeySeqs
        BY <1>5, <3>2 DEF Server!queryExact
      <4> QED BY <4>1, PrefixOfItself DEF ServerInv
    <3> QED BY <2>1, <3>1, <3>2
  <2> QED BY <2>2 DEF Fits
<1>6. ASSUME NEW n \in DOMAIN q, NEW e \in q[n]
      PROVE  e \in Fit(P, ks, v, j) /\ e.scope = s /\ FirstQuery(P, e, ks) <= n
  <2>1. e \in R /\ Fits(P, e, ks)
    BY <1>5
  <2>2. e \in Fit(P, ks, v, j) /\ e.scope = s
    BY <1>2, <1>3, <2>1 DEF Fit
  <2>3. FirstQuery(P, e, ks) <= n
    BY <1>4, <1>6, <2>1, FirstAnswer
  <2> QED BY <2>2, <2>3
<1>7. ASSUME NEW e \in Fit(P, ks, v, j), e.scope = s
      PROVE  FirstQuery(P, e, ks) \in HitsAt(P, i, ks, v, j) /\ e \in q[FirstQuery(P, e, ks)]
  <2>1. e \in R /\ Fits(P, e, ks)
    BY <1>3, <1>7 DEF Fit
  <2>2. FirstQuery(P, e, ks) \in DOMAIN q /\ e \in q[FirstQuery(P, e, ks)]
    BY <1>4, <2>1, FirstAnswer
  <2> QED BY <2>2 DEF HitsAt
<1>8. HitsAt(P, i, ks, v, j) \in SUBSET Nat
  <2>1. DOMAIN q = 1..2 * Len(ks) /\ Len(ks) \in Nat
    BY <1>4, QueryRows
  <2>2. HitsAt(P, i, ks, v, j) \subseteq DOMAIN q
    BY DEF HitsAt
  <2> QED BY <2>1, <2>2
<1> QED BY <1>1, <1>6, <1>7, <1>8

\* The rank of an entry's scope is that of a scope of the token.
LEMMA ScopeRanks ==
  ASSUME NEW P, ServerInv(P), NEW j \in P.Jobs, NEW e, e.scope \in Server(P)!Granted(j),
         NEW Sc, Sc = Server(P)!scopeStringsByPermission(j)
  PROVE  /\ ScopeRank(P, e, j) \in DOMAIN Sc /\ ScopeRank(P, e, j) \in Nat /\ Sc[ScopeRank(P, e, j)] = e.scope
         /\ \A i \in DOMAIN Sc : Sc[i] = e.scope => ScopeRank(P, e, j) <= i
<1>1. PICK S : S = {i \in DOMAIN Sc : Sc[i] = e.scope}
  OBVIOUS
<1>2. S \in SUBSET Nat /\ S # {}
  BY <1>1, ScopesSorted DEF ServerInv
<1>3. Server(P)!Min(S) \in S /\ Server(P)!Min(S) \in Nat /\ \A y \in S : Server(P)!Min(S) <= y
  BY <1>2, ServerMin
<1> QED BY <1>1, <1>3 DEF ScopeRank

\* The lookup stops at the first scope and the first query with an answer: an entry that fits
\* has a later scope, or a later query, or is older.
LEMMA MatchIsBest ==
  ASSUME NEW P, ServerInv(P), NEW j \in P.Jobs, NEW v, NEW ks \in Seq(P.KeySeqs), NEW e, e = Server(P)!matchEntry(ks, v, j)
  PROVE  /\ Fit(P, ks, v, j) = {} => e = Server(P)!None
         /\ Fit(P, ks, v, j) # {} =>
              /\ e \in Fit(P, ks, v, j)
              /\ \A f \in Fit(P, ks, v, j) \ {e} :
                   \/ ScopeRank(P, e, j) < ScopeRank(P, f, j)
                   \/ /\ ScopeRank(P, e, j) = ScopeRank(P, f, j)
                      /\ \/ FirstQuery(P, e, ks) < FirstQuery(P, f, ks)
                         \/ FirstQuery(P, e, ks) = FirstQuery(P, f, ks) /\ f.updated < e.updated
<1>1. PICK Sc : Sc = Server(P)!scopeStringsByPermission(j)
  OBVIOUS
<1>2. PICK F : F = FoundAt(P, ks, v, j)
  OBVIOUS
<1>3. F \in SUBSET DOMAIN Sc /\ F \in SUBSET Nat
  BY <1>1, <1>2, ScopesSorted DEF FoundAt, ServerInv
<1>4. ASSUME NEW f \in Fit(P, ks, v, j) PROVE ScopeRank(P, f, j) \in F
  <2>1. ScopeRank(P, f, j) \in DOMAIN Sc /\ Sc[ScopeRank(P, f, j)] = f.scope
    BY <1>1, ScopeRanks DEF Fit
  <2>2. HitsAt(P, ScopeRank(P, f, j), ks, v, j) # {}
    BY <1>1, <2>1, ScopeAnswers
  <2> QED BY <1>1, <1>2, <2>1, <2>2 DEF FoundAt
<1>5. ASSUME NEW i \in F PROVE Fit(P, ks, v, j) # {}
  <2>1. PICK n \in HitsAt(P, i, ks, v, j) : TRUE
    BY <1>2 DEF FoundAt
  <2>2. n \in DOMAIN AnswersAt(P, i, ks, v, j) /\ AnswersAt(P, i, ks, v, j)[n] # {}
    BY DEF HitsAt
  <2> QED BY <1>1, <1>3, <2>2, ScopeAnswers
<1>6. ASSUME Fit(P, ks, v, j) = {} PROVE e = Server(P)!None
  BY <1>2, <1>5, <1>6, MatchAnswers
<1>7. ASSUME Fit(P, ks, v, j) # {}
      PROVE  /\ e \in Fit(P, ks, v, j)
             /\ \A f \in Fit(P, ks, v, j) \ {e} :
                  \/ ScopeRank(P, e, j) < ScopeRank(P, f, j)
                  \/ /\ ScopeRank(P, e, j) = ScopeRank(P, f, j)
                     /\ \/ FirstQuery(P, e, ks) < FirstQuery(P, f, ks)
                        \/ FirstQuery(P, e, ks) = FirstQuery(P, f, ks) /\ f.updated < e.updated
  <2>1. F # {}
    BY <1>4, <1>7
  <2>2. PICK i \in F : i = Server(P)!Min(F) /\ i \in Nat /\ \A k \in F : i <= k
    BY <1>3, <2>1, ServerMin
  <2>3. PICK H : H = HitsAt(P, i, ks, v, j)
    OBVIOUS
  <2>4. H \in SUBSET Nat /\ H # {}
    BY <1>1, <1>2, <1>3, <2>3, ScopeAnswers DEF FoundAt
  <2>5. PICK n \in H : n = Server(P)!Min(H) /\ n \in Nat /\ \A k \in H : n <= k
    BY <2>4, ServerMin
  <2>6. PICK q : q = AnswersAt(P, i, ks, v, j)
    OBVIOUS
  <2>7. n \in DOMAIN q /\ q[n] # {}
    BY <2>3, <2>6 DEF HitsAt
  <2>8. /\ \A k \in DOMAIN q : \A f \in q[k] : f \in Fit(P, ks, v, j) /\ f.scope = Sc[i] /\ FirstQuery(P, f, ks) <= k
        /\ \A f \in Fit(P, ks, v, j) : f.scope = Sc[i] => FirstQuery(P, f, ks) \in H /\ f \in q[FirstQuery(P, f, ks)]
    <3>1. i \in DOMAIN Server(P)!scopeStringsByPermission(j)
      BY <1>1, <1>3
    <3>2. /\ \A k \in DOMAIN q : \A f \in q[k] :
               f \in Fit(P, ks, v, j) /\ f.scope = Server(P)!scopeStringsByPermission(j)[i] /\ FirstQuery(P, f, ks) <= k
          /\ \A f \in Fit(P, ks, v, j) : f.scope = Server(P)!scopeStringsByPermission(j)[i] =>
               FirstQuery(P, f, ks) \in HitsAt(P, i, ks, v, j) /\ f \in q[FirstQuery(P, f, ks)]
      BY <2>6, <3>1, ScopeAnswers
    <3> QED BY <1>1, <2>3, <3>2
  <2>9. e = Server(P)!Newest(q[n])
    BY <1>2, <2>1, <2>2, <2>3, <2>5, <2>6, MatchAnswers
  <2>10. e \in q[n] /\ \A f \in q[n] : f.updated <= e.updated
    <3>1. q[n] \in SUBSET entries
      BY <2>7, <2>8 DEF Fit
    <3> QED BY <2>7, <2>9, <3>1, NewestRow
  <2>11. e \in Fit(P, ks, v, j) /\ e.scope = Sc[i] /\ FirstQuery(P, e, ks) = n
    <3>1. e \in Fit(P, ks, v, j) /\ e.scope = Sc[i] /\ FirstQuery(P, e, ks) <= n
      BY <2>7, <2>8, <2>10
    <3>2. FirstQuery(P, e, ks) \in H
      BY <2>8, <3>1
    <3>3. n <= FirstQuery(P, e, ks) /\ FirstQuery(P, e, ks) \in Nat
      BY <2>4, <2>5, <3>2
    <3> QED BY <2>5, <3>1, <3>3
  <2>12. ScopeRank(P, e, j) = i
    <3>1. ScopeRank(P, e, j) \in Nat /\ ScopeRank(P, e, j) <= i
      BY <1>1, <1>3, <2>11, ScopeRanks DEF Fit
    <3>2. ScopeRank(P, e, j) \in F
      BY <1>4, <2>11
    <3>3. i <= ScopeRank(P, e, j)
      BY <2>2, <3>2
    <3> QED BY <2>2, <3>1, <3>3
  <2>13. ASSUME NEW f \in Fit(P, ks, v, j) \ {e}, ScopeRank(P, f, j) = i
         PROVE  n < FirstQuery(P, f, ks) \/ (n = FirstQuery(P, f, ks) /\ f.updated < e.updated)
    <3>1. f.scope = Sc[i]
      BY <1>1, <2>13, ScopeRanks DEF Fit
    <3>2. FirstQuery(P, f, ks) \in H /\ f \in q[FirstQuery(P, f, ks)]
      BY <2>8, <3>1
    <3>3. n <= FirstQuery(P, f, ks) /\ FirstQuery(P, f, ks) \in Nat
      BY <2>4, <2>5, <3>2
    <3>4. ASSUME n = FirstQuery(P, f, ks) PROVE f.updated < e.updated
      <4>1. f.updated <= e.updated
        BY <2>10, <3>2, <3>4
      <4>2. f \in entries /\ e \in entries /\ f # e
        BY <2>11 DEF Fit
      <4>3. f.updated \in Nat /\ e.updated \in Nat /\ f.updated # e.updated
        BY <4>2 DEF ServerInv, Saved
      <4> QED BY <4>1, <4>3
    <3> QED BY <2>5, <3>3, <3>4
  <2>14. ASSUME NEW f \in Fit(P, ks, v, j) \ {e} PROVE ScopeRank(P, f, j) \in Nat /\ i <= ScopeRank(P, f, j)
    BY <1>3, <1>4, <2>2
  <2> QED BY <2>2, <2>11, <2>12, <2>13, <2>14
<1> QED BY <1>6, <1>7

\* Comparing the first queries is comparing the keys, and exactness after them.
LEMMA QueryOrder ==
  ASSUME NEW P, NEW ks \in Seq(P.KeySeqs), NEW e, NEW f, Fits(P, e, ks), Fits(P, f, ks)
  PROVE  /\ FirstQuery(P, e, ks) < FirstQuery(P, f, ks) =>
              \/ KeyRank(P, e, ks) < KeyRank(P, f, ks)
              \/ KeyRank(P, e, ks) = KeyRank(P, f, ks) /\ Inexact(P, e, ks) < Inexact(P, f, ks)
         /\ FirstQuery(P, e, ks) = FirstQuery(P, f, ks) =>
              KeyRank(P, e, ks) = KeyRank(P, f, ks) /\ Inexact(P, e, ks) = Inexact(P, f, ks)
<1>1. PICK a \in Nat, b \in Nat : a = KeyRank(P, e, ks) /\ b = KeyRank(P, f, ks)
  <2>1. Len(ks) \in Nat /\ KeyRank(P, e, ks) \in 1..Len(ks) /\ KeyRank(P, f, ks) \in 1..Len(ks)
    BY KeyRanks
  <2> QED BY <2>1
<1>2. PICK x \in {0, 1}, y \in {0, 1} : x = Inexact(P, e, ks) /\ y = Inexact(P, f, ks)
  BY DEF Inexact
<1>3. FirstQuery(P, e, ks) = 2 * a - 1 + x /\ FirstQuery(P, f, ks) = 2 * b - 1 + y
  BY <1>1, <1>2 DEF FirstQuery
<1>4. (2 * a - 1 + x < 2 * b - 1 + y => (a < b \/ (a = b /\ x < y))) /\ (2 * a - 1 + x = 2 * b - 1 + y => (a = b /\ x = y))
  BY <1>1, <1>2
<1> QED BY <1>1, <1>2, <1>3, <1>4

LEMMA LookupGoal == ASSUME NEW P, ServerInv(P) PROVE Server(P)!LookupIsBest
<1> SUFFICES ASSUME NEW j \in P.Jobs, NEW v \in P.Versions, NEW ks \in P.Requests
             PROVE  LET fit == {e \in entries : /\ e.repo = P.Token[j].repo /\ e.version = v
                                                /\ e.scope \in Server(P)!Granted(j)
                                                /\ \E i \in DOMAIN ks : Server(P)!Like(e.key, ks[i])}
                        e == Server(P)!matchEntry(ks, v, j)
                    IN  IF fit = {} THEN e = Server(P)!None
                        ELSE /\ e \in fit
                             /\ \A f \in fit \ {e} : Server(P)!Before(Server(P)!Rank(e, ks, j), Server(P)!Rank(f, ks, j))
  BY DEF Server!LookupIsBest
<1>1. ks \in Seq(P.KeySeqs)
  BY DEF ServerInv, Server!ServerAssumption
<1>2. PICK e : e = Server(P)!matchEntry(ks, v, j)
  OBVIOUS
<1>3. PICK fit : fit = Fit(P, ks, v, j)
  OBVIOUS
<1>4. ASSUME NEW f \in fit
      PROVE  Server(P)!Rank(f, ks, j) = <<ScopeRank(P, f, j), KeyRank(P, f, ks), Inexact(P, f, ks), -f.updated>>
  BY DEF Server!Rank, ScopeRank, KeyRank, Inexact
<1>5. ASSUME fit # {}, NEW f \in fit \ {e} PROVE Server(P)!Before(Server(P)!Rank(e, ks, j), Server(P)!Rank(f, ks, j))
  <2>1. e \in fit /\ Fits(P, e, ks) /\ Fits(P, f, ks)
    BY <1>1, <1>2, <1>3, <1>5, MatchIsBest DEF Fit
  <2>2. PICK r : r = Server(P)!Rank(e, ks, j)
    OBVIOUS
  <2>3. PICK s : s = Server(P)!Rank(f, ks, j)
    OBVIOUS
  <2>4. r[1] = ScopeRank(P, e, j) /\ r[2] = KeyRank(P, e, ks) /\ r[3] = Inexact(P, e, ks) /\ r[4] = -e.updated
    BY <1>4, <2>1, <2>2
  <2>5. s[1] = ScopeRank(P, f, j) /\ s[2] = KeyRank(P, f, ks) /\ s[3] = Inexact(P, f, ks) /\ s[4] = -f.updated
    BY <1>4, <2>3
  <2>6. \/ r[1] < s[1]
        \/ r[1] = s[1] /\ r[2] < s[2]
        \/ r[1] = s[1] /\ r[2] = s[2] /\ r[3] < s[3]
        \/ r[1] = s[1] /\ r[2] = s[2] /\ r[3] = s[3] /\ f.updated < e.updated
    BY <1>1, <1>2, <1>3, <1>5, <2>1, <2>4, <2>5, MatchIsBest, QueryOrder
  <2>7. e.updated \in Nat /\ f.updated \in Nat
    BY <1>3, <2>1 DEF Fit, ServerInv, Saved
  <2>8. f.updated < e.updated => r[4] < s[4]
    BY <2>4, <2>5, <2>7
  <2>9. \E k \in 1..4 : r[k] < s[k] /\ \A m \in 1..k - 1 : r[m] = s[m]
    BY <2>6, <2>8
  <2> QED BY <2>2, <2>3, <2>9 DEF Server!Before
<1>6. IF fit = {} THEN e = Server(P)!None
      ELSE e \in fit /\ \A f \in fit \ {e} : Server(P)!Before(Server(P)!Rank(e, ks, j), Server(P)!Rank(f, ks, j))
  BY <1>1, <1>2, <1>3, <1>5, MatchIsBest
<1> QED BY <1>2, <1>3, <1>6 DEF Fit, Fits

LEMMA RestoreGoal == ASSUME NEW P, ServerInv(P) PROVE Server(P)!RestoresAreGranted
BY DEF ServerInv, Saved, GrantedTo, Server!RestoresAreGranted

\* Every request keeps the invariant: a new entry has a new number, and a URL is given for an entry that fits.
LEMMA ServerStep == ASSUME NEW P, ServerInv(P), [Server(P)!Next]_(Server(P)!vars) PROVE ServerInv(P)'
<1>1. Server(P)!ServerAssumption' /\ \A j : (Server(P)!Granted(j))' = Server(P)!Granted(j)
  <2>1. Server(P)!ServerAssumption'
    BY DEF ServerInv, Server!ServerAssumption
  <2>2. \A j : (Server(P)!Granted(j))' = Server(P)!Granted(j)
    BY DEF Server!Granted
  <2> QED BY <2>1, <2>2
<1>2. Server(P)!None' = Server(P)!None
  BY DEF Server!None
<1>3. ASSUME NEW j \in P.Jobs, NEW v \in P.Versions, NEW k \in P.KeySeqs, Server(P)!Save(j, k, v) PROVE ServerInv(P)'
  <2>1. PICK s : Server(P)!writeScope(j) = <<s>> /\ \E i \in DOMAIN P.Token[j].scopes :
            P.Token[j].scopes[i].scope = s /\ P.Token[j].scopes[i].permission >= 2
    <3>1. PICK W : W = {i \in DOMAIN P.Token[j].scopes : P.Token[j].scopes[i].permission >= 2}
      OBVIOUS
    <3>2. W # {} /\ Server(P)!writeScope(j) = <<P.Token[j].scopes[Server(P)!Min(W)].scope>>
      BY <1>3, <3>1 DEF Server!Save, Server!writeScope
    <3>3. W \in SUBSET Nat
      <4>1. PICK T : P.Token[j].scopes \in Seq(T)
        BY DEF ServerInv, Server!ServerAssumption
      <4> QED BY <3>1, <4>1
    <3>4. Server(P)!Min(W) \in W
      BY <3>2, <3>3, ServerMin
    <3> QED BY <3>1, <3>2, <3>4
  <2>2. P.Token[j].valid
    BY <1>3 DEF Server!Save, Server!requireCacheBearer, Server!validateRuntimeToken
  <2>3. PICK e : e = [id |-> nextId + 1, key |-> k, version |-> v, scope |-> s, repo |-> P.Token[j].repo,
                      updated |-> nextId + 1, by |-> j]
    OBVIOUS
  <2>4. nextId \in Nat /\ nextId' = nextId + 1 /\ url' = url /\ got' = got /\ entries' \subseteq entries \cup {e}
    <3>1. nextId \in Nat /\ nextId' = nextId + 1 /\ url' = url /\ got' = got
      BY <1>3 DEF ServerInv, Server!Save
    <3>2. Server(P)!writeScope(j)[1] = s
      BY <2>1
    <3> QED BY <1>3, <2>3, <3>1, <3>2 DEF Server!Save
  <2>5. \A f : Saved(P, f) => Saved(P, f)'
    BY <2>4 DEF Saved
  <2>6. Saved(P, e)' /\ e.id = nextId + 1
    BY <2>1, <2>2, <2>3, <2>4 DEF Saved
  <2>7. \A f \in entries : f.id \in 1..nextId /\ Saved(P, f)
    BY DEF ServerInv, Saved
  <2>8. \A f \in entries' : Saved(P, f)'
    BY <2>4, <2>5, <2>6, <2>7
  <2>9. \A f, g \in entries' : f.id = g.id => f = g
    <3>1. \A f, g \in entries : f.id = g.id => f = g
      BY DEF ServerInv
    <3>2. \A f \in entries : f.id # e.id
      BY <2>4, <2>6, <2>7
    <3> QED BY <2>4, <3>1, <3>2
  <2>10. ASSUME NEW i \in P.Jobs
         PROVE  url'[i] \in 0..nextId' /\ \A f \in entries' : f.id = url'[i] => GrantedTo(P, i, f)'
    <3>1. url[i] \in 0..nextId /\ \A f \in entries : f.id = url[i] => GrantedTo(P, i, f)
      BY DEF ServerInv
    <3>2. e.id # url[i]
      BY <2>4, <2>6, <3>1
    <3>3. \A f : GrantedTo(P, i, f)' <=> GrantedTo(P, i, f)
      BY <1>1 DEF GrantedTo
    <3> QED BY <2>4, <3>1, <3>2, <3>3
  <2>11. ASSUME NEW i \in P.Jobs, got'[i] # Server(P)!None PROVE Saved(P, got[i])' /\ GrantedTo(P, i, got[i])'
    <3>1. Saved(P, got[i]) /\ GrantedTo(P, i, got[i])
      BY <2>4, <2>11 DEF ServerInv
    <3> QED BY <1>1, <2>4, <2>5, <3>1 DEF GrantedTo, Saved
  <2>12. DOMAIN url' = P.Jobs /\ DOMAIN got' = P.Jobs /\ nextId' \in Nat
    BY <2>4 DEF ServerInv
  <2> QED BY <1>1, <1>2, <2>8, <2>9, <2>10, <2>11, <2>12 DEF ServerInv
<1>4. ASSUME nextId' = nextId PROVE \A f : (Saved(P, f) => Saved(P, f)') /\ \A j : GrantedTo(P, j, f) => GrantedTo(P, j, f)'
  BY <1>1, <1>4 DEF Saved, GrantedTo
<1>5. ASSUME NEW j \in P.Jobs, NEW v \in P.Versions, NEW ks \in P.Requests, Server(P)!handleGetDownloadURL(j, ks, v)
      PROVE  ServerInv(P)'
  <2>1. ks \in Seq(P.KeySeqs)
    BY DEF ServerInv, Server!ServerAssumption
  <2>2. PICK e : e = Server(P)!matchEntry(ks, v, j)
    OBVIOUS
  <2>3. e # Server(P)!None /\ url' = [url EXCEPT ![j] = e.id] /\ UNCHANGED <<entries, nextId, got>>
    BY <1>5, <2>2 DEF Server!handleGetDownloadURL
  <2>4. e \in Fit(P, ks, v, j)
    BY <2>1, <2>2, <2>3, MatchIsBest
  <2>5. e \in entries /\ GrantedTo(P, j, e) /\ e.id \in 1..nextId /\ nextId \in Nat
    BY <2>4 DEF Fit, GrantedTo, ServerInv, Saved
  <2>6. ASSUME NEW i \in P.Jobs
        PROVE  url'[i] \in 0..nextId /\ \A f \in entries : f.id = url'[i] => GrantedTo(P, i, f)
    <3>1. CASE i = j
      <4>1. url'[i] = e.id
        BY <2>3, <3>1 DEF ServerInv
      <4>2. \A f \in entries : f.id = e.id => f = e
        BY <2>5 DEF ServerInv
      <4> QED BY <2>5, <3>1, <4>1, <4>2
    <3>2. CASE i # j
      <4>1. url'[i] = url[i]
        BY <2>3, <3>2 DEF ServerInv
      <4> QED BY <4>1 DEF ServerInv
    <3> QED BY <3>1, <3>2
  <2>7. DOMAIN url' = P.Jobs
    BY <2>3 DEF ServerInv
  <2>8. \A i \in P.Jobs : got'[i] # Server(P)!None => Saved(P, got[i])' /\ GrantedTo(P, i, got[i])'
    BY <1>1, <2>3 DEF ServerInv, Saved, GrantedTo
  <2>9. /\ \A f \in entries' : Saved(P, f)'
        /\ \A i \in P.Jobs : url'[i] \in 0..nextId' /\ \A f \in entries' : f.id = url'[i] => GrantedTo(P, i, f)'
    BY <1>4, <2>3, <2>6 DEF ServerInv
  <2> QED BY <1>1, <1>2, <2>3, <2>7, <2>8, <2>9 DEF ServerInv
<1>6. ASSUME NEW j \in P.Jobs, Server(P)!handleDownload(j) PROVE ServerInv(P)'
  <2>1. PICK e \in entries : e.id = url[j] /\ got' = [got EXCEPT ![j] = e]
    BY <1>6 DEF Server!handleDownload
  <2>2. UNCHANGED <<entries, nextId, url>>
    BY <1>6 DEF Server!handleDownload
  <2>3. ASSUME NEW i \in P.Jobs, got'[i] # Server(P)!None PROVE Saved(P, got'[i]) /\ GrantedTo(P, i, got'[i])
    <3>1. CASE i = j
      <4>1. got'[i] = e
        BY <2>1, <3>1 DEF ServerInv
      <4> QED BY <2>1, <3>1, <4>1 DEF ServerInv
    <3>2. CASE i # j
      <4>1. got'[i] = got[i]
        BY <2>1, <3>2 DEF ServerInv
      <4> QED BY <2>3, <4>1 DEF ServerInv
    <3> QED BY <3>1, <3>2
  <2>4. \A i \in P.Jobs : got'[i] # Server(P)!None => Saved(P, got[i])' /\ GrantedTo(P, i, got[i])'
    BY <1>1, <2>2, <2>3 DEF Saved, GrantedTo
  <2>5. DOMAIN got' = P.Jobs
    BY <2>1 DEF ServerInv
  <2>6. /\ \A f \in entries' : Saved(P, f)'
        /\ \A i \in P.Jobs : url'[i] \in 0..nextId' /\ \A f \in entries' : f.id = url'[i] => GrantedTo(P, i, f)'
    BY <1>4, <2>2 DEF ServerInv
  <2> QED BY <1>1, <1>2, <2>2, <2>4, <2>5, <2>6 DEF ServerInv
<1>7. ASSUME entries' \subseteq entries, UNCHANGED <<nextId, url, got>> PROVE ServerInv(P)'
  <2>1. \A i \in P.Jobs : got'[i] # Server(P)!None => Saved(P, got[i])' /\ GrantedTo(P, i, got[i])'
    BY <1>1, <1>7 DEF ServerInv, Saved, GrantedTo
  <2>2. /\ \A f \in entries' : Saved(P, f)'
        /\ \A i \in P.Jobs : url'[i] \in 0..nextId' /\ \A f \in entries' : f.id = url'[i] => GrantedTo(P, i, f)'
    BY <1>4, <1>7 DEF ServerInv
  <2>3. \A f, g \in entries' : f.id = g.id => f = g
    BY <1>7 DEF ServerInv
  <2> QED BY <1>1, <1>2, <1>7, <2>1, <2>2, <2>3 DEF ServerInv
<1>8. ASSUME NEW e \in entries, Server(P)!Evict(e) PROVE ServerInv(P)'
  <2>1. entries' \subseteq entries /\ UNCHANGED <<nextId, url, got>>
    BY <1>8 DEF Server!Evict
  <2> QED BY <1>7, <2>1
<1>9. ASSUME UNCHANGED Server(P)!vars PROVE ServerInv(P)'
  <2>1. entries' \subseteq entries /\ UNCHANGED <<nextId, url, got>>
    BY <1>9 DEF Server!vars
  <2> QED BY <1>7, <2>1
<1> QED BY <1>3, <1>5, <1>6, <1>8, <1>9 DEF Server!Next

-----------------------------------------------------------------------------
(* The stores: the component at work keeps its invariant, and the others do not move. *)

KeptInv(P) == Store(P)!StoreAssumption /\ StoreInv(P) /\ PromisedInv(P) /\ EvictInv(P)
LimitedInv(P) == Golden(P)!GoldenAssumption /\ GoldenInv(P)

StoresKept == \A i \in DOMAIN StoreSetups : at = <<"store", i>> => KeptInv(StoreSetups[i])
MirrorsSafe == \A i \in DOMAIN MirrorSetups : at = <<"mirror", i>> => MirrorInv(MirrorSetups[i])
GoldensKept == \A i \in DOMAIN GoldenSetups : at = <<"golden", i>> => LimitedInv(GoldenSetups[i])
PlansKept == \A i \in DOMAIN PlanSetups : at = <<"inputs", i>> => PlanInv(PlanSetups[i])
ServersSafe == \A i \in DOMAIN ServerSetups : at = <<"server", i>> => ServerInv(ServerSetups[i])
EnvsSafe == \A i \in DOMAIN EnvSetups : at = <<"env", i>> => EnvInv(EnvSetups[i])
StoresInv == StoresKept /\ ServersSafe /\ MirrorsSafe /\ EnvsSafe /\ GoldensKept /\ PlansKept

LEMMA KeptInitial == ASSUME NEW P, Store(P)!StoreAssumption, Store(P)!Init PROVE KeptInv(P)
BY StoreInitial, PromisedInitial, EvictInitial DEF KeptInv

LEMMA KeptStep == ASSUME NEW P, KeptInv(P), [Store(P)!Next]_(Store(P)!vars) PROVE KeptInv(P)'
<1>1. Store(P)!StoreAssumption'
  BY DEF KeptInv, Store!StoreAssumption, Store!IsFiniteSet
<1> QED BY <1>1, StoreStep, PromisedStep, EvictStep DEF KeptInv

LEMMA LimitedStep == ASSUME NEW P, LimitedInv(P), [Golden(P)!Next]_(Golden(P)!vars) PROVE LimitedInv(P)'
<1>1. Golden(P)!GoldenAssumption'
  BY DEF LimitedInv, Golden!GoldenAssumption
<1> QED BY <1>1, GoldenStep DEF LimitedInv

\* Who moves: a step is one of the component at work, under its setup.
Stays == at' = at
LEMMA OneMoves ==
  ASSUME [Next]_vars
  PROVE  /\ Stays
         /\ \A i \in DOMAIN StoreSetups : at = <<"store", i>> => [Store(StoreSetups[i])!Next]_(Store(StoreSetups[i])!vars)
         /\ \A i \in DOMAIN ServerSetups :
              at = <<"server", i>> => [Server(ServerSetups[i])!Next]_(Server(ServerSetups[i])!vars)
         /\ \A i \in DOMAIN EnvSetups : at = <<"env", i>> => [Env(EnvSetups[i])!Next]_(Env(EnvSetups[i])!vars)
         /\ \A i \in DOMAIN MirrorSetups :
              at = <<"mirror", i>> => [Mirror(MirrorSetups[i])!Next]_(Mirror(MirrorSetups[i])!vars)
         /\ \A i \in DOMAIN GoldenSetups :
              at = <<"golden", i>> => [Golden(GoldenSetups[i])!Next]_(Golden(GoldenSetups[i])!vars)
         /\ \A i \in DOMAIN PlanSetups :
              at = <<"inputs", i>> => [Inputs(PlanSetups[i])!Next]_(Inputs(PlanSetups[i])!vars)
<1>1. CASE UNCHANGED vars
  <2>1. UNCHANGED <<at, file, today, iso, storeOwn, serverOwn, mirrorOwn, envOwn, goldenOwn, planOwn>>
    BY <1>1 DEF vars
  <2>2. \A P : UNCHANGED Store(P)!vars /\ UNCHANGED Mirror(P)!vars
    BY <2>1 DEF storeOwn, mirrorOwn, Store!vars, Mirror!vars
  <2>3. \A P : UNCHANGED Golden(P)!vars /\ UNCHANGED Inputs(P)!vars
    BY <2>1 DEF goldenOwn, planOwn, Golden!vars, Inputs!vars
  <2>4. \A P : UNCHANGED Server(P)!vars /\ UNCHANGED Env(P)!vars
    BY <2>1 DEF serverOwn, envOwn, Server!vars, Env!vars
  <2> QED BY <2>1, <2>2, <2>3, <2>4 DEF Stays
<1>2. CASE Next
  BY <1>2 DEF Next, Stays, notStore, notServer, notMirror, notEnv, notGolden, notPlan
<1> QED BY <1>1, <1>2

LEMMA StoresInitial == ASSUME StoresAssumption, Init PROVE StoresInv
<1>1. StoresKept
  BY KeptInitial DEF Init, StoresAssumption, StoresKept
<1>2. MirrorsSafe
  BY MirrorInitial DEF Init, StoresAssumption, MirrorsSafe
<1>3. GoldensKept
  BY GoldenInitial DEF Init, StoresAssumption, GoldensKept, LimitedInv
<1>4. PlansKept
  BY PlanInitial DEF Init, PlansKept
<1>5. ServersSafe
  BY ServerInitial DEF Init, StoresAssumption, ServersSafe
<1>6. EnvsSafe
  BY EnvInitial DEF Init, StoresAssumption, EnvsSafe
<1> QED BY <1>1, <1>2, <1>3, <1>4, <1>5, <1>6 DEF StoresInv

LEMMA StoresStep == ASSUME StoresInv, [Next]_vars PROVE StoresInv'
<1>0. Stays
  BY OneMoves
<1>1. StoresKept'
  BY <1>0, OneMoves, KeptStep DEF StoresInv, StoresKept, Stays
<1>2. MirrorsSafe'
  BY <1>0, OneMoves, MirrorStep DEF StoresInv, MirrorsSafe, Stays
<1>3. GoldensKept'
  BY <1>0, OneMoves, LimitedStep DEF StoresInv, GoldensKept, Stays
<1>4. PlansKept'
  BY <1>0, OneMoves, PlanStep DEF StoresInv, PlansKept, Stays
<1>5. ServersSafe'
  BY <1>0, OneMoves, ServerStep DEF StoresInv, ServersSafe, Stays
<1>6. EnvsSafe'
  BY <1>0, OneMoves, EnvStep DEF StoresInv, EnvsSafe, Stays
<1> QED BY <1>1, <1>2, <1>3, <1>4, <1>5, <1>6 DEF StoresInv

LEMMA StoresInvariance == ASSUME StoresAssumption PROVE Spec => []StoresInv
BY StoresInitial, StoresStep, PTL DEF Spec

\* The cache keeps and serves archives, not pieces of them, for any number of jobs, parts, PUTs,
\* retries and collections: an entry has all its parts, written to their end, a download delivers
\* them unless the entry was removed under it, and with no garbage collection a job that was told
\* its archive is saved has had an entry. The exceptions are uploads finalized by another job, or
\* while a PUT that its client had given up was still at work (uploadPart, completeUpload,
\* openDownload).
THEOREM ArchivesStayWhole == ASSUME StoresAssumption PROVE Spec => []ArchivesAreWhole
<1>1. StoresInv => ArchivesAreWhole
  BY StoreServesWhole, PromisedGoal DEF StoresInv, StoresKept, KeptInv, ArchivesAreWhole
<1> QED BY <1>1, StoresInvariance, PTL

\* Nobody gets what its token does not grant, for any jobs, tokens, scopes, keys and requests, and
\* any environment of the git processes. A job restores only what a job with a valid token saved
\* for the same repository in a scope its own token grants, although the entry of its URL may be
\* replaced or collected before the download; a lookup answers the best entry there is, by scope,
\* restore key (a prefix in whatever case), exactness and age (writeScope, scopeStringsByPermission,
\* matchEntry). A git process that talks to GitHub with a token carries one credential and no rewrite
\* of URLs, every other one carries none, the operator's other settings survive one for one in their
\* order, and the audit sees every rewrite in a file that would redirect a fetch, but for those of a
\* URL cut off within the host's name (buildGitEnv, AuditFileConfig).
THEOREM AccessStaysGranted == ASSUME StoresAssumption PROVE Spec => []AccessIsGranted
<1>1. ASSUME StoresInv PROVE AccessIsGranted
  <2>1. ASSUME NEW i \in DOMAIN ServerSetups, at = <<"server", i>>
        PROVE  Server(ServerSetups[i])!RestoresAreGranted /\ Server(ServerSetups[i])!LookupIsBest
    BY <1>1, <2>1, RestoreGoal, LookupGoal DEF StoresInv, ServersSafe
  <2>2. ASSUME NEW i \in DOMAIN EnvSetups, at = <<"env", i>>
        PROVE  /\ Env(EnvSetups[i])!OneCredential /\ Env(EnvSetups[i])!NoRewriteWithCredential
               /\ Env(EnvSetups[i])!SafeSettingsSurvive /\ Env(EnvSetups[i])!AuditSeesRedirects
    BY <1>1, <2>2, CredentialGoal, SurviveGoal, AuditGoal DEF StoresInv, EnvsSafe
  <2> QED BY <2>1, <2>2 DEF AccessIsGranted
<1> QED BY <1>1, StoresInvariance, PTL

\* The sweep never touches a bare repository the operator keeps beside the mirrors, and a bundle is
\* written from a whole mirror, whatever was interrupted: a lock per repository keeps the sweep and
\* the users apart (Sweep, EnsureMirror, Bundle).
THEOREM GitCacheStaysSafe == ASSUME StoresAssumption PROVE Spec => []GitCacheIsSafe
<1>1. StoresInv => GitCacheIsSafe
  BY MirrorGoal DEF StoresInv, MirrorsSafe, GitCacheIsSafe
<1> QED BY <1>1, StoresInvariance, PTL

\* What is removed to make room is due: with keys that are saved once, evict gives up an entry for
\* its size only while the blobs exceed the limit, since what it has added up is never more than
\* what is there; and the sweep removes a mirror only when its marker is old at the moment the
\* removal begins, not when the list was read (evict, deleteEntry, Sweep).
THEOREM RemovalsStayDue == ASSUME StoresAssumption PROVE Spec => RemovalsAreDue
<1> DEFINE Due == /\ \A i \in DOMAIN StoreSetups : at = <<"store", i>> /\ Store(StoreSetups[i])!KeysDiffer =>
                       Store(StoreSetups[i])!EvictionIsNeeded
                  /\ \A i \in DOMAIN MirrorSetups : at = <<"mirror", i>> => Mirror(MirrorSetups[i])!RemovalsAreDue
<1>1. StoresInv /\ [Next]_vars => [Due]_vars
  <2> SUFFICES ASSUME StoresInv, [Next]_vars, vars' # vars PROVE Due
    OBVIOUS
  <2>1. \A i \in DOMAIN StoreSetups : at = <<"store", i>> /\ Store(StoreSetups[i])!KeysDiffer =>
          Store(StoreSetups[i])!EvictionIsNeeded
    BY EvictGoal DEF StoresInv, StoresKept, KeptInv
  <2>2. \A i \in DOMAIN MirrorSetups : at = <<"mirror", i>> => Mirror(MirrorSetups[i])!RemovalsAreDue
    <3> SUFFICES ASSUME NEW i \in DOMAIN MirrorSetups, at = <<"mirror", i>> PROVE Mirror(MirrorSetups[i])!RemovalsAreDue
      OBVIOUS
    <3>1. MirrorInv(MirrorSetups[i]) /\ [Mirror(MirrorSetups[i])!Next]_(Mirror(MirrorSetups[i])!vars)
      BY OneMoves DEF StoresInv, MirrorsSafe
    <3>2. [Mirror(MirrorSetups[i])!RemovalsAreDue]_(Mirror(MirrorSetups[i])!vars)
      BY <3>1, MirrorStep
    <3>3. UNCHANGED Mirror(MirrorSetups[i])!vars => Mirror(MirrorSetups[i])!RemovalsAreDue
      BY DEF Mirror!vars, Mirror!RemovalsAreDue
    <3> QED BY <3>2, <3>3
  <2> QED BY <2>1, <2>2
<1>2. Spec => [][Due]_vars
  <2> HIDE DEF Due
  <2> QED BY <1>1, StoresInvariance, PTL DEF Spec
<1> QED BY <1>2 DEF RemovalsAreDue

\* The golden image is what its record says, and housekeeping keeps it so, for any toolsets, days,
\* errors and crashes: the sidecar names what is on the disk unless a later bake has overwritten it
\* and is not recorded; every input that changes the guest changes the fingerprint and, the
\* manifest's Go apart, nothing else does; a check that ended without an error leaves nothing to do
\* that it could have done; and the guest is rearmed no more often than Windows allows, but for a
\* rearm a crash or an error kept from being recorded (Bake, ToolsHash, CheckOnce, Decide,
\* ApplyRearm, RearmGolden).
THEOREM GoldenStaysMaintained == ASSUME StoresAssumption PROVE Spec => GoldenIsMaintained
<1> DEFINE Maintained ==
      /\ \A i \in DOMAIN GoldenSetups : at = <<"golden", i>> =>
           /\ Golden(GoldenSetups[i])!RecordIsTrue /\ Golden(GoldenSetups[i])!CheckConverges
           /\ Golden(GoldenSetups[i])!RearmsAreBounded
      /\ \A i \in DOMAIN PlanSetups : at = <<"inputs", i>> =>
           /\ Inputs(PlanSetups[i])!HashSeesEveryChange /\ Inputs(PlanSetups[i])!NoNeedlessRebuild
           /\ Inputs(PlanSetups[i])!MoreToolsMoreTime
<1>1. StoresInv /\ [Next]_vars => Maintained
  <2> SUFFICES ASSUME StoresInv, [Next]_vars PROVE Maintained
    OBVIOUS
  <2>1. ASSUME NEW i \in DOMAIN GoldenSetups, at = <<"golden", i>>
        PROVE  /\ Golden(GoldenSetups[i])!RecordIsTrue /\ Golden(GoldenSetups[i])!CheckConverges
               /\ Golden(GoldenSetups[i])!RearmsAreBounded
    BY <2>1, OneMoves, GoldenStep, GoldenGoal DEF StoresInv, GoldensKept, LimitedInv
  <2>2. ASSUME NEW i \in DOMAIN PlanSetups, at = <<"inputs", i>>
        PROVE  /\ Inputs(PlanSetups[i])!HashSeesEveryChange /\ Inputs(PlanSetups[i])!NoNeedlessRebuild
               /\ Inputs(PlanSetups[i])!MoreToolsMoreTime
    <3>1. PlanInv(PlanSetups[i]) /\ PlanInv(PlanSetups[i])'
      BY <2>2, OneMoves, PlanStep DEF StoresInv, PlansKept
    <3> QED BY <3>1, PlanGoal
  <2> QED BY <2>1, <2>2
<1>2. Spec => [][Maintained]_vars
  <2> HIDE DEF Maintained
  <2> QED BY <1>1, StoresInvariance, PTL DEF Spec
<1> QED BY <1>2 DEF GoldenIsMaintained
=============================================================================
