------------------------------- MODULE Stores -------------------------------
(***************************************************************************)
(* What the host keeps on disk, and who may use it: the archives of the    *)
(* actions cache, the mirrors of the git cache and the credential of the   *)
(* git processes behind them, and the golden Windows image with its        *)
(* fingerprint.  They share no state, so a behaviour is one of a single    *)
(* component under one setup (at): the variables that are not its own are  *)
(* Off.  Variables of the same name are shared.  A setup gives a           *)
(* component's constants their values, as a record P with a field for each *)
(* of them.                                                                *)
(***************************************************************************)
EXTENDS Integers, Sequences

CONSTANTS
  StoreSetups, ServerSetups, MirrorSetups, EnvSetups, GoldenSetups, PlanSetups, \* functions from names to setups
  Off   \* a model value

VARIABLES
  at,
  file, today, iso,                                                  \* of more than one instance
  saver, up, acked, fin, put, upload, lru, gc, reader, budget, promoted, removed, raced, \* CacheStore
  entries, nextId, url, got,                                         \* CacheServer
  dir, marker, lock, pc, repoOf, sweep, faults,                      \* GitMirror
  count, slot, params, token,                                        \* GitEnv
  phase, byHand, want, licensed, image, serial, meta, rearmed, checked, begun, mishaps, \* GoldenImage
  tools, password, manifest                                          \* BakePlan

storeOwn  == <<saver, up, acked, fin, put, upload, lru, gc, reader, budget, promoted, removed, raced>>
serverOwn == <<entries, nextId, url, got>>
mirrorOwn == <<dir, marker, lock, pc, repoOf, sweep, faults>>
envOwn    == <<count, slot, params, token>>
goldenOwn == <<phase, byHand, want, licensed, image, serial, meta, rearmed, checked, begun, mishaps>>
planOwn   == <<tools, password, manifest>>
vars == <<at, file, today, iso, storeOwn, serverOwn, mirrorOwn, envOwn, goldenOwn, planOwn>>

\* The variables an instance leaves alone.
notStore  == <<at, today, iso, serverOwn, mirrorOwn, envOwn, goldenOwn, planOwn>>
notServer == <<at, file, today, iso, storeOwn, mirrorOwn, envOwn, goldenOwn, planOwn>>
notMirror == <<at, file, iso, storeOwn, serverOwn, envOwn, goldenOwn, planOwn>>
notEnv    == <<at, today, iso, storeOwn, serverOwn, mirrorOwn, goldenOwn, planOwn>>
notGolden == <<at, file, storeOwn, serverOwn, mirrorOwn, envOwn, planOwn>>
notPlan   == <<at, file, today, storeOwn, serverOwn, mirrorOwn, envOwn, goldenOwn>>

StoreOff == /\ saver = Off /\ up = Off /\ acked = Off /\ fin = Off /\ put = Off /\ upload = Off /\ lru = Off
            /\ gc = Off /\ reader = Off /\ budget = Off /\ promoted = Off /\ removed = Off /\ raced = Off
ServerOff == entries = Off /\ nextId = Off /\ url = Off /\ got = Off
MirrorOff == /\ dir = Off /\ marker = Off /\ lock = Off /\ pc = Off /\ repoOf = Off
             /\ sweep = Off /\ faults = Off
EnvOff == count = Off /\ slot = Off /\ params = Off /\ token = Off
GoldenOff == /\ phase = Off /\ byHand = Off /\ want = Off /\ licensed = Off /\ image = Off /\ serial = Off
             /\ meta = Off /\ rearmed = Off /\ checked = Off /\ begun = Off /\ mishaps = Off
PlanOff == tools = Off /\ password = Off /\ manifest = Off

-----------------------------------------------------------------------------
Store(P) == INSTANCE CacheStore WITH
  Savers <- P.Savers, KeyOf <- P.KeyOf, Readers <- P.Readers, WantedKey <- P.WantedKey,
  PartCount <- P.PartCount, PutSlots <- P.PutSlots, GiveUpBudget <- P.GiveUpBudget, DieBudget <- P.DieBudget,
  GcBudget <- P.GcBudget, MaxParts <- P.MaxParts
Server(P) == INSTANCE CacheServer WITH
  Jobs <- P.Jobs, Token <- P.Token, Upstream <- P.Upstream, KeySeqs <- P.KeySeqs, Lower <- P.Lower,
  Requests <- P.Requests, Versions <- P.Versions, IdBound <- P.IdBound
Mirror(P) == INSTANCE GitMirror WITH
  at <- repoOf, Mirrors <- P.Mirrors, Foreign <- P.Foreign, Users <- P.Users, MaxAge <- P.MaxAge,
  LastDay <- P.LastDay, Faults <- P.Faults
Env(P) == INSTANCE GitEnv WITH Slots <- P.Slots, MaxEntries <- P.MaxEntries, MaxFile <- P.MaxFile
Golden(P) == INSTANCE GoldenImage WITH
  Tools <- P.Tools, EvalDays <- P.EvalDays, Threshold <- P.Threshold, MaxRearms <- P.MaxRearms,
  LastDay <- P.LastDay, Mishaps <- P.Mishaps
Inputs(P) == INSTANCE BakePlan WITH
  NodeMajors <- P.NodeMajors, DotNetMajors <- P.DotNetMajors, Lines <- P.Lines, Assigned <- P.Assigned,
  MaxTools <- P.MaxTools

StoresAssumption ==
  /\ \A i \in DOMAIN StoreSetups : Store(StoreSetups[i])!StoreAssumption
  /\ \A i \in DOMAIN ServerSetups : Server(ServerSetups[i])!ServerAssumption
  /\ \A i \in DOMAIN MirrorSetups : Mirror(MirrorSetups[i])!MirrorAssumption
  /\ \A i \in DOMAIN EnvSetups : Env(EnvSetups[i])!GitEnvAssumption
  /\ \A i \in DOMAIN GoldenSetups : Golden(GoldenSetups[i])!GoldenAssumption
  /\ \A i \in DOMAIN PlanSetups : Inputs(PlanSetups[i])!PlanAssumption

-----------------------------------------------------------------------------
StoreAlone == today = Off /\ iso = Off /\ ServerOff /\ MirrorOff /\ EnvOff /\ GoldenOff /\ PlanOff
ServerAlone == /\ file = Off /\ today = Off /\ iso = Off
               /\ StoreOff /\ MirrorOff /\ EnvOff /\ GoldenOff /\ PlanOff
MirrorAlone == file = Off /\ iso = Off /\ StoreOff /\ ServerOff /\ EnvOff /\ GoldenOff /\ PlanOff
EnvAlone == today = Off /\ iso = Off /\ StoreOff /\ ServerOff /\ MirrorOff /\ GoldenOff /\ PlanOff
GoldenAlone == file = Off /\ StoreOff /\ ServerOff /\ MirrorOff /\ EnvOff /\ PlanOff
PlanAlone == file = Off /\ today = Off /\ StoreOff /\ ServerOff /\ MirrorOff /\ EnvOff /\ GoldenOff

Init ==
  \/ \E i \in DOMAIN StoreSetups : at = <<"store", i>> /\ Store(StoreSetups[i])!Init /\ StoreAlone
  \/ \E i \in DOMAIN ServerSetups : at = <<"server", i>> /\ Server(ServerSetups[i])!Init /\ ServerAlone
  \/ \E i \in DOMAIN MirrorSetups : at = <<"mirror", i>> /\ Mirror(MirrorSetups[i])!Init /\ MirrorAlone
  \/ \E i \in DOMAIN EnvSetups : at = <<"env", i>> /\ Env(EnvSetups[i])!Init /\ EnvAlone
  \/ \E i \in DOMAIN GoldenSetups : at = <<"golden", i>> /\ Golden(GoldenSetups[i])!Init /\ GoldenAlone
  \/ \E i \in DOMAIN PlanSetups : at = <<"inputs", i>> /\ Inputs(PlanSetups[i])!Init /\ PlanAlone

Next ==
  \/ \E i \in DOMAIN StoreSetups : at = <<"store", i>> /\ Store(StoreSetups[i])!Next /\ UNCHANGED notStore
  \/ \E i \in DOMAIN ServerSetups : at = <<"server", i>> /\ Server(ServerSetups[i])!Next /\ UNCHANGED notServer
  \/ \E i \in DOMAIN MirrorSetups : at = <<"mirror", i>> /\ Mirror(MirrorSetups[i])!Next /\ UNCHANGED notMirror
  \/ \E i \in DOMAIN EnvSetups : at = <<"env", i>> /\ Env(EnvSetups[i])!Next /\ UNCHANGED notEnv
  \/ \E i \in DOMAIN GoldenSetups : at = <<"golden", i>> /\ Golden(GoldenSetups[i])!Next /\ UNCHANGED notGolden
  \/ \E i \in DOMAIN PlanSetups : at = <<"inputs", i>> /\ Inputs(PlanSetups[i])!Next /\ UNCHANGED notPlan

Spec == Init /\ [][Next]_vars

-----------------------------------------------------------------------------
\* The cache keeps and serves archives, not pieces of them: an entry has all its parts, written to
\* their end, a download delivers them unless the entry was removed under it, and a job that was
\* told its archive is saved has had an entry. The exceptions are uploads finalized by another
\* job, or while a PUT that its client had given up was still at work (completeUpload); and an
\* archive whose key the garbage collector took from under the save (its UPDATE finds no row).
ArchivesAreWhole ==
  \A i \in DOMAIN StoreSetups : at = <<"store", i>> =>
    /\ Store(StoreSetups[i])!ArchivesAreWhole
    /\ StoreSetups[i].GcBudget = 0 => Store(StoreSetups[i])!SavedIsPromoted

\* Nobody gets what its token does not grant. A job restores only what a job with a valid token
\* saved for the same repository in a scope its own token grants, and a lookup answers the best
\* entry there is: by scope, restore key (as a prefix, in whatever case), exactness and age
\* (requireCacheBearer, matchEntry). A git process that talks to GitHub with a token carries one
\* credential and no rewrite of URLs, every other one carries none, the operator's other settings
\* survive in their order, and the audit sees every rewrite in a file that would redirect a fetch,
\* unless it ends within the scheme or the host's name (buildGitEnv, AuditFileConfig).
AccessIsGranted ==
  /\ \A i \in DOMAIN ServerSetups : at = <<"server", i>> =>
       Server(ServerSetups[i])!RestoresAreGranted /\ Server(ServerSetups[i])!LookupIsBest
  /\ \A i \in DOMAIN EnvSetups : at = <<"env", i>> =>
       /\ Env(EnvSetups[i])!OneCredential /\ Env(EnvSetups[i])!NoRewriteWithCredential
       /\ Env(EnvSetups[i])!SafeSettingsSurvive /\ Env(EnvSetups[i])!AuditSeesRedirects

\* What is removed to make room is due: the cache gives up an entry for its size only while the
\* blobs exceed the limit, and the sweep a mirror only when it is unused for long at the moment
\* its removal begins, although both walk lists that age (evict, Sweep). A second save of a key
\* removes the folder of the first behind the back of evict, which has added it up: the cache's
\* part is about keys that are saved once.
RemovalsAreDue ==
  [][/\ \A i \in DOMAIN StoreSetups : at = <<"store", i>> /\ Store(StoreSetups[i])!KeysDiffer =>
          Store(StoreSetups[i])!EvictionIsNeeded
     /\ \A i \in DOMAIN MirrorSetups : at = <<"mirror", i>> => Mirror(MirrorSetups[i])!RemovalsAreDue]_vars

\* The git cache is safe to run beside the operator's own use of git: the sweep never touches a
\* bare repository the operator keeps beside the mirrors, and a bundle is written from a whole
\* mirror, whatever was interrupted (Sweep, EnsureMirror, Bundle).
GitCacheIsSafe ==
  \A i \in DOMAIN MirrorSetups : at = <<"mirror", i>> => Mirror(MirrorSetups[i])!GitCacheIsSafe

\* The golden image is what its record says, and housekeeping keeps it so: only a bake whose
\* guest finished is recorded, whatever an earlier one left in the log, and the record is true of
\* the disk but from the beginning of a later bake on that is not recorded. Every input that
\* changes the guest changes the fingerprint, nothing else does but the manifest's Go where none
\* is installed, and a bake is allowed the time its tools take. A check that ended without an
\* error leaves nothing to do that it could have done, and the guest is rearmed no more often
\* than Windows allows, but for rearms that a death, a failed boot or a failed write kept from
\* being recorded (Bake, Prepare, ToolsHash, CheckOnce, Decide, RearmGolden).
GoldenIsMaintained ==
  [][/\ \A i \in DOMAIN GoldenSetups : at = <<"golden", i>> =>
          /\ Golden(GoldenSetups[i])!RecordIsTrue /\ Golden(GoldenSetups[i])!CheckConverges
          /\ Golden(GoldenSetups[i])!RearmsAreBounded
     /\ \A i \in DOMAIN PlanSetups : at = <<"inputs", i>> =>
          /\ Inputs(PlanSetups[i])!HashSeesEveryChange /\ Inputs(PlanSetups[i])!NoNeedlessRebuild
          /\ Inputs(PlanSetups[i])!MoreToolsMoreTime]_vars
=============================================================================
