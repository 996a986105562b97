----------------------------- MODULE ConfigLoad ------------------------------
(***************************************************************************)
(* Load: a configuration file is decoded, references to the environment    *)
(* are resolved, defaults are applied and the result is validated.  What   *)
(* loads decides the GitHub clients, the mounts, the limits and the images *)
(* the program goes on with.  Every file of a family is tried: one family  *)
(* varies the target and the credentials, one the pools, one the limits.   *)
(***************************************************************************)
EXTENDS Naturals, Integers, Sequences, FiniteSets

CONSTANTS
  Family,  \* which files are tried: "target", "pools" or "limits"
  MaxInt,  \* the largest integer of the backend's representation
  Unit     \* nanoCPUs of a CPU, bytes of a MiB

ConfigAssumption == Family \in {"target", "pools", "limits"} /\ MaxInt \in Nat /\ Unit \in Nat \ {0}

VARIABLES
  file,  \* the configuration as the operator wrote it
  env,   \* the variable the file refers to is set
  load,  \* what came of it: "unread", "rejected" or "loaded"
  cfg    \* the configuration Load returned
vars == <<file, env, load, cfg>>

None == <<>>

\* Names that differ in case only.
Lower(x) == CASE x = "R1" -> "r1" [] x = "H1" -> "h1" [] OTHER -> x
LowerAll(s) == [i \in DOMAIN s |-> Lower(s[i])]

Range0(s) == {s[i] : i \in DOMAIN s}
Pools(c) == Range0(c.pools)

APool ==
  [name |-> "a", os |-> "linux", backend |-> "", golden |-> FALSE, tools |-> "known", host |-> "h1", tls |-> {},
   dind |-> FALSE, share |-> FALSE, folder |-> "", size |-> 0, repository |-> None, workflows |-> "none", scaleSet |-> "",
   image |-> FALSE, tier |-> "", cpus |-> 0, memory |-> 0, swap |-> 0, dns |-> "none"]
AFile ==
  [scope |-> "repo", owner |-> "o1", repo |-> "r1", repos |-> <<>>, pat |-> "literal", appId |-> 0,
   installation |-> FALSE, tokenPath |-> FALSE, provisioning |-> "", pools |-> <<APool>>]

\* Entries of github.repos, as what lies between the slashes.
Entries == {<<"r1">>, <<"R1">>, <<"o1", "r1">>, <<"o2", "r2">>, <<"o1", "">>, <<"o1", "r1", "x">>}
RepoLists == {<<>>} \cup {<<e>> : e \in Entries} \cup {<<e, f>> : e, f \in Entries}
BoundPool(bound, flows) == [APool EXCEPT !.repository = bound, !.workflows = flows]
AnyTarget ==
  \E scope \in {"", "repo", "repos", "org", "enterprise"}, owner \in {"", "o1"}, pat \in {"", "literal", "$VAR"},
     app \in {0, 7}, inst \in BOOLEAN, token \in BOOLEAN, prov \in {"", "pool", "autoscale", "scaleset"},
     bound \in {None, <<"o1", "R1">>, <<"o2", "r1">>, <<"o2", "r2">>}, repo \in {"", "r1"}, repos \in RepoLists :
    /\ scope # "repo" => repo = "r1"
    /\ scope # "repos" => repos = <<>>
    /\ file = [AFile EXCEPT !.scope = scope, !.owner = owner, !.repo = repo, !.repos = repos, !.pat = pat, !.appId = app,
                            !.installation = inst, !.tokenPath = token, !.provisioning = prov,
                            !.pools = <<BoundPool(bound, "none")>>]
AnyWorkflows ==
  \E prov \in {"webhook", "other"}, bound \in {None, <<"o1", "r1">>, <<"r1">>},
     flows \in {"none", "partial", "full", "invalid", "repeated"} :
    file = [AFile EXCEPT !.provisioning = prov, !.pools = <<BoundPool(bound, flows)>>]
NoPool == file = [AFile EXCEPT !.pools = <<>>]

FirstPool(set, share, folder, size) ==
  [APool EXCEPT !.scaleSet = set, !.share = share, !.dind = share, !.folder = folder, !.size = size]
SecondPool(name, set, share, dind, folder, size, host, be) ==
  [APool EXCEPT !.name = name, !.scaleSet = set, !.share = share, !.dind = dind, !.folder = folder, !.size = size,
                !.host = host, !.backend = be]
TwoPools ==
  \E set1, set2 \in {"", "a", "b"}, share1, share2, dind \in BOOLEAN, folder1 \in {"", "w"},
     folder2 \in {"", "_work", "w", "a/b"}, size1 \in {0, 2}, size2 \in {-1, 0, 1, 2}, host \in {"", "h1", "H1", "h2"},
     name \in {"", "a", "b"}, be \in {"", "containerd"}, prov \in {"", "pool"} :
    file = [AFile EXCEPT !.pools = <<FirstPool(set1, share1, folder1, size1),
                                     SecondPool(name, set2, share2, dind, folder2, size2, host, be)>>,
                         !.provisioning = prov]

LimitPool(os, be, cpus, memory, swap, dns) ==
  [APool EXCEPT !.os = os, !.backend = be, !.golden = TRUE, !.cpus = cpus, !.memory = memory, !.swap = swap, !.dns = dns]
ImagePool(os, be, golden, tools, image, tier, tls, host) ==
  [APool EXCEPT !.os = os, !.backend = be, !.golden = golden, !.tools = tools, !.image = image, !.tier = tier,
                !.tls = tls, !.host = host]
OnePool ==
  \E os \in {"linux", "windows", "mac"}, be \in {"", "docker", "containerd", "qemu"} :
    \/ \E cpus \in {0, -1, MaxInt \div Unit, 1 + MaxInt \div Unit}, memory \in {0, -1, 1, MaxInt \div Unit, 1 + MaxInt \div Unit},
         swap \in {0, 1, MaxInt \div Unit, 1 + MaxInt \div Unit}, dns \in {"none", "address", "name"} :
         file = [AFile EXCEPT !.pools = <<LimitPool(os, be, cpus, memory, swap, dns)>>]
    \/ \E image, golden \in BOOLEAN, tier \in {"", "node", "native-build", "buildtools:17", "mine", "Bad Tier"},
         tls \in {{}, {"ca"}, {"ca", "cert", "key"}}, host \in {"h1", "tcp"}, tools \in {"known", "unknown"} :
         file = [AFile EXCEPT !.pools = <<ImagePool(os, be, golden, tools, image, tier, tls, host)>>]

Init ==
  /\ CASE Family = "target" -> AnyTarget \/ AnyWorkflows \/ NoPool [] Family = "pools" -> TwoPools [] OTHER -> OnePool
  /\ env \in (IF file.pat = "$VAR" THEN BOOLEAN ELSE {TRUE})
  /\ load = "unread" /\ cfg = file

-----------------------------------------------------------------------------
(* resolveSecrets and applyDefaults. *)

\* expandEnvRef: a reference to a variable that is not set is empty.
expandEnvRef(v) == IF v = "$VAR" THEN (IF env THEN "value" ELSE "") ELSE v
resolveSecrets(c) == [c EXCEPT !.pat = expandEnvRef(@)]

IsAutoscale(c) == c.provisioning \in {"autoscale", "webhook"}
IsScaleset(c) == c.provisioning = "scaleset"

\* A scale set that is not named has the name of its pool.
scaleSet(c, p) == IF IsScaleset(c) /\ p.scaleSet = "" THEN p.name ELSE p.scaleSet

\* A scale set cannot serve several repositories; everywhere else it is the default.
provisioning(c) ==
  IF c.provisioning # "" THEN c.provisioning ELSE IF c.scope = "repos" THEN "pool" ELSE "scaleset"

applyDefaults(c) ==
  LET d == [c EXCEPT !.provisioning = provisioning(c)]
      pool(p) == [p EXCEPT !.scaleSet = scaleSet(d, p),
                           !.size = IF @ = 0 THEN 1 ELSE @,
                           !.folder = IF @ = "" THEN "_work" ELSE @,
                           !.tier = IF @ = "" THEN "minimal" ELSE @]
  IN  [d EXCEPT !.pools = [i \in DOMAIN c.pools |-> pool(c.pools[i])]]

-----------------------------------------------------------------------------
(* The target. *)

\* IsApp, IsDeviceApp: a PAT takes precedence.
IsApp(c) == c.pat = "" /\ c.appId # 0
IsDeviceApp(c) == c.pat = "" /\ c.appId = 0 /\ c.tokenPath

\* ParseRepoRef: an entry without a slash takes the default owner.
ParseRepoRef(e, owner) == IF Len(e) = 2 /\ e[1] # "" /\ e[2] # "" THEN e ELSE <<owner, e[1]>>
ResolvedRepos(c) == [i \in DOMAIN c.repos |-> ParseRepoRef(c.repos[i], c.owner)]
RepoTargets(c) ==
  CASE c.scope = "repo" -> <<<<c.owner, c.repo>>>>
    [] c.scope = "repos" -> ResolvedRepos(c)
    [] OTHER -> <<>>

\* Entries are compared by the repository they resolve to, without case.
DistinctRepos(c) ==
  LET refs == ResolvedRepos(c) IN \A i, j \in DOMAIN refs : i # j => LowerAll(refs[i]) # LowerAll(refs[j])

\* Mutant: the installation must be the one of the default owner only where there is one.
OwnersInstallation(c) ==
  IsApp(c) /\ c.owner # "" => \A i \in DOMAIN c.repos : Lower(ResolvedRepos(c)[i][1]) = Lower(c.owner)
\* An installation belongs to one account.
OneInstallation(c) ==
  IsApp(c) => \A i, j \in DOMAIN c.repos : Lower(ResolvedRepos(c)[i][1]) = Lower(ResolvedRepos(c)[j][1])

ValidRepos(c) ==
  /\ c.repos # <<>>
  /\ \A i \in DOMAIN c.repos :
       /\ Len(c.repos[i]) <= 2 /\ "" \notin Range0(c.repos[i])
       /\ "" \notin Range0(ResolvedRepos(c)[i])
  /\ DistinctRepos(c) /\ OneInstallation(c)

ValidScope(c) ==
  CASE c.scope = "repo" -> c.owner # "" /\ c.repo # ""
    [] c.scope = "repos" -> ValidRepos(c)
    [] c.scope \in {"org", "enterprise"} -> c.owner # ""
    [] OTHER -> FALSE

ValidAuth(c) ==
  /\ c.pat # "" \/ IsDeviceApp(c) \/ (c.appId # 0 /\ c.installation)
  /\ ~(IsScaleset(c) /\ c.scope = "repos")
  /\ ~(c.scope = "enterprise" /\ (IsApp(c) \/ IsDeviceApp(c)))
  /\ ~(c.scope = "repos" /\ IsDeviceApp(c))
  /\ c.provisioning = "pool" \/ IsAutoscale(c) \/ IsScaleset(c)

-----------------------------------------------------------------------------
(* The pools. *)

\* ValidateToolSelectors: a plan can be made of every tool that is named.
ValidateToolSelectors(p) == p.tools = "known"

ValidBackend(p) ==
  /\ p.os \in {"linux", "windows"}
  /\ IF p.backend = "qemu" THEN p.golden /\ ValidateToolSelectors(p) ELSE p.host # ""
  /\ p.tls # {} => p.backend \in {"", "docker"} /\ p.tls = {"ca", "cert", "key"} /\ p.host = "tcp"

\* A workspace is shared by a runner and its daemon, not by two runners.
ValidWorkspace(p) ==
  /\ p.share => p.dind /\ p.os = "linux" /\ p.backend \in {"", "docker"} /\ p.folder # "a/b" /\ p.size = 1
  /\ p.size >= 1

\* A pool may be bound to a repository that is managed.
ValidRepository(c, p) ==
  p.repository = None \/
  (/\ Len(p.repository) = 2 /\ IsAutoscale(c)
   /\ RepoTargets(c) # <<>> => LowerAll(p.repository) \in {LowerAll(ref) : ref \in Range0(RepoTargets(c))}
   /\ RepoTargets(c) = <<>> /\ c.scope = "org" => Lower(p.repository[1]) = Lower(c.owner))

ValidWorkflows(p) == p.workflows = "none" \/ (p.repository # None /\ p.workflows = "full")

validateContainerConfig(p) ==
  /\ p.cpus \in 0..MaxInt \div Unit /\ p.memory \in 0..MaxInt \div Unit /\ p.swap \in 0..MaxInt \div Unit
  /\ p.swap # 0 => p.memory # 0 /\ p.swap >= p.memory
  /\ p.backend = "qemu" => p.cpus = 0 /\ p.memory = 0 /\ p.swap = 0 /\ p.dns = "none"
  /\ p.os = "windows" => p.swap = 0
  /\ p.backend = "containerd" => p.dns = "none"
  /\ p.dns # "name"

publishedFlavors(os) ==
  IF os = "linux" THEN {"native-build", "node", "dotnet", "rust", "go"} ELSE {"node", "dotnet", "buildtools", "buildtools:17"}
\* A tag for a published flavor, else a repository of a local build named after the tier.
ImageRef(p) ==
  CASE p.image -> [repository |-> "own", tag |-> "own"]
    [] p.tier \in {"", "minimal"} -> [repository |-> "published", tag |-> "latest"]
    [] p.tier \in publishedFlavors(p.os) -> [repository |-> "published", tag |-> "flavor"]
    [] OTHER -> [repository |-> p.tier, tag |-> "dev"]

localImageTierPattern == {"mine", "minimal", "node", "dotnet", "rust", "go", "native-build", "buildtools"}
validateImageTier(p) ==
  p.image \/ p.backend = "qemu" \/ p.tier \in {"", "minimal"} \cup publishedFlavors(p.os) \cup localImageTierPattern

DistinctWorkspaces(c) ==
  \A i, j \in DOMAIN c.pools : i # j /\ c.pools[i].share /\ c.pools[j].share =>
    <<Lower(c.pools[i].host), Lower(c.pools[i].folder)>> # <<Lower(c.pools[j].host), Lower(c.pools[j].folder)>>
DistinctScaleSets(c) ==
  IsScaleset(c) => /\ \A p \in Pools(c) : p.scaleSet # ""
                   /\ \A i, j \in DOMAIN c.pools : i # j => c.pools[i].scaleSet # c.pools[j].scaleSet

ValidPools(c) ==
  /\ c.pools # <<>>
  /\ \A i, j \in DOMAIN c.pools : i # j => c.pools[i].name # c.pools[j].name
  /\ \A p \in Pools(c) :
       /\ p.name # "" /\ ValidBackend(p) /\ ValidWorkspace(p) /\ ValidRepository(c, p) /\ ValidWorkflows(p)
       /\ validateContainerConfig(p) /\ validateImageTier(p)
  /\ DistinctWorkspaces(c)

Validate(c) == ValidScope(c) /\ ValidAuth(c) /\ ValidPools(c) /\ DistinctScaleSets(c)

Load ==
  /\ LET c == applyDefaults(resolveSecrets(file)) IN
     IF Validate(c) THEN load' = "loaded" /\ cfg' = c ELSE load' = "rejected" /\ cfg' = file
  /\ UNCHANGED <<file, env>>
Spec == Init /\ [][Load]_vars

-----------------------------------------------------------------------------
Loaded == load = "loaded"

\* runOrchestrator: the targets its clients register runners with.
Clients(c) == IF c.scope \in {"repo", "repos"} THEN RepoTargets(c) ELSE <<<<c.owner>>>>
\* poolEnvAndMounts: the directories of the daemon's host each slot mounts to write to.
Workspaces(c) ==
  {w \in (DOMAIN c.pools) \X (1..2) : c.pools[w[1]].share /\ w[2] <= c.pools[w[1]].size}

\* No two clients register runners with one repository, however its entries are written, and no
\* client is without a repository.
ClientsAreDistinct ==
  Loaded => LET cs == Clients(cfg) IN
    \A i, j \in DOMAIN cs : "" \notin Range0(cs[i]) /\ (i # j => LowerAll(cs[i]) # LowerAll(cs[j]))

\* One credential serves every client: an installation belongs to one account, a device token to
\* one target, and neither reaches an enterprise; an unset variable does not count as a PAT.
CredentialFitsClients ==
  Loaded => LET cs == Clients(cfg) IN
    \/ cfg.pat # ""
    \/ /\ cfg.scope # "enterprise"
       /\ \/ cfg.appId # 0 /\ cfg.installation /\ \A i, j \in DOMAIN cs : Lower(cs[i][1]) = Lower(cs[j][1])
          \/ cfg.appId = 0 /\ cfg.tokenPath /\ Len(cs) = 1

\* A pool that is bound to a repository has a client that can register runners with it.
BoundPoolHasClient ==
  Loaded => \A p \in Pools(cfg) : p.repository # None =>
    \E i \in DOMAIN Clients(cfg) :
      \/ cfg.scope = "enterprise"
      \/ cfg.scope = "org" /\ Lower(Clients(cfg)[i][1]) = Lower(p.repository[1])
      \/ LowerAll(Clients(cfg)[i]) = LowerAll(p.repository)

\* No two runners, of one pool or of two, write to the same directory of the same daemon's host.
WorkspacesAreExclusive ==
  Loaded => \A a, b \in Workspaces(cfg) :
    a # b => LET p == cfg.pools[a[1]]
                 q == cfg.pools[b[1]]
             IN  Lower(p.host) # Lower(q.host) \/ p.folder # q.folder

\* "A scale set name only has to be unique per pool, and pool names already are": a file that names
\* no scale set is not rejected for the names.
UnnamedScaleSetsLoad ==
  (/\ load = "rejected" /\ \A p \in Pools(file) : p.scaleSet = "")
    => LET c == applyDefaults(resolveSecrets(file)) IN ~(ValidScope(c) /\ ValidAuth(c) /\ ValidPools(c))

Wrapped(x) == ((x + MaxInt + 1) % (2 * (MaxInt + 1))) - (MaxInt + 1)
\* Limits survive the conversion to the backend's units, and memory is within memory and swap.
LimitsFit ==
  Loaded => \A p \in Pools(cfg) :
    /\ \A n \in {p.cpus, p.memory, p.swap} : Wrapped(n * Unit) = n * Unit /\ Wrapped(n * Unit) >= 0
    /\ p.swap # 0 => Wrapped(p.memory * Unit) <= Wrapped(p.swap * Unit)

\* The image of every pool that runs containers is a reference the daemon can parse.
ImagesAreReferences ==
  Loaded => \A p \in Pools(cfg) : p.backend # "qemu" /\ ImageRef(p).tag = "dev" =>
    ImageRef(p).repository \in localImageTierPattern

\* What a configuration that loads can be relied on for, together.
ConfigIsCoherent ==
  /\ ClientsAreDistinct /\ CredentialFitsClients /\ BoundPoolHasClient /\ WorkspacesAreExclusive
  /\ UnnamedScaleSetsLoad /\ LimitsFit /\ ImagesAreReferences
=============================================================================
