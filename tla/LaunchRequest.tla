---------------------------- MODULE LaunchRequest ----------------------------
(***************************************************************************)
(* From a pool of the configuration to the container the daemon is asked   *)
(* for: the settings in the daemon's units, the environment that points a  *)
(* runner at the host's cache, and the labels by which a later process     *)
(* recognises the container.  The three are computed in different packages *)
(* (config, the command, backend), each with its own validation.           *)
(***************************************************************************)
EXTENDS Integers

CONSTANTS
  Pools,       \* pools: os, backend, cpus, memory and swap (MiB), dns
  Caches,      \* hosts of the cache as runners see it: advertise, whether bundles are served
  Owners,      \* ownerships a launch may carry
  Gateways,    \* whether the host has an address on the containers' network
  Unit,        \* nanoCPUs per CPU and bytes per MiB, scaled
  MaxInt       \* the largest int64, scaled: one less than a power of two

\* A pool whose daemon runs containers of another system is refused before it launches any, and
\* containerd always says windows (preparePool, OSType).
RequestAssumption ==
  /\ Unit \in Nat \ {0} /\ MaxInt \in Nat \ {0} /\ Gateways \subseteq BOOLEAN
  /\ Pools \subseteq [os : STRING, backend : STRING, cpus : Int, memory : Int, swap : Int, dns : STRING]
  /\ \A p \in Pools : p.backend = "containerd" => p.os = "windows"
  /\ Caches \subseteq [advertise : STRING, bundles : BOOLEAN]
  /\ Owners \subseteq [instance : STRING, target : STRING, pool : STRING, set : Nat, runner : Nat]

VARIABLES pool, cache, own, gateway, step, req, ctr
vars == <<pool, cache, own, gateway, step, req, ctr>>

\* int64 arithmetic: what does not fit wraps around.
Wrap(n) == ((n + MaxInt + 1) % (2 * (MaxInt + 1))) - (MaxInt + 1)
MaxCount == MaxInt \div Unit
Without(f, keys) == [k \in DOMAIN f \ keys |-> f[k]]

-----------------------------------------------------------------------------
(* The configuration and the command. *)

\* validateContainerConfig, for the backends that run containers.
validateContainerConfig(p) ==
  /\ p.cpus \in 0..MaxCount /\ p.memory \in 0..MaxCount /\ p.swap \in 0..MaxCount
  /\ p.swap # 0 => p.memory # 0 /\ p.swap >= p.memory
  /\ p.os = "windows" => p.swap = 0
  /\ p.backend = "containerd" => p.dns = "none"
  /\ p.dns # "name"

\* Mutant: the memory is passed on in MiB and the swap in bytes.
MixedUnits(p) ==
  [cpu |-> p.cpus, memory |-> p.memory, swap |-> Wrap(p.swap * Unit), dns |-> p.dns]
\* normalizedContainerSettings: MiB become bytes.
normalizedContainerSettings(p) ==
  [cpu |-> p.cpus, memory |-> Wrap(p.memory * Unit), swap |-> Wrap(p.swap * Unit), dns |-> p.dns]

\* cache.RunnerEnv and the part of poolEnvAndMounts that adds the bundle's URL: all three
\* name the same host.
poolEnv(c) ==
  LET on == (IF c.advertise = "" THEN {} ELSE {"ACTIONS_RESULTS_URL", "ACTIONS_CACHE_URL"})
            \cup (IF c.advertise # "" /\ c.bundles THEN {"MR_GIT_BUNDLE_URL"} ELSE {})
  IN [k \in on |-> c.advertise]

-----------------------------------------------------------------------------
(* Ownership and labels. *)

NoOwner == [instance |-> "", target |-> "", pool |-> "", set |-> 0, runner |-> 0]
IsZero(o) == o = NoOwner
\* RunnerOwnership.Validate, which does not ask for the runner.
Validate(o) == IsZero(o) \/ (o.instance # "" /\ o.target # "" /\ o.pool # "" /\ o.set # 0)

ownershipLabels(o) ==
  IF IsZero(o) THEN [k \in {} |-> ""]
  ELSE [k \in {"managed", "instance", "target", "pool", "scale-set", "runner-id"} |->
         CASE k = "managed" -> "true" [] k = "scale-set" -> o.set [] k = "runner-id" -> o.runner
           [] k = "instance" -> o.instance [] k = "target" -> o.target [] OTHER -> o.pool]

\* reconciliationLabels: a scale set that was deleted and made again has another ID.
reconciliationLabels(o) == Without(ownershipLabels(o), {"scale-set", "runner-id"})

labelsMatch(actual, expected) ==
  \A k \in DOMAIN expected : k \in DOMAIN actual /\ actual[k] = expected[k]
\* ownedRunner: a runner's ID that is a number other than 0.
ownedRunner(labels) == "runner-id" \in DOMAIN labels /\ labels["runner-id"] # 0

\* ListOwnedRunners of a process with ownership o has a container with these labels.
Listed(labels, o) ==
  ~IsZero(o) /\ Validate(o) /\ labelsMatch(labels, reconciliationLabels(o)) /\ ownedRunner(labels)

-----------------------------------------------------------------------------
(* The backends. *)

\* validateContainerSettings: a CPU count that overflows NanoCPUs is refused here too.
validateContainerSettings(s) ==
  /\ s.cpu \in 0..MaxCount /\ s.memory >= 0 /\ s.swap >= 0
  /\ s.swap # 0 => s.memory # 0 /\ s.swap >= s.memory
  /\ s.dns # "name"

\* CacheHost: the host to map, unless there is no cache or it is an address.
CacheHost(env) ==
  IF "ACTIONS_RESULTS_URL" \notin DOMAIN env \/ env["ACTIONS_RESULTS_URL"] = "10.0.0.5" THEN ""
  ELSE env["ACTIONS_RESULTS_URL"]

\* RewriteCacheHost: host names are replaced in all three, addresses are left.
RewriteCacheHost(env, host) ==
  [k \in DOMAIN env |-> IF env[k] = "10.0.0.5" THEN env[k] ELSE host]

\* The ownership checks both Launches begin with.
OwnershipAccepted(o) == Validate(o) /\ (~IsZero(o) => o.runner # 0)

\* dockerBackend.launchConfigs.
DockerAccepts(r) ==
  /\ OwnershipAccepted(r.own) /\ validateContainerSettings(r.set)
  /\ pool.os = "windows" => r.set.swap = 0
launchConfigs(r) ==
  [env |-> r.env, hosts |-> {CacheHost(r.env)} \ {""},
   cpu |-> IF pool.os = "windows" THEN r.set.cpu ELSE Wrap(r.set.cpu * Unit),
   memory |-> r.set.memory, swap |-> r.set.swap, dns |-> r.set.dns, labels |-> ownershipLabels(r.own)]

\* containerdBackend.Launch with launchArgs.
NerdctlAccepts(r) ==
  /\ OwnershipAccepted(r.own) /\ validateContainerSettings(r.set)
  /\ r.set.swap = 0 /\ r.set.dns = "none"
launchArgs(r) ==
  [env |-> IF CacheHost(r.env) # "" /\ gateway THEN RewriteCacheHost(r.env, "gateway") ELSE r.env,
   hosts |-> {}, cpu |-> r.set.cpu, memory |-> r.set.memory, swap |-> 0, dns |-> "none",
   labels |-> ownershipLabels(r.own)]

-----------------------------------------------------------------------------
None == [none |-> TRUE]
Refused == [refused |-> TRUE]

Init ==
  /\ pool \in Pools /\ cache \in Caches /\ own \in Owners /\ gateway \in Gateways
  /\ step = "load" /\ req = None /\ ctr = None

\* The configuration is loaded, or refused and the process ends.
Load ==
  /\ step = "load" /\ step' = IF validateContainerConfig(pool) THEN "prepare" ELSE "end"
  /\ UNCHANGED <<pool, cache, own, gateway, req, ctr>>

Prepare ==
  /\ step = "prepare" /\ step' = "launch"
  /\ req' = [set |-> normalizedContainerSettings(pool), env |-> poolEnv(cache), own |-> own]
  /\ UNCHANGED <<pool, cache, own, gateway, ctr>>

Launch ==
  /\ step = "launch" /\ step' = "end"
  /\ ctr' = IF pool.backend = "containerd"
            THEN IF NerdctlAccepts(req) THEN launchArgs(req) ELSE Refused
            ELSE IF DockerAccepts(req) THEN launchConfigs(req) ELSE Refused
  /\ UNCHANGED <<pool, cache, own, gateway, req>>

Next == Load \/ Prepare \/ Launch
Spec == Init /\ [][Next]_vars

-----------------------------------------------------------------------------
Launched == step = "end" /\ ctr \notin {None, Refused}

\* A pool that the configuration accepts is never refused by a backend because of its
\* settings: the validations of the two packages, one in MiB and one in bytes, agree.
ConfiguredPoolsLaunch ==
  step = "end" /\ ctr = Refused => ~OwnershipAccepted(own)

\* What the daemon is told is what the pool says: no limit is dropped, no unit is lost and no
\* product wraps, and the pool's name servers are used.
DaemonGetsTheLimits ==
  Launched =>
    /\ ctr.memory = pool.memory * Unit /\ ctr.swap = pool.swap * Unit /\ ctr.dns = pool.dns
    /\ ctr.cpu = IF pool.backend = "containerd" \/ pool.os = "windows" THEN pool.cpus ELSE pool.cpus * Unit

\* A runner can reach the host of every cache URL it is given: an address, a name the
\* backend maps, or the gateway where names cannot be mapped. The exception is containerd on a
\* host without an address on the containers' network: the name is passed on as it is.
CacheIsReachable ==
  Launched => \A k \in DOMAIN ctr.env :
    \/ ctr.env[k] \in {"10.0.0.5", "gateway"} \cup ctr.hosts
    \/ pool.backend = "containerd" /\ ~gateway

\* A container is found by the later processes of its own instance, target and pool, also
\* when the scale set has been made again under another ID, and by no others; one launched
\* without an owner is found by nobody.
FoundByItsOwnOnly ==
  Launched => \A o \in Owners :
    Validate(o) /\ ~IsZero(o) =>
      (Listed(ctr.labels, o) <=>
        ~IsZero(own) /\ o.instance = own.instance /\ o.target = own.target /\ o.pool = own.pool)

\* What a launch of a configured pool promises, together.
LaunchesFit == ConfiguredPoolsLaunch /\ DaemonGetsTheLimits /\ CacheIsReachable /\ FoundByItsOwnOnly
==============================================================================
