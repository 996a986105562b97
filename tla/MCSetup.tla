------------------------------- MODULE MCSetup -------------------------------
(***************************************************************************)
(* Setup on small instances: three families of configuration files, two    *)
(* hosts for the doctor, pools at the edges of every limit and under every *)
(* owner, and four ways to connect.                                        *)
(***************************************************************************)
EXTENDS Setup

\* Files that vary in the target and the credentials, in two pools, and in the limits and images
\* of one pool.
Files == [f \in {"target", "pools", "limits"} |-> [Family |-> f, MaxInt |-> 31, Unit |-> 4]]

\* Two daemons under one deadline, and three repositories checked two at a time.
TwoHosts == [
  daemons |-> [PoolNames |-> {"p1", "p2"}, Repos |-> {"r1", "r2"}, Concurrency |-> 1, PoolTimeout |-> 3,
               PingTime |-> 2, CheckTimeout |-> 3, RepoTimeout |-> 2,
               Daemons |-> {"up", "slow", "hung", "refused", "wrongMode", "noMode"}, Answers |-> {"fine", "lost"}],
  repositories |-> [PoolNames |-> {"p1"}, Repos |-> {"r1", "r2", "r3"}, Concurrency |-> 2, PoolTimeout |-> 3,
                    PingTime |-> 2, CheckTimeout |-> 3, RepoTimeout |-> 2,
                    Daemons |-> {"up"}, Answers |-> {"fine", "late", "lost", "off", "forbidden"}]]

\* Limits on both sides of the largest int64 and of each other; and every owner with every cache,
\* to see who finds a container and how it reaches the cache.
Hosts == {<<"linux", "docker">>, <<"windows", "docker">>, <<"windows", "containerd">>}
LimitPools ==
  {[os |-> h[1], backend |-> h[2], cpus |-> c, memory |-> m, swap |-> s, dns |-> d] :
     h \in Hosts, c \in {-1, 0, 12, 13}, m \in {-1, 0, 5, 12, 13}, s \in {-1, 0, 4, 12, 13},
     d \in {"none", "ip", "name"}}
PlainPools ==
  {[os |-> h[1], backend |-> h[2], cpus |-> 0, memory |-> 0, swap |-> 0, dns |-> "none"] : h \in Hosts}
AllOwners ==
  [instance : {"", "a", "b"}, target : {"", "t"}, pool : {"", "p", "q"}, set : 0..2, runner : 0..1]
TwoOwners == {o \in AllOwners : o \in {[instance |-> "", target |-> "", pool |-> "", set |-> 0, runner |-> 0],
                                       [instance |-> "a", target |-> "t", pool |-> "p", set |-> 1, runner |-> 1]}}
ManyLaunches == [
  limits |-> [Pools |-> LimitPools, Owners |-> TwoOwners,
              Caches |-> [advertise : {"host.docker.internal"}, bundles : {TRUE}],
              Gateways |-> {TRUE}, Unit |-> 10, MaxInt |-> 127],
  labels |-> [Pools |-> PlainPools, Owners |-> AllOwners,
              Caches |-> [advertise : {"", "10.0.0.5", "host.docker.internal"}, bundles : BOOLEAN],
              Gateways |-> BOOLEAN, Unit |-> 10, MaxInt |-> 127]]

FourPorts == [listeners |-> [Low |-> {80, 4455}, QMP |-> 4455, High |-> {5901, 5902, 5903}]]

\* The shared App on a terminal and from a script, where an own account is named and GitHub says
\* nothing of lifetimes; an App of one's own for a repository, and for an organization with the same
\* port for both runs, by a user who may create two.
TwoLogins == [
  terminal |-> [Lifetime |-> 5, DefaultLifetime |-> 6, FirstInterval |-> 1, DefaultInterval |-> 2, Widen |-> 2,
                InstallTimeout |-> 4, ListEvery |-> 2, Interactive |-> TRUE, Owner |-> "", RepoTarget |-> FALSE,
                Orgs |-> {"acme", "umbrella"}, Accounts |-> {"acme", "umbrella", "me"},
                MaxTime |-> 15, MaxSlow |-> 2, MaxLogins |-> 1],
  script |-> [Lifetime |-> 0, DefaultLifetime |-> 6, FirstInterval |-> 0, DefaultInterval |-> 2, Widen |-> 2,
              InstallTimeout |-> 4, ListEvery |-> 2, Interactive |-> FALSE, Owner |-> "me", RepoTarget |-> TRUE,
              Orgs |-> {"acme"}, Accounts |-> {"acme", "me"}, MaxTime |-> 15, MaxSlow |-> 2, MaxLogins |-> 2]]
EveryProvisioning == {"", "pool", "scaleset", "autoscale"}
TwoApps == [
  repo |-> [Scope |-> "repo", Provisionings |-> EveryProvisioning, Interactive |-> FALSE, Detect |-> FALSE,
            FixedPort |-> FALSE, MaxApps |-> 2, MaxRuns |-> 2],
  org |-> [Scope |-> "org", Provisionings |-> EveryProvisioning, Interactive |-> TRUE, Detect |-> TRUE,
           FixedPort |-> TRUE, MaxApps |-> 2, MaxRuns |-> 2]]

ASSUME SmallSetups == SetupAssumption
=============================================================================
