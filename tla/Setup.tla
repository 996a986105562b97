-------------------------------- MODULE Setup --------------------------------
(***************************************************************************)
(* What happens before runners are served: the configuration is loaded,    *)
(* the doctor looks at the host and at GitHub, an App is connected, pools  *)
(* become requests for containers, a bake picks its ports.  Each is a      *)
(* command, or a part of one, of its own, so a behaviour is one of a       *)
(* single component under one setup (at): the variables that are not its   *)
(* own are Off.  Variables of the same name are shared.  A setup gives a   *)
(* component's constants their values, as a record P with a field for each *)
(* of them.                                                                *)
(***************************************************************************)
EXTENDS Integers

CONSTANTS
  ConfigSetups, DoctorSetups, LaunchSetups, PortSetups, LoginSetups, AppSetups, \* functions from names to setups
  Off   \* a model value

VARIABLES
  at,
  now, st, conf,                                                     \* of more than one instance
  file, env, load, cfg,                                              \* ConfigLoad
  world, phase, allOK, pinged, blamed, check,                                \* Doctor
  pool, cache, own, gateway, step, req, ctr,                         \* LaunchRequest
  flags, busy, pc, vnc, websocket, bound,                            \* BakePorts
  login, interval, wake, until, lastPoll, demanded, slowed, user, installs, seen, chosen, sidecar, \* DeviceLogin
  github, lost, svc,
  run, before, prov, flagURL, declined, perms, events, apps, called, credsCh, installCh, errCh, \* OwnApp
  app, inst, key, torn, reported

configOwn == <<file, env, load, cfg>>
doctorOwn == <<world, phase, allOK, pinged, blamed, check>>
launchOwn == <<pool, cache, own, gateway, step, req, ctr>>
portsOwn  == <<flags, busy, pc, vnc, websocket, bound>>
loginOwn  == <<login, interval, wake, until, lastPoll, demanded, slowed, user, installs, seen, chosen, sidecar,
               github, lost, svc>>
appOwn    == <<run, before, prov, flagURL, declined, perms, events, apps, called, credsCh, installCh, errCh, app, inst,
               key, torn, reported>>
shared    == <<now, st, conf>>
vars == <<at, shared, configOwn, doctorOwn, launchOwn, portsOwn, loginOwn, appOwn>>

\* The variables an instance leaves alone.
notConfig == <<at, shared, doctorOwn, launchOwn, portsOwn, loginOwn, appOwn>>
notDoctor == <<at, st, conf, configOwn, launchOwn, portsOwn, loginOwn, appOwn>>
notLaunch == <<at, shared, configOwn, doctorOwn, portsOwn, loginOwn, appOwn>>
notPorts  == <<at, shared, configOwn, doctorOwn, launchOwn, loginOwn, appOwn>>
notLogin  == <<at, configOwn, doctorOwn, launchOwn, portsOwn, appOwn>>
notApp    == <<at, now, configOwn, doctorOwn, launchOwn, portsOwn, loginOwn>>

SharedOff == now = Off /\ st = Off /\ conf = Off
ConfigOff == file = Off /\ env = Off /\ load = Off /\ cfg = Off
DoctorOff == world = Off /\ phase = Off /\ allOK = Off /\ pinged = Off /\ blamed = Off /\ check = Off
LaunchOff == /\ pool = Off /\ cache = Off /\ own = Off /\ gateway = Off
             /\ step = Off /\ req = Off /\ ctr = Off
PortsOff == flags = Off /\ busy = Off /\ pc = Off /\ vnc = Off /\ websocket = Off /\ bound = Off
LoginOff == /\ login = Off /\ interval = Off /\ wake = Off /\ until = Off /\ lastPoll = Off /\ demanded = Off
            /\ slowed = Off /\ user = Off /\ installs = Off /\ seen = Off /\ chosen = Off
            /\ sidecar = Off /\ github = Off /\ lost = Off /\ svc = Off
AppOff == /\ run = Off /\ before = Off
          /\ prov = Off /\ flagURL = Off /\ declined = Off /\ perms = Off /\ events = Off /\ apps = Off
          /\ called = Off /\ credsCh = Off /\ installCh = Off /\ errCh = Off /\ app = Off /\ inst = Off
          /\ key = Off /\ torn = Off /\ reported = Off

-----------------------------------------------------------------------------
Config(P) == INSTANCE ConfigLoad WITH Family <- P.Family, MaxInt <- P.MaxInt, Unit <- P.Unit
Doctor(P) == INSTANCE Doctor WITH
  PoolNames <- P.PoolNames, Repos <- P.Repos, Concurrency <- P.Concurrency, PoolTimeout <- P.PoolTimeout,
  PingTime <- P.PingTime, CheckTimeout <- P.CheckTimeout, RepoTimeout <- P.RepoTimeout,
  Daemons <- P.Daemons, Answers <- P.Answers
Request(P) == INSTANCE LaunchRequest WITH
  Pools <- P.Pools, Owners <- P.Owners, Caches <- P.Caches, Gateways <- P.Gateways, Unit <- P.Unit,
  MaxInt <- P.MaxInt
Bake(P) == INSTANCE BakePorts WITH Low <- P.Low, High <- P.High, QMP <- P.QMP
Login(P) == INSTANCE DeviceLogin WITH
  Lifetime <- P.Lifetime, DefaultLifetime <- P.DefaultLifetime, FirstInterval <- P.FirstInterval,
  DefaultInterval <- P.DefaultInterval, Widen <- P.Widen, InstallTimeout <- P.InstallTimeout,
  ListEvery <- P.ListEvery, Interactive <- P.Interactive, Owner <- P.Owner, RepoTarget <- P.RepoTarget, Orgs <- P.Orgs,
  Accounts <- P.Accounts, MaxTime <- P.MaxTime, MaxSlow <- P.MaxSlow, MaxLogins <- P.MaxLogins
Own(P) == INSTANCE OwnApp WITH
  Scope <- P.Scope, Provisionings <- P.Provisionings, Interactive <- P.Interactive, Detect <- P.Detect,
  FixedPort <- P.FixedPort, MaxApps <- P.MaxApps, MaxRuns <- P.MaxRuns

SetupAssumption ==
  /\ \A i \in DOMAIN ConfigSetups : Config(ConfigSetups[i])!ConfigAssumption
  /\ \A i \in DOMAIN DoctorSetups : Doctor(DoctorSetups[i])!DoctorAssumption
  /\ \A i \in DOMAIN LaunchSetups : Request(LaunchSetups[i])!RequestAssumption
  /\ \A i \in DOMAIN PortSetups : Bake(PortSetups[i])!PortsAssumption
  /\ \A i \in DOMAIN LoginSetups : Login(LoginSetups[i])!LoginAssumption
  /\ \A i \in DOMAIN AppSetups : Own(AppSetups[i])!OwnAppAssumption

-----------------------------------------------------------------------------
ConfigAlone == SharedOff /\ DoctorOff /\ LaunchOff /\ PortsOff /\ LoginOff /\ AppOff
DoctorAlone == st = Off /\ conf = Off /\ ConfigOff /\ LaunchOff /\ PortsOff /\ LoginOff /\ AppOff
LaunchAlone == SharedOff /\ ConfigOff /\ DoctorOff /\ PortsOff /\ LoginOff /\ AppOff
PortsAlone == SharedOff /\ ConfigOff /\ DoctorOff /\ LaunchOff /\ LoginOff /\ AppOff
LoginAlone == ConfigOff /\ DoctorOff /\ LaunchOff /\ PortsOff /\ AppOff
AppAlone == now = Off /\ ConfigOff /\ DoctorOff /\ LaunchOff /\ PortsOff /\ LoginOff

Init ==
  \/ \E i \in DOMAIN ConfigSetups : at = <<"config", i>> /\ Config(ConfigSetups[i])!Init /\ ConfigAlone
  \/ \E i \in DOMAIN DoctorSetups : at = <<"doctor", i>> /\ Doctor(DoctorSetups[i])!Init /\ DoctorAlone
  \/ \E i \in DOMAIN LaunchSetups : at = <<"launch", i>> /\ Request(LaunchSetups[i])!Init /\ LaunchAlone
  \/ \E i \in DOMAIN PortSetups : at = <<"ports", i>> /\ Bake(PortSetups[i])!Init /\ PortsAlone
  \/ \E i \in DOMAIN LoginSetups : at = <<"login", i>> /\ Login(LoginSetups[i])!Init /\ LoginAlone
  \/ \E i \in DOMAIN AppSetups : at = <<"app", i>> /\ Own(AppSetups[i])!Init /\ AppAlone

Next ==
  \/ \E i \in DOMAIN ConfigSetups : at = <<"config", i>> /\ Config(ConfigSetups[i])!Load /\ UNCHANGED notConfig
  \/ \E i \in DOMAIN DoctorSetups : at = <<"doctor", i>> /\ Doctor(DoctorSetups[i])!Next /\ UNCHANGED notDoctor
  \/ \E i \in DOMAIN LaunchSetups : at = <<"launch", i>> /\ Request(LaunchSetups[i])!Next /\ UNCHANGED notLaunch
  \/ \E i \in DOMAIN PortSetups : at = <<"ports", i>> /\ Bake(PortSetups[i])!Next /\ UNCHANGED notPorts
  \/ \E i \in DOMAIN LoginSetups : at = <<"login", i>> /\ Login(LoginSetups[i])!Next /\ UNCHANGED notLogin
  \/ \E i \in DOMAIN AppSetups : at = <<"app", i>> /\ Own(AppSetups[i])!Next /\ UNCHANGED notApp

Spec == Init /\ [][Next]_vars

-----------------------------------------------------------------------------
\* A configuration that loads can be run: no two clients register runners with one repository,
\* however it is written; the credential serves all of them; a pool bound to a repository has a
\* client for it; no two runners share a directory of one host; limits survive the conversion to
\* a backend's units; images are references; and nothing is rejected for names it did not
\* choose (Load, applyDefaults, Validate).
ConfigIsCoherent ==
  \A i \in DOMAIN ConfigSetups : at = <<"config", i>> => Config(ConfigSetups[i])!ConfigIsCoherent

\* The doctor passes exactly when there is nothing to report and the pings of the pools fit into the
\* deadline they share: no phase hides what an earlier one found or runs on time that another used
\* up. A pool whose daemon is well is reported only because of another that is slow, hung or gone,
\* and a repository that answers in time is never reported as not checked, however slow the others
\* are (doctor, runRepoChecks).
VerdictIsSound ==
  \A i \in DOMAIN DoctorSetups : at = <<"doctor", i>> =>
    /\ Doctor(DoctorSetups[i])!VerdictIsSound /\ Doctor(DoctorSetups[i])!BlameIsFair
    /\ Doctor(DoctorSetups[i])!AnswersInTimeCount

\* What the configuration accepts, the backends start, as it was meant: the validations of the
\* packages agree, no limit is dropped or wraps, a runner reaches the cache by every URL it is given
\* (but with containerd on a host without a gateway), later processes of its own instance, target
\* and pool find it and no others do, and the listeners of a bake do not contend for a port, but
\* for a viewer on the port of QMP (launchConfigs, launchArgs, prepareVNC).
LaunchesFit ==
  /\ \A i \in DOMAIN LaunchSetups : at = <<"launch", i>> => Request(LaunchSetups[i])!LaunchesFit
  /\ \A i \in DOMAIN PortSetups : at = <<"ports", i>> => Bake(PortSetups[i])!ListenersDoNotCollide

\* A connection that is configured works: a login that reports success configured the account it
\* was asked for, on GitHub's own host, and has its own token saved unless a service puts the
\* rotation of an older one back, without asking GitHub more often than it allows; an App of one's
\* own can do what the configuration asks of it, its key is on disk unless a later run has cut the
\* file and has not come to the configuration, and a failure that does not name the App has
\* written nothing (connect).
ConnectedIsUsable ==
  /\ \A i \in DOMAIN LoginSetups : at = <<"login", i>> => Login(LoginSetups[i])!ConnectedIsUsable
  /\ \A i \in DOMAIN AppSetups : at = <<"app", i>> => Own(AppSetups[i])!ConnectedIsUsable
=============================================================================
