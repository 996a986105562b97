----------------------------- MODULE DeviceLogin -----------------------------
(***************************************************************************)
(* `multirunner connect` with the shared App: a device code, the poll for  *)
(* the user's answer, the wait for the App's installation, and the three   *)
(* writes that end it (the token's sidecar, the configuration, a starter   *)
(* pool).  The user acts in a browser meanwhile, GitHub asks for slower    *)
(* polling, any call may fail, the command may be interrupted anywhere and *)
(* started again, and a service that runs on an earlier login may be       *)
(* refreshing the same sidecar (TokenRefresher has that side in detail).   *)
(* Time is in ticks and counts from the start of the poll and of the wait; *)
(* a goroutine may be late by any number of them.                          *)
(***************************************************************************)
EXTENDS Integers, FiniteSets

CONSTANTS
  Lifetime,        \* how long a device code lives; 0: GitHub did not say
  DefaultLifetime, \* what the client assumes then
  FirstInterval,   \* the interval GitHub asks for; 0: it did not say
  DefaultInterval, \* what the client assumes then
  Widen,           \* by how much slow_down widens the interval
  InstallTimeout,  \* how long connect waits for an installation
  ListEvery,       \* how often it looks
  Interactive,     \* the command runs on a terminal
  Owner,           \* the account named with --org or --repo; "" for none
  RepoTarget,      \* --repo was given
  Orgs,            \* the accounts that are organizations
  Accounts,        \* all accounts the App can be installed on
  MaxTime,         \* bound: the clock
  MaxSlow,         \* bound: slow_down answers
  MaxLogins        \* bound: runs of connect

LoginAssumption ==
  /\ {Lifetime, FirstInterval, MaxSlow, MaxTime} \subseteq Nat
  /\ {DefaultLifetime, DefaultInterval, Widen, InstallTimeout, ListEvery, MaxLogins} \subseteq Nat \ {0}
  /\ {Interactive, RepoTarget} \subseteq BOOLEAN /\ Orgs \subseteq Accounts
  /\ Owner \in Accounts \cup {""} /\ (RepoTarget => Owner # "")

VARIABLES
  now, login,         \* the clock; which run of connect this is
  st,                 \* where the run is
  interval, wake,     \* of the poll: its interval and when its timer fires
  until,              \* deadline of the code, then of the wait for an installation
  lastPoll, demanded, \* GitHub's side: when it was last asked and the gap it asked for
  slowed,             \* how often it answered slow_down
  user,               \* what the user did with the code
  installs,           \* where the App is installed
  seen, chosen,       \* the installations last listed and the one selected
  sidecar, conf,      \* the login whose token is saved, and the login and account configured
  github,             \* the host the configuration names
  lost,               \* the service's rotation has replaced a newer login's token
  svc                 \* the running service: the login of the token it is rotating, or 0

vars == <<now, login, st, interval, wake, until, lastPoll, demanded, slowed, user,
          installs, seen, chosen, sidecar, conf, github, lost, svc>>
poll == <<interval, wake, until, lastPoll, demanded, slowed>>
disk == <<sidecar, conf, github, lost>>

\* github.url: absent, GitHub's own, another host, or another host in a file that does not decode.
Hosts == {"", "dotcom", "other", "mistyped"}

Working == {"code", "polling", "list", "waiting", "select", "check", "save", "write", "pool"}

\* An earlier login may be configured, with a service running on it.
Init ==
  /\ now = 0 /\ login = 1 /\ st = "code"
  /\ interval = 0 /\ wake = 0 /\ until = 0 /\ lastPoll = 0 /\ demanded = 0 /\ slowed = 0
  /\ user = "pending" /\ installs \in SUBSET Accounts /\ seen = {} /\ chosen = ""
  /\ sidecar \in {0, 1} /\ conf = [login |-> sidecar, owner |-> IF sidecar = 0 THEN "" ELSE "earlier"]
  /\ github \in Hosts /\ lost = FALSE /\ svc = 0

\* Logins of this run of the model are numbered from 2, the earlier one is 1.
This == login + 1

Fail == st' = "failed" /\ UNCHANGED <<now, login, poll, user, installs, seen, chosen, disk, svc>>
Goto(s) == st' = s /\ UNCHANGED <<login, user, installs, svc>>

-----------------------------------------------------------------------------
(* The device code. *)

\* requireDotComTarget: the shared App does not exist elsewhere.  A file that does not decode gives
\* no hints and is not refused.
requireDotComTarget == github # "other"

\* RequestDeviceCode, if the target is right, and the start of PollDeviceToken, which fills in what GitHub left out.
RequestDeviceCode ==
  /\ st = "code"
  /\ \/ Fail
     \/ /\ requireDotComTarget
        /\ Goto("polling") /\ now' = 0 /\ UNCHANGED <<seen, chosen, disk>>
        /\ interval' = IF FirstInterval < 1 THEN DefaultInterval ELSE FirstInterval
        /\ until' = (IF Lifetime <= 0 THEN DefaultLifetime ELSE Lifetime)
        /\ wake' = interval' /\ lastPoll' = 0 /\ demanded' = interval' /\ slowed' = 0

\* slow_down: the interval GitHub returns if it is wider, else some more of the own.
Slower(offered) == IF offered > interval THEN offered ELSE interval + Widen

\* One round of PollDeviceToken, when its timer fires.  GitHub says slow_down to anybody who
\* asks sooner than it allows or when it wants to; without an interval of its own it means the
\* one it had asked for and five seconds more.
PollDeviceToken ==
  /\ st = "polling" /\ now >= wake
  /\ \/ now > until /\ Fail
     \/ Fail                                                          \* transport, expired, denied
     \/ /\ now <= until /\ user = "authorized"
        /\ Goto("list") /\ UNCHANGED <<now, poll, seen, chosen, disk>>
     \/ /\ now <= until /\ user = "pending"
        /\ lastPoll' = now /\ wake' = now + interval /\ UNCHANGED <<interval, demanded, slowed, until>>
        /\ UNCHANGED <<now, login, st, user, installs, seen, chosen, disk, svc>>
     \/ /\ now <= until /\ slowed < MaxSlow /\ slowed' = slowed + 1
        /\ \E offered \in {0, interval, demanded + Widen} :
             /\ interval' = Slower(offered)
             /\ demanded' = IF offered = 0 THEN demanded + Widen ELSE offered
        /\ lastPoll' = now /\ wake' = now + interval' /\ UNCHANGED until
        /\ UNCHANGED <<now, login, st, user, installs, seen, chosen, disk, svc>>

-----------------------------------------------------------------------------
(* The installation. *)

\* hasUsableInstall: the named account, or any organization.
hasUsableInstall(set) == IF Owner # "" THEN Owner \in set ELSE set \cap Orgs # {}

\* awaitInstallation lists once; only a terminal waits for what is not there yet.
ListInstalls ==
  /\ st = "list"
  /\ \/ Fail
     \/ /\ seen' = installs /\ UNCHANGED <<chosen, disk, interval, lastPoll, demanded, slowed>>
        /\ IF ~Interactive \/ hasUsableInstall(installs)
           THEN Goto("select") /\ UNCHANGED <<now, wake, until>>
           ELSE Goto("waiting") /\ now' = 0 /\ wake' = ListEvery /\ until' = InstallTimeout

\* The loop of awaitInstallation: the ticker, the timeout and any failure; if both timers
\* have fired select takes either.
AwaitInstallation ==
  /\ st = "waiting"
  /\ \/ now >= until /\ Fail
     \/ now >= wake /\ Fail
     \/ /\ now >= wake /\ seen' = installs
        /\ IF hasUsableInstall(installs) THEN Goto("select") /\ UNCHANGED wake
           ELSE Goto("waiting") /\ wake' = now + ListEvery
        /\ UNCHANGED <<now, chosen, disk, interval, until, lastPoll, demanded, slowed>>

\* Mutant: a personal account is as good as an organization.
SelectAny ==
  /\ st = "select"
  /\ LET ok == IF Owner # "" THEN seen \cap {Owner} ELSE seen
     IN IF Cardinality(ok) = 1 \/ (ok # {} /\ Interactive)
        THEN Goto("save") /\ chosen' \in ok /\ UNCHANGED <<now, poll, seen, disk>> ELSE Fail

\* selectInstallation: the named account, which must be an organization unless a repository
\* is the target; without a name the only organization, or the one the user picks.
SelectInstallation ==
  /\ st = "select"
  /\ LET ok == IF Owner # "" THEN {a \in seen : a = Owner /\ (RepoTarget \/ a \in Orgs)}
               ELSE seen \cap Orgs
     IN IF Cardinality(ok) = 1 \/ (ok # {} /\ Interactive)
        THEN /\ Goto(IF RepoTarget THEN "check" ELSE "save") /\ chosen' \in ok
             /\ UNCHANGED <<now, poll, seen, disk>>
        ELSE Fail

\* CheckInstallationRepository pages through the installation's repositories.
CheckRepository ==
  /\ st = "check"
  /\ Fail \/ (Goto("save") /\ UNCHANGED <<now, poll, seen, chosen, disk>>)

-----------------------------------------------------------------------------
(* The writes. *)

\* SaveUserToken replaces the sidecar, without the lock of the refresher.
SaveUserToken ==
  /\ st = "save"
  /\ \/ Fail
     \/ /\ Goto("write") /\ sidecar' = This /\ lost' = FALSE
        /\ UNCHANGED <<now, poll, seen, chosen, conf, github>>

\* WriteDeviceAuth: github.owner, github.url if it is absent, and auth, in one atomic replacement
\* of the file.
WriteDeviceAuth ==
  /\ st = "write"
  /\ \/ Fail
     \/ /\ Goto("pool") /\ conf' = [login |-> This, owner |-> chosen]
        /\ github' = IF github = "" THEN "dotcom" ELSE github
        /\ UNCHANGED <<now, poll, seen, chosen, sidecar, lost>>

\* addStarterPool; without it the login is reported as partial.
AddStarterPool ==
  /\ st = "pool"
  /\ Fail \/ (Goto("done") /\ UNCHANGED <<now, poll, seen, chosen, disk>>)

-----------------------------------------------------------------------------
(* The rest of the world. *)

Tick == st \in {"polling", "waiting"} /\ now < MaxTime /\ now' = now + 1
        /\ UNCHANGED <<login, st, poll, user, installs, seen, chosen, disk, svc>>

\* The user enters the code, and installs the App on an account.
Authorize == st = "polling" /\ user = "pending" /\ user' = "authorized"
             /\ UNCHANGED <<now, login, st, poll, installs, seen, chosen, disk, svc>>
Install(a) == a \notin installs /\ installs' = installs \cup {a}
              /\ UNCHANGED <<now, login, st, poll, user, seen, chosen, disk, svc>>

\* Ctrl-C or the death of the command; and another try, before which the file may be edited.
Interrupt == st \in Working /\ Fail
Again ==
  /\ st \in {"failed", "done"} /\ login < MaxLogins /\ login' = login + 1
  /\ st' = "code" /\ user' = "pending" /\ seen' = {} /\ chosen' = "" /\ now' = 0
  /\ interval' = 0 /\ wake' = 0 /\ until' = 0 /\ lastPoll' = 0 /\ demanded' = 0 /\ slowed' = 0
  /\ github' \in Hosts /\ UNCHANGED <<installs, sidecar, conf, lost, svc>>

\* The service reads the token, rotates it at GitHub and saves the rotation, under its lock.
ServiceReads == sidecar # 0 /\ svc = 0 /\ svc' = sidecar
                /\ UNCHANGED <<now, login, st, poll, user, installs, seen, chosen, disk>>
ServiceSaves == svc # 0 /\ sidecar' = svc /\ svc' = 0 /\ lost' = (lost \/ svc # sidecar)
                /\ UNCHANGED <<now, login, st, poll, user, installs, seen, chosen, conf, github>>

Connect ==
  \/ RequestDeviceCode \/ PollDeviceToken
  \/ ListInstalls \/ AwaitInstallation \/ SelectInstallation \/ CheckRepository
  \/ SaveUserToken \/ WriteDeviceAuth \/ AddStarterPool

Next ==
  \/ Connect
  \/ Tick \/ Authorize \/ Interrupt \/ Again
  \/ \E a \in Accounts : Install(a)
  \/ ServiceReads \/ ServiceSaves

Spec == Init /\ [][Next]_vars

-----------------------------------------------------------------------------
\* The client never asks again sooner than GitHub has asked for, also after several
\* slow_down answers, some with an interval of their own and some without.
PollsAsAsked == st = "polling" => wake - lastPoll >= demanded

\* The configuration never names a token store that has no token in it, whatever failed and
\* wherever the command was interrupted, and the token is that of the login it was written for or
\* of a later one which did not come to write it; but a service that read the older token before
\* this one was saved may put its rotation of it back.
ConfiguredIsSaved == conf.login # 0 => sidecar # 0 /\ (sidecar >= conf.login \/ lost)

\* A login that reports success has saved its own token, but for such a service, and configured the
\* account it was asked for, an organization if it is not for one repository, where the App is
\* installed.
SuccessIsUsable ==
  st = "done" =>
    /\ sidecar = This \/ lost
    /\ conf.login = This /\ conf.owner \in installs
    /\ Owner # "" => conf.owner = Owner
    /\ ~RepoTarget => conf.owner \in Orgs

\* A token of GitHub's own is not configured for a host that is not: not even by a run that fails
\* later, and the file may be edited before each.
TokenStaysHome == conf.login = This => github # "other"

\* What connect promises, together.
ConnectedIsUsable == SuccessIsUsable /\ ConfiguredIsSaved /\ TokenStaysHome /\ PollsAsAsked
==============================================================================
