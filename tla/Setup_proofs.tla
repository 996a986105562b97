---------------------------- MODULE Setup_proofs ----------------------------
(***************************************************************************)
(* Proofs about what happens before runners are served, under any setups:  *)
(* any accounts, deadlines, repositories, pools and limits.  Each section  *)
(* is about one component under one setup P; the last one puts them        *)
(* together.                                                               *)
(***************************************************************************)
EXTENDS Setup, FiniteSets, Sequences, FiniteSetTheorems, TLAPS

-----------------------------------------------------------------------------
(* DeviceLogin: the gap between polls only widens, the account is chosen   *)
(* among the installations seen, and the token is saved before it is used. *)


LoginTypes(P) ==
  /\ now \in Nat /\ interval \in Nat /\ wake \in Nat /\ lastPoll \in Nat /\ demanded \in Nat
  /\ login \in Nat /\ sidecar \in Nat /\ svc \in Nat /\ lost \in BOOLEAN
  /\ P.Widen \in Nat /\ P.FirstInterval \in Nat /\ P.DefaultInterval \in Nat /\ P.ListEvery \in Nat

\* What the client waits is what GitHub asked for at the least.
PollInv == st = "polling" => wake - lastPoll >= demanded /\ interval >= demanded
\* The account that was asked for, an organization if it is not for one repository.
AskedFor(P, a) == (P.Owner # "" => a = P.Owner) /\ (~P.RepoTarget => a \in P.Orgs)
\* An account is chosen that the App was seen on, and the configuration gets it.
ChosenInv(P) ==
  /\ seen \subseteq installs
  /\ st \in {"check", "save", "write", "pool", "done"} => chosen \in seen /\ AskedFor(P, chosen)
  /\ st \in {"pool", "done"} => conf.login = login + 1 /\ conf.owner = chosen
\* The token is there before the configuration that names it, and stays unless an older one is put
\* back over it.
SavedInv ==
  /\ conf.login \in Nat /\ conf.login <= login + 1
  /\ (conf.login # 0 => sidecar # 0) /\ (st \in {"write", "pool", "done"} => sidecar # 0)
  /\ ~lost => sidecar >= conf.login /\ sidecar <= login + 1 /\ (st \in {"write", "pool", "done"} => sidecar = login + 1)
  /\ svc <= login + 1 /\ sidecar <= login + 1
\* A run that has asked for a code found the configuration to be for GitHub's own host.
HomeInv ==
  /\ st \notin {"code", "failed"} => github # "other"
  /\ st = "code" => conf.login # login + 1
  /\ conf.login = login + 1 => github # "other"

LoginInv(P) == LoginTypes(P) /\ PollInv /\ ChosenInv(P) /\ SavedInv /\ HomeInv

LEMMA LoginStep ==
  ASSUME NEW P, Login(P)!LoginAssumption, LoginInv(P), [Login(P)!Next]_(Login(P)!vars)
  PROVE  LoginInv(P)'
<1> USE DEF LoginInv, Login!poll, Login!disk, Login!Goto
<1>s. ASSUME UNCHANGED <<login, sidecar, conf, github, lost, svc>>,
             st' \in {"write", "pool", "done"} => st \in {"write", "pool", "done"},
             st' = "failed" \/ st \notin {"code", "failed"} \/ github # "other", st' = "code" => st = "code"
      PROVE  SavedInv' /\ HomeInv'
  BY <1>s DEF SavedInv, HomeInv
<1>f. ASSUME Login(P)!Fail PROVE LoginInv(P)'
  BY <1>f DEF Login!Fail, LoginTypes, PollInv, ChosenInv, SavedInv, HomeInv
<1>1. ASSUME Login(P)!RequestDeviceCode PROVE LoginInv(P)'
  BY <1>1, <1>f DEF Login!RequestDeviceCode, Login!requireDotComTarget, LoginTypes, PollInv, ChosenInv, SavedInv, HomeInv
<1>2. ASSUME Login(P)!PollDeviceToken PROVE LoginInv(P)'
  <2>1. ASSUME NEW i \in Nat, NEW d \in Nat, i >= d, interval' = i, demanded' = d, lastPoll' = now, wake' = now + i,
               UNCHANGED <<now, login, st, user, installs, seen, chosen, sidecar, conf, github, lost, svc>>
        PROVE  LoginInv(P)'
    BY <2>1 DEF LoginTypes, PollInv, ChosenInv, SavedInv, HomeInv
  <2>2. CASE lastPoll' = now /\ wake' = now + interval /\ UNCHANGED <<interval, demanded, slowed, until>>
             /\ UNCHANGED <<now, login, st, user, installs, seen, chosen, sidecar, conf, github, lost, svc>>
    BY <1>2, <2>1, <2>2 DEF Login!PollDeviceToken, LoginTypes, PollInv
  <2>3. CASE \E offered \in {0, interval, demanded + P.Widen} :
               /\ interval' = Login(P)!Slower(offered)
               /\ demanded' = IF offered = 0 THEN demanded + P.Widen ELSE offered
               /\ lastPoll' = now /\ wake' = now + interval'
               /\ UNCHANGED <<now, login, st, user, installs, seen, chosen, sidecar, conf, github, lost, svc>>
    <3>1. interval >= demanded /\ interval \in Nat /\ demanded \in Nat /\ P.Widen \in Nat
      BY <1>2 DEF Login!PollDeviceToken, LoginTypes, PollInv
    <3>2. PICK offered \in {0, interval, demanded + P.Widen} :
               /\ interval' = Login(P)!Slower(offered)
               /\ demanded' = IF offered = 0 THEN demanded + P.Widen ELSE offered
               /\ lastPoll' = now /\ wake' = now + interval'
               /\ UNCHANGED <<now, login, st, user, installs, seen, chosen, sidecar, conf, github, lost, svc>>
      BY <2>3
    <3>3. interval' \in Nat /\ demanded' \in Nat /\ interval' >= demanded'
      BY <3>1, <3>2 DEF Login!Slower
    <3> QED BY <3>2, <3>3, <2>1
  <2>4. CASE st' = "list" /\ UNCHANGED <<now, login, interval, wake, lastPoll, demanded, user, installs, seen,
                                         chosen, sidecar, conf, github, lost, svc>>
    <3>1. SavedInv' /\ HomeInv'
      BY <1>2, <1>s, <2>4 DEF Login!PollDeviceToken
    <3>2. LoginTypes(P)' /\ PollInv' /\ ChosenInv(P)'
      BY <2>4 DEF LoginTypes, PollInv, ChosenInv
    <3> QED BY <3>1, <3>2
  <2> QED BY <1>2, <1>f, <2>2, <2>3, <2>4 DEF Login!PollDeviceToken
<1>3. ASSUME Login(P)!ListInstalls PROVE LoginInv(P)'
  <2>1. \/ Login(P)!Fail
        \/ /\ seen' = installs /\ st' \in {"select", "waiting"} /\ now' \in {now, 0} /\ wake' \in {wake, P.ListEvery}
           /\ UNCHANGED <<login, interval, lastPoll, demanded, installs, sidecar, conf, github, lost, svc>>
    BY <1>3 DEF Login!ListInstalls
  <2>2. CASE ~Login(P)!Fail
    <3>1. SavedInv' /\ HomeInv'
      BY <1>3, <1>s, <2>1, <2>2 DEF Login!ListInstalls
    <3>2. LoginTypes(P)' /\ PollInv' /\ ChosenInv(P)'
      BY <2>1, <2>2 DEF LoginTypes, PollInv, ChosenInv
    <3> QED BY <3>1, <3>2
  <2> QED BY <1>f, <2>2
<1>4. ASSUME Login(P)!AwaitInstallation PROVE LoginInv(P)'
  BY <1>4, <1>f DEF Login!AwaitInstallation, LoginTypes, PollInv, ChosenInv, SavedInv, HomeInv
<1>5. ASSUME Login(P)!SelectInstallation PROVE LoginInv(P)'
  <2> DEFINE ok == IF P.Owner # "" THEN {a \in seen : a = P.Owner /\ (P.RepoTarget \/ a \in P.Orgs)} ELSE seen \cap P.Orgs
  <2>1. \A a \in ok : a \in seen /\ AskedFor(P, a)
    BY DEF AskedFor
  <2>2. \/ Login(P)!Fail
        \/ /\ st' \in {"check", "save"} /\ chosen' \in ok
           /\ UNCHANGED <<now, login, interval, wake, lastPoll, demanded, installs, seen, sidecar, conf, github, lost, svc>>
    BY <1>5 DEF Login!SelectInstallation
  <2> HIDE DEF ok
  <2>3. CASE ~Login(P)!Fail
    <3>1. SavedInv' /\ HomeInv'
      BY <1>5, <1>s, <2>2, <2>3 DEF Login!SelectInstallation
    <3>2. LoginTypes(P)' /\ PollInv' /\ ChosenInv(P)'
      BY <2>1, <2>2, <2>3 DEF LoginTypes, PollInv, ChosenInv
    <3> QED BY <3>1, <3>2
  <2> QED BY <1>f, <2>3
<1>6. ASSUME Login(P)!CheckRepository PROVE LoginInv(P)'
  BY <1>6, <1>f DEF Login!CheckRepository, LoginTypes, PollInv, ChosenInv, SavedInv, HomeInv
<1>7. ASSUME Login(P)!SaveUserToken PROVE LoginInv(P)'
  <2>1. CASE ~Login(P)!Fail
    <3>1. /\ st = "save" /\ st' = "write" /\ sidecar' = login + 1 /\ lost' = FALSE
          /\ UNCHANGED <<now, login, interval, wake, lastPoll, demanded, installs, seen, chosen, conf, github, svc>>
      BY <1>7, <2>1 DEF Login!SaveUserToken, Login!This
    <3>2. SavedInv' /\ HomeInv'
      BY <3>1 DEF SavedInv, HomeInv, LoginTypes
    <3>3. PollInv' /\ ChosenInv(P)'
      BY <3>1 DEF PollInv, ChosenInv
    <3>4. lost' \in BOOLEAN
      BY <3>1, Zenon
    <3>5. sidecar' \in Nat /\ UNCHANGED <<now, login, interval, wake, lastPoll, demanded, svc>>
      BY <3>1 DEF LoginTypes
    <3>6. LoginTypes(P)'
      BY <3>4, <3>5 DEF LoginTypes
    <3> QED BY <3>2, <3>3, <3>6
  <2> QED BY <1>f, <2>1
<1>8. ASSUME Login(P)!WriteDeviceAuth PROVE LoginInv(P)'
  <2>1. CASE ~Login(P)!Fail
    <3>1. /\ st = "write" /\ st' = "pool" /\ conf' = [login |-> login + 1, owner |-> chosen]
          /\ github' \in {github, "dotcom"}
          /\ UNCHANGED <<now, login, interval, wake, lastPoll, demanded, installs, seen, chosen, sidecar, lost, svc>>
      BY <1>8, <2>1 DEF Login!WriteDeviceAuth, Login!This
    <3>2. conf'.login = login + 1 /\ conf'.owner = chosen
      BY <3>1
    <3>3. SavedInv' /\ HomeInv'
      BY <3>1, <3>2 DEF SavedInv, HomeInv, LoginTypes
    <3>4. LoginTypes(P)' /\ PollInv' /\ ChosenInv(P)'
      BY <3>1, <3>2 DEF LoginTypes, PollInv, ChosenInv
    <3> QED BY <3>3, <3>4
  <2> QED BY <1>f, <2>1
<1>9. ASSUME Login(P)!AddStarterPool PROVE LoginInv(P)'
  BY <1>9, <1>f DEF Login!AddStarterPool, LoginTypes, PollInv, ChosenInv, SavedInv, HomeInv
<1>10. ASSUME Login(P)!Tick \/ Login(P)!Authorize PROVE LoginInv(P)'
  BY <1>10 DEF Login!Tick, Login!Authorize, LoginTypes, PollInv, ChosenInv, SavedInv, HomeInv
<1>14. ASSUME Login(P)!Again PROVE LoginInv(P)'
  <2>1. ChosenInv(P)'
    BY <1>14 DEF Login!Again, ChosenInv
  <2>0. /\ login' = login + 1 /\ st' = "code" /\ UNCHANGED <<sidecar, conf, lost, svc>>
    BY <1>14 DEF Login!Again
  <2>2. SavedInv'
    BY <2>0 DEF SavedInv, LoginTypes
  <2>3. PollInv' /\ HomeInv'
    BY <2>0 DEF PollInv, HomeInv, SavedInv, LoginTypes
  <2>4. LoginTypes(P)'
    <3>1. /\ now' = 0 /\ interval' = 0 /\ wake' = 0 /\ lastPoll' = 0 /\ demanded' = 0
          /\ login' = login + 1 /\ sidecar' = sidecar /\ svc' = svc /\ lost' = lost
      BY <1>14 DEF Login!Again
    <3> QED BY <3>1 DEF LoginTypes
  <2> QED BY <2>1, <2>2, <2>3, <2>4
<1>11. ASSUME NEW a \in P.Accounts, Login(P)!Install(a) PROVE LoginInv(P)'
  BY <1>11 DEF Login!Install, LoginTypes, PollInv, ChosenInv, SavedInv, HomeInv
<1>12. ASSUME Login(P)!ServiceReads \/ Login(P)!ServiceSaves PROVE LoginInv(P)'
  <2>1. UNCHANGED <<now, login, st, interval, wake, lastPoll, demanded, installs, seen, chosen, conf, github>>
    BY <1>12 DEF Login!ServiceReads, Login!ServiceSaves
  <2>2. PollInv' /\ ChosenInv(P)' /\ HomeInv'
    BY <2>1 DEF PollInv, ChosenInv, HomeInv
  <2>3. CASE Login(P)!ServiceReads
    <3>1. svc' = sidecar /\ UNCHANGED <<sidecar, lost>>
      BY <2>3 DEF Login!ServiceReads
    <3> QED BY <2>1, <2>2, <3>1 DEF LoginTypes, SavedInv
  <2>4. CASE Login(P)!ServiceSaves
    <3>1. svc # 0 /\ sidecar' = svc /\ svc' = 0 /\ lost' \in BOOLEAN /\ (~lost' => ~lost /\ svc = sidecar)
      BY <2>4 DEF Login!ServiceSaves, LoginTypes
    <3>2. LoginTypes(P)'
      BY <2>1, <3>1 DEF LoginTypes
    <3>3. SavedInv'
      BY <2>1, <3>1 DEF LoginTypes, SavedInv
    <3> QED BY <2>2, <3>2, <3>3
  <2> QED BY <1>12, <2>3, <2>4
<1>13. ASSUME UNCHANGED Login(P)!vars PROVE LoginInv(P)'
  BY <1>13 DEF Login!vars, LoginTypes, PollInv, ChosenInv, SavedInv, HomeInv
<1> QED
  BY <1>f, <1>1, <1>2, <1>3, <1>4, <1>5, <1>6, <1>7, <1>8, <1>9, <1>10, <1>11, <1>12, <1>13, <1>14
  DEF Login!Next, Login!Connect, Login!Interrupt

LEMMA LoginInitial ==
  ASSUME NEW P, Login(P)!LoginAssumption
  PROVE  Login(P)!Init => LoginInv(P)
<1>0. P.FirstInterval \in Nat /\ P.DefaultInterval \in Nat /\ P.Widen \in Nat /\ P.ListEvery \in Nat
  BY DEF Login!LoginAssumption
<1>1. Login(P)!Init => ChosenInv(P) /\ PollInv
  BY DEF Login!Init, ChosenInv, PollInv
<1>2. Login(P)!Init => LoginTypes(P) /\ SavedInv /\ HomeInv
  <2>1. Login(P)!Init => /\ now = 0 /\ interval = 0 /\ wake = 0 /\ lastPoll = 0 /\ demanded = 0
                         /\ login = 1 /\ sidecar \in {0, 1} /\ svc = 0 /\ st = "code" /\ lost = FALSE
                         /\ conf = [login |-> sidecar, owner |-> IF sidecar = 0 THEN "" ELSE "earlier"]
    BY DEF Login!Init
  <2>2. \A x, y : [login |-> x, owner |-> y].login = x
    OBVIOUS
  <2>3. Login(P)!Init => conf.login = sidecar
    BY <2>1, <2>2, Zenon
  <2>4. Login(P)!Init => /\ now = 0 /\ interval = 0 /\ wake = 0 /\ lastPoll = 0 /\ demanded = 0
                         /\ login = 1 /\ sidecar \in {0, 1} /\ svc = 0 /\ st = "code" /\ lost = FALSE
    BY <2>1
  <2>5. Login(P)!Init => LoginTypes(P)
    <3>1. Login(P)!Init => lost \in BOOLEAN
      BY <2>4, Zenon
    <3>2. Login(P)!Init => /\ {now, interval, wake, lastPoll, demanded, login, sidecar, svc} \subseteq Nat
      BY <2>4
    <3> QED BY <1>0, <3>1, <3>2 DEF LoginTypes
  <2>6. Login(P)!Init => SavedInv
    BY <2>3, <2>4 DEF SavedInv
  <2>7. Login(P)!Init => HomeInv
    BY <2>3, <2>4 DEF HomeInv
  <2> QED BY <2>5, <2>6, <2>7
<1> QED BY <1>1, <1>2 DEF LoginInv

LEMMA LoginGoal ==
  ASSUME NEW P, Login(P)!LoginAssumption
  PROVE  LoginInv(P) => Login(P)!ConnectedIsUsable
BY DEF LoginInv, LoginTypes, PollInv, ChosenInv, SavedInv, HomeInv, AskedFor, Login!ConnectedIsUsable,
       Login!PollsAsAsked, Login!ConfiguredIsSaved, Login!SuccessIsUsable, Login!TokenStaysHome,
       Login!This

-----------------------------------------------------------------------------
(* OwnApp: the manifest is complete before an App exists, and what is      *)
(* written is written in an order that leaves nothing dangling.            *)


\* The Apps are numbered as GitHub created them; what comes back is of one whose pages lead here.
AppsInv(P) ==
  /\ P.MaxApps \in Nat /\ before \in Nat
  /\ \E n \in Nat : apps = 1..n /\ n <= P.MaxApps
  /\ called \subseteq apps
  /\ {credsCh, installCh, app, inst} \subseteq Own(P)!Reach \cup {0}

\* The manifest is written before the user is led to GitHub.
Able(P) ==
  /\ events # {} => "actions" \in perms
  /\ P.Scope = "repo" /\ prov \in {"", "autoscale"} => "actions" \in perms
  /\ P.Scope = "org" /\ prov = "autoscale" => events # {} \/ declined
ManifestInv(P) == Own(P)!Mine # {} \/ st \notin {"needs", "failed", "dead"} => Able(P)

\* What each state has behind it: the App, its installation, its key, the configuration.
WrittenInv ==
  /\ run \in Nat \ {0} /\ torn \in 0..run
  /\ st \in {"needs", "creating", "installing"} => inst = 0
  /\ st \in {"installing", "key", "keying", "secret", "config", "pool", "done"} => app # 0
  /\ st \in {"key", "keying", "secret", "config", "pool", "done"} => inst # 0
  /\ st \in {"secret", "config", "pool", "done"} => key = app
  /\ st \in {"pool", "done"} => conf.app = app /\ conf.inst = inst /\ torn = 0
  /\ st \in {"keying", "secret", "config"} => torn = run
  /\ conf.app # 0 /\ torn = 0 => key = conf.app
  /\ torn = run => st \in {"keying", "secret", "config", "dead"} \/ (st = "failed" /\ reported)
ReportInv == st = "failed" => reported \/ (inst = 0 /\ torn # run)

OwnInv(P) == AppsInv(P) /\ ManifestInv(P) /\ WrittenInv /\ ReportInv

\* permissions has the permission that the event and the polling need.
LEMMA ManifestIsAble ==
  ASSUME NEW P, NEW url \in BOOLEAN, Own(P)!Manifest(url), P.Scope = "org" /\ prov = "autoscale" => url \/ declined'
  PROVE  Able(P)'
<1>1. CASE url
  <2>1. "actions" \in perms' /\ events' # {}
    BY <1>1 DEF Own!Manifest, Own!permissions
  <2> QED BY <2>1 DEF Able
<1>2. CASE ~url
  <2>1. events' = {} /\ prov' = prov
    BY <1>2 DEF Own!Manifest
  <2>2. P.Scope = "repo" /\ prov \in {"", "autoscale"} => "actions" \in perms'
    BY DEF Own!Manifest, Own!permissions, Own!PollQueue
  <2> QED BY <1>2, <2>1, <2>2 DEF Able
<1> QED BY <1>1, <1>2

LEMMA OwnStep ==
  ASSUME NEW P, OwnInv(P), [Own(P)!Next]_(Own(P)!vars)
  PROVE  OwnInv(P)'
<1> USE DEF Own!needs, Own!browser, Own!saved
<1>a. AppsInv(P) /\ ManifestInv(P) /\ WrittenInv /\ ReportInv
  BY DEF OwnInv
<1>k. ASSUME UNCHANGED <<perms, events, prov, declined>> PROVE Able(P)' <=> Able(P)
  BY <1>k DEF Able
<1>m. ASSUME UNCHANGED <<apps, before>> PROVE Own(P)!Mine' = Own(P)!Mine /\ Own(P)!Reach' = Own(P)!Reach
  BY <1>m DEF Own!Mine, Own!Reach
<1>e. Own(P)!Reach \subseteq apps
  BY DEF Own!Mine, Own!Reach
<1>f. ASSUME NEW tell \in BOOLEAN, Own(P)!Fail(tell), tell \/ (inst = 0 /\ torn # run) PROVE OwnInv(P)'
  <2>0. /\ st' = "failed" /\ reported' = tell
        /\ UNCHANGED <<run, before, prov, declined, perms, events, apps, called, credsCh, installCh, app, inst, key,
                       conf, torn>>
    BY <1>f DEF Own!Fail
  <2>1. AppsInv(P)'
    BY <1>a, <1>m, <2>0 DEF AppsInv
  <2>2. WrittenInv'
    BY <1>a, <1>f, <2>0 DEF WrittenInv
  <2>3. ManifestInv(P)'
    BY <1>a, <2>0, <1>k, <1>m DEF ManifestInv
  <2>4. ReportInv'
    BY <1>f, <2>0 DEF ReportInv
  <2> QED BY <2>1, <2>2, <2>3, <2>4 DEF OwnInv
<1>1. ASSUME Own(P)!DeriveNeeds PROVE OwnInv(P)'
  <2>0. st = "needs" /\ inst = 0 /\ torn # run
    BY <1>a, <1>1 DEF Own!DeriveNeeds, WrittenInv
  <2>1. ASSUME NEW url \in BOOLEAN, Own(P)!Manifest(url), P.Scope = "org" /\ prov = "autoscale" => url \/ declined'
        PROVE  OwnInv(P)'
    <3>1. Able(P)'
      BY <2>1, ManifestIsAble
    <3>2. st' = "creating" /\ UNCHANGED <<run, before, apps, called, credsCh, installCh, app, inst, key, conf, torn,
                                          reported>>
      BY <2>1 DEF Own!Manifest
    <3>3. AppsInv(P)'
      BY <1>a, <1>m, <3>2 DEF AppsInv
    <3>4. WrittenInv'
      BY <1>a, <2>0, <3>2 DEF WrittenInv
    <3> QED BY <3>1, <3>2, <3>3, <3>4 DEF OwnInv, ManifestInv, ReportInv
  <2>2. CASE st' = "failed" /\ UNCHANGED <<Own(P)!needs, Own(P)!browser, app, inst, Own(P)!saved, reported>>
    <3>1. AppsInv(P)'
      BY <1>a, <1>m, <2>2 DEF AppsInv
    <3>2. WrittenInv' /\ ReportInv'
      BY <1>a, <2>0, <2>2 DEF WrittenInv, ReportInv
    <3>3. ManifestInv(P)'
      BY <1>a, <2>2, <1>k, <1>m DEF ManifestInv
    <3> QED BY <3>1, <3>2, <3>3 DEF OwnInv
  <2>3. CASE flagURL
    BY <1>1, <2>1, <2>3 DEF Own!DeriveNeeds
  <2>4. CASE ~flagURL /\ P.Interactive /\ prov = "autoscale"
    <3>1. PICK answer \in BOOLEAN : Own(P)!Manifest(answer) /\ declined' = ~answer
      BY <1>1, <2>4 DEF Own!DeriveNeeds
    <3> QED BY <2>1, <3>1
  <2>5. CASE ~flagURL /\ ~P.Interactive /\ prov = "autoscale" /\ P.Scope = "org"
    BY <1>1, <2>2, <2>5 DEF Own!DeriveNeeds
  <2>6. CASE ~flagURL /\ ~(prov = "autoscale" /\ (P.Interactive \/ P.Scope = "org"))
    <3>1. Own(P)!Manifest(FALSE)
      BY <1>1, <2>6 DEF Own!DeriveNeeds
    <3> QED BY <2>1, <2>6, <3>1
  <2> QED BY <2>3, <2>4, <2>5, <2>6
<1>n. PICK n \in Nat : apps = 1..n /\ n <= P.MaxApps
  BY <1>a DEF AppsInv
<1>c. Own(P)!Cardinality(apps) = n
  <2>1. Cardinality(1..n) = n
    BY <1>n, FS_Interval
  <2> QED BY <1>n, <2>1 DEF Own!Cardinality, Cardinality, Own!IsFiniteSet, IsFiniteSet
<1>2. ASSUME Own(P)!CreateApp PROVE OwnInv(P)'
  <2>0. /\ st \in {"creating", "installing"}
        /\ UNCHANGED <<st, run, before, prov, declined, perms, events, called, credsCh, installCh, app, inst, key,
                       conf, torn, reported>>
    BY <1>2 DEF Own!CreateApp, Own!Serving
  <2>3. apps' = 1..(n + 1) /\ n + 1 <= P.MaxApps /\ n + 1 \in Nat
    BY <1>2, <1>a, <1>n, <1>c DEF Own!CreateApp, AppsInv
  <2>4. apps \subseteq apps'
    BY <1>n, <2>3
  <2>5. Own(P)!Reach \subseteq Own(P)!Reach'
    BY <2>0, <2>4 DEF Own!Reach, Own!Mine
  <2>6. AppsInv(P)'
    BY <1>a, <2>0, <2>3, <2>4, <2>5 DEF AppsInv
  <2>7. ManifestInv(P)'
    BY <1>a, <2>0, <1>k DEF ManifestInv
  <2>8. WrittenInv' /\ ReportInv'
    BY <1>a, <2>0 DEF WrittenInv, ReportInv
  <2> QED BY <2>6, <2>7, <2>8 DEF OwnInv
<1>3. ASSUME NEW a \in 1..P.MaxApps, Own(P)!Callback(a) \/ Own(P)!Setup(a) PROVE OwnInv(P)'
  <2>0. /\ a \in Own(P)!Reach
        /\ UNCHANGED <<st, run, before, prov, declined, perms, events, apps, app, inst, key, conf, torn, reported>>
    BY <1>3 DEF Own!Callback, Own!Setup
  <2>1. called' \subseteq called \cup {a} /\ credsCh' \in {credsCh, a} /\ installCh' \in {installCh, a}
    BY <1>3 DEF Own!Callback, Own!Setup
  <2>2. AppsInv(P)'
    BY <1>a, <1>e, <1>m, <2>0, <2>1 DEF AppsInv
  <2>3. ManifestInv(P)'
    BY <1>a, <2>0, <1>k, <1>m DEF ManifestInv
  <2>4. WrittenInv' /\ ReportInv'
    BY <1>a, <2>0 DEF WrittenInv, ReportInv
  <2> QED BY <2>2, <2>3, <2>4 DEF OwnInv
\* A step of the command itself, but for a failure: the manifest and the Apps stay as they are.
<1>4. ASSUME st \notin {"needs", "failed", "dead"}, st' # "failed",
             UNCHANGED <<before, perms, events, prov, declined, apps, called>>,
             credsCh' \in {credsCh, 0}, installCh' \in {installCh, 0}, app' \in {app, credsCh}, inst' \in {inst, installCh},
             WrittenInv'
      PROVE  OwnInv(P)'
  <2>1. AppsInv(P)'
    BY <1>a, <1>m, <1>4 DEF AppsInv
  <2>2. ManifestInv(P)'
    BY <1>a, <1>k, <1>m, <1>4 DEF ManifestInv
  <2> QED BY <1>4, <2>1, <2>2 DEF OwnInv, ReportInv
<1>5. ASSUME Own(P)!AwaitCreds PROVE OwnInv(P)'
  <2>0. st = "creating" /\ inst = 0 /\ torn # run
    BY <1>a, <1>5 DEF Own!AwaitCreds, WrittenInv
  <2>1. CASE Own(P)!Fail(FALSE)
    BY <2>0, <2>1, <1>f
  <2>2. CASE ~Own(P)!Fail(FALSE)
    <3>1. /\ credsCh # 0 /\ app' = credsCh /\ credsCh' = 0 /\ st' = "installing"
          /\ UNCHANGED <<run, before, perms, events, prov, declined, apps, called, installCh, inst, key, conf, torn,
                         reported>>
      BY <1>5, <2>2 DEF Own!AwaitCreds
    <3>2. WrittenInv'
      BY <1>a, <2>0, <3>1 DEF WrittenInv
    <3> QED BY <1>4, <2>0, <3>1, <3>2
  <2> QED BY <2>1, <2>2
<1>6. ASSUME Own(P)!AwaitInstall PROVE OwnInv(P)'
  <2>0. st = "installing" /\ inst = 0 /\ torn # run
    BY <1>a, <1>6 DEF Own!AwaitInstall, WrittenInv
  <2>1. CASE Own(P)!Fail(FALSE)
    BY <2>0, <2>1, <1>f
  <2>2. CASE ~Own(P)!Fail(FALSE)
    <3>1. /\ installCh # 0 /\ inst' = installCh /\ installCh' = 0 /\ st' = "key"
          /\ UNCHANGED <<run, before, perms, events, prov, declined, apps, called, credsCh, app, key, conf, torn, reported>>
      BY <1>6, <2>2 DEF Own!AwaitInstall
    <3>2. WrittenInv'
      BY <1>a, <2>0, <3>1 DEF WrittenInv
    <3> QED BY <1>4, <2>0, <3>1, <3>2
  <2> QED BY <2>1, <2>2
<1>7. ASSUME Own(P)!OpenKey \/ Own(P)!WriteKey \/ Own(P)!WriteSecret \/ Own(P)!WriteAppAuth \/ Own(P)!AddStarterPool
      PROVE  OwnInv(P)'
  <2>1. CASE Own(P)!Fail(TRUE)
    BY <2>1, <1>f
  <2>2. CASE ~Own(P)!Fail(TRUE)
    <3>1. /\ st \in {"key", "keying", "secret", "config", "pool"} /\ st' \in {"keying", "secret", "config", "pool", "done"}
          /\ UNCHANGED <<run, before, perms, events, prov, declined, apps, called, credsCh, installCh, app, inst, reported>>
      BY <1>7, <2>2 DEF Own!OpenKey, Own!WriteKey, Own!WriteSecret, Own!WriteAppAuth, Own!AddStarterPool, Own!Write
    <3>2. ASSUME Own(P)!OpenKey PROVE WrittenInv'
      <4>1. st = "key" /\ st' = "keying" /\ torn' = run /\ conf' = conf
        BY <2>2, <3>2 DEF Own!OpenKey, Own!Write
      <4>2. torn' \in 0..run' /\ torn' # 0
        BY <1>a, <3>1, <4>1 DEF WrittenInv
      <4> QED BY <1>a, <3>1, <4>1, <4>2 DEF WrittenInv
    <3>3. ASSUME Own(P)!WriteKey PROVE WrittenInv'
      BY <1>a, <2>2, <3>1, <3>3 DEF Own!WriteKey, Own!Write, WrittenInv
    <3>4. ASSUME Own(P)!WriteSecret PROVE WrittenInv'
      BY <1>a, <2>2, <3>1, <3>4 DEF Own!WriteSecret, Own!Write, WrittenInv
    <3>5. ASSUME Own(P)!WriteAppAuth PROVE WrittenInv'
      <4>1. st = "config" /\ st' = "pool" /\ key' = key /\ torn' = 0 /\ conf' = [app |-> app, inst |-> inst]
        BY <2>2, <3>5 DEF Own!WriteAppAuth, Own!Write
      <4>2. conf'.app = app /\ conf'.inst = inst
        BY <4>1
      <4> QED BY <1>a, <3>1, <4>1, <4>2 DEF WrittenInv
    <3>6. ASSUME Own(P)!AddStarterPool PROVE WrittenInv'
      <4>1. st = "pool" /\ st' = "done" /\ UNCHANGED <<key, conf, torn>>
        BY <2>2, <3>6 DEF Own!AddStarterPool, Own!Write
      <4> QED BY <1>a, <3>1, <4>1 DEF WrittenInv
    <3>7. WrittenInv'
      BY <1>7, <3>2, <3>3, <3>4, <3>5, <3>6
    <3> QED BY <1>4, <3>1, <3>7
  <2> QED BY <2>1, <2>2
<1>8. ASSUME Own(P)!Die PROVE OwnInv(P)'
  <2>0. /\ st' = "dead"
        /\ st \in {"creating", "installing", "needs", "key", "keying", "secret", "config", "pool"}
        /\ UNCHANGED <<run, before, prov, declined, perms, events, apps, called, credsCh, installCh, app, inst, key,
                       conf, torn, reported>>
    BY <1>8 DEF Own!Die, Own!Working, Own!Serving
  <2>1. AppsInv(P)'
    BY <1>a, <1>m, <2>0 DEF AppsInv
  <2>2. WrittenInv' /\ ReportInv'
    BY <1>a, <2>0 DEF WrittenInv, ReportInv
  <2>3. ManifestInv(P)'
    BY <1>a, <2>0, <1>k, <1>m DEF ManifestInv
  <2> QED BY <2>1, <2>2, <2>3 DEF OwnInv
<1>9. ASSUME Own(P)!Again PROVE OwnInv(P)'
  <2>0. /\ run' = run + 1 /\ before' = n /\ st' = "needs" /\ credsCh' = 0 /\ installCh' = 0 /\ app' = 0 /\ inst' = 0
        /\ reported' = FALSE /\ UNCHANGED <<apps, called, key, conf, torn>>
    BY <1>9, <1>c DEF Own!Again
  <2>1. Own(P)!Mine' = {}
    BY <2>0, <1>n DEF Own!Mine
  <2>2. AppsInv(P)'
    BY <1>a, <1>n, <2>0 DEF AppsInv
  <2>3. WrittenInv' /\ ReportInv'
    BY <1>a, <2>0 DEF WrittenInv, ReportInv
  <2> QED BY <2>0, <2>1, <2>2, <2>3 DEF OwnInv, ManifestInv
<1>10. ASSUME UNCHANGED Own(P)!vars PROVE OwnInv(P)'
  <2>0. UNCHANGED <<st, run, before, prov, declined, perms, events, apps, called, credsCh, installCh, app, inst, key,
                    conf, torn, reported>>
    BY <1>10 DEF Own!vars
  <2>1. AppsInv(P)'
    BY <1>a, <1>m, <2>0 DEF AppsInv
  <2>2. WrittenInv' /\ ReportInv'
    BY <1>a, <2>0 DEF WrittenInv, ReportInv
  <2>3. ManifestInv(P)'
    BY <1>a, <2>0, <1>k, <1>m DEF ManifestInv
  <2> QED BY <2>1, <2>2, <2>3 DEF OwnInv
<1> QED
  BY <1>1, <1>2, <1>3, <1>5, <1>6, <1>7, <1>8, <1>9, <1>10 DEF Own!Next

LEMMA OwnInitial ==
  ASSUME NEW P, Own(P)!OwnAppAssumption
  PROVE  Own(P)!Init => OwnInv(P)
<1> SUFFICES ASSUME Own(P)!Init PROVE OwnInv(P)
  OBVIOUS
<1>0. apps = {} /\ P.MaxApps \in Nat \ {0} /\ before = 0
  BY DEF Own!Init, Own!OwnAppAssumption
<1>1. apps = 1..0 /\ 0 \in Nat /\ P.MaxApps \in Nat /\ 0 <= P.MaxApps
  BY <1>0
<1>2. AppsInv(P)
  BY <1>0, <1>1 DEF Own!Init, AppsInv
<1>3. ManifestInv(P)
  BY <1>0 DEF Own!Init, ManifestInv, Own!Mine
<1>4. WrittenInv /\ ReportInv
  <2>1. conf = [app |-> 0, inst |-> 0] /\ run = 1 /\ torn = 0 /\ st = "needs" /\ inst = 0
    BY DEF Own!Init
  <2> QED BY <2>1 DEF WrittenInv, ReportInv
<1> QED BY <1>2, <1>3, <1>4 DEF OwnInv

LEMMA OwnGoal ==
  ASSUME NEW P, Own(P)!OwnAppAssumption
  PROVE  OwnInv(P) => Own(P)!ConnectedIsUsable
<1> SUFFICES ASSUME OwnInv(P) PROVE Own(P)!ConnectedIsUsable
  OBVIOUS
<1>1. Own(P)!AppCanDoItsWork
  BY DEF OwnInv, ManifestInv, Able, Own!AppCanDoItsWork
<1>2. Own(P)!KeyIsThere
  BY DEF OwnInv, WrittenInv, Own!KeyIsThere
<1>3. Own(P)!LateFailuresReport
  BY DEF OwnInv, ReportInv, Own!LateFailuresReport
<1>4. Own(P)!InstallationOfTheApp
  BY DEF OwnInv, AppsInv, WrittenInv, Own!InstallationOfTheApp
<1> QED BY <1>1, <1>2, <1>3, <1>4 DEF Own!ConnectedIsUsable

-----------------------------------------------------------------------------
(* Limits in the units of a backend. *)

\* As many units as a division of the largest integer allows are no more than that integer.
LEMMA UnitsFit ==
  ASSUME NEW a \in Nat, NEW b \in Nat \ {0}, NEW q \in 0..(a \div b)
  PROVE  q * b \in 0..a
<1>1. a \div b \in Nat /\ (a \div b) * b <= a
  OBVIOUS
<1>2. \A m, n \in Nat : m <= n => m * b <= n * b
  OBVIOUS
<1>3. q \in Nat /\ q * b \in Nat
  BY <1>1
<1> QED BY <1>1, <1>2, <1>3

\* What fits does not wrap.
LEMMA NothingWraps ==
  ASSUME NEW a \in Nat, NEW x \in 0..a
  PROVE  ((x + a + 1) % (2 * (a + 1))) - (a + 1) = x
<1>1. x + a + 1 \in Nat /\ 2 * (a + 1) \in Nat /\ x + a + 1 < 2 * (a + 1)
  OBVIOUS
<1>2. \A m, k \in Nat : k < m => k % m = k
  OBVIOUS
<1> QED BY <1>1, <1>2

\* A larger limit stays the larger one, and only no limit becomes none.
LEMMA UnitsKeepOrder ==
  ASSUME NEW b \in Nat \ {0}, NEW m \in Nat, NEW n \in Nat
  PROVE  (m <= n => m * b <= n * b) /\ (m * b = 0 <=> m = 0)
OBVIOUS

-----------------------------------------------------------------------------
(* LaunchRequest: what three packages compute fits together. *)


Prepared(P) ==
  /\ Request(P)!validateContainerConfig(pool)
  /\ req = [set |-> Request(P)!normalizedContainerSettings(pool), env |-> Request(P)!poolEnv(cache), own |-> own]
Outcome(P) ==
  IF pool.backend = "containerd"
  THEN IF Request(P)!NerdctlAccepts(req) THEN Request(P)!launchArgs(req) ELSE Request(P)!Refused
  ELSE IF Request(P)!DockerAccepts(req) THEN Request(P)!launchConfigs(req) ELSE Request(P)!Refused
RequestInv(P) ==
  /\ pool \in P.Pools /\ cache \in P.Caches /\ own \in P.Owners
  /\ step = "load" => ctr = Request(P)!None
  /\ step = "prepare" => ctr = Request(P)!None /\ Request(P)!validateContainerConfig(pool)
  /\ step = "launch" => Prepared(P)
  /\ step = "end" => ctr = Request(P)!None \/ (Prepared(P) /\ ctr = Outcome(P))

LEMMA RequestStep ==
  ASSUME NEW P, RequestInv(P), [Request(P)!Next]_(Request(P)!vars)
  PROVE  RequestInv(P)'
<1>1. ASSUME Request(P)!Load PROVE RequestInv(P)'
  BY <1>1 DEF RequestInv, Request!Load, Request!validateContainerConfig
<1>2. ASSUME Request(P)!Prepare PROVE RequestInv(P)'
  BY <1>2 DEF RequestInv, Request!Prepare, Prepared, Request!validateContainerConfig, Request!normalizedContainerSettings
<1>3. ASSUME Request(P)!Launch PROVE RequestInv(P)'
  <2>1. UNCHANGED <<pool, cache, own, gateway, req>> /\ step = "launch" /\ step' = "end" /\ ctr' = Outcome(P)
    BY <1>3 DEF Request!Launch, Outcome
  <2>2. Outcome(P)' = Outcome(P) /\ (Prepared(P)' <=> Prepared(P))
    BY <2>1 DEF Outcome, Prepared, Request!NerdctlAccepts, Request!launchArgs, Request!DockerAccepts,
                Request!launchConfigs, Request!validateContainerConfig, Request!normalizedContainerSettings
  <2> QED BY <2>1, <2>2 DEF RequestInv
<1>4. ASSUME UNCHANGED Request(P)!vars PROVE RequestInv(P)'
  <2>1. Outcome(P)' = Outcome(P) /\ (Prepared(P)' <=> Prepared(P))
    BY <1>4 DEF Request!vars, Outcome, Prepared, Request!NerdctlAccepts, Request!launchArgs, Request!DockerAccepts,
                Request!launchConfigs, Request!validateContainerConfig, Request!normalizedContainerSettings
  <2> QED BY <1>4, <2>1 DEF Request!vars, RequestInv, Request!validateContainerConfig
<1> QED
  BY <1>1, <1>2, <1>3, <1>4 DEF Request!Next

\* What the configuration accepts arrives whole, and the backends accept it too.
LEMMA SettingsFit ==
  ASSUME NEW P, Request(P)!RequestAssumption, pool \in P.Pools, Request(P)!validateContainerConfig(pool)
  PROVE  LET s == Request(P)!normalizedContainerSettings(pool) IN
         /\ s.cpu = pool.cpus /\ s.memory = pool.memory * P.Unit /\ s.swap = pool.swap * P.Unit /\ s.dns = pool.dns
         /\ Request(P)!Wrap(pool.cpus * P.Unit) = pool.cpus * P.Unit
         /\ Request(P)!validateContainerSettings(s)
         /\ pool.os = "windows" => s.swap = 0
         /\ pool.backend = "containerd" => s.dns = "none"
<1> DEFINE c == pool.cpus
           m == pool.memory
           w == pool.swap
           s == Request(P)!normalizedContainerSettings(pool)
<1>1. P.Unit \in Nat \ {0} /\ P.MaxInt \in Nat
  BY DEF Request!RequestAssumption
<1>2. /\ c \in 0..(P.MaxInt \div P.Unit) /\ m \in 0..(P.MaxInt \div P.Unit) /\ w \in 0..(P.MaxInt \div P.Unit)
      /\ w # 0 => m # 0 /\ w >= m
      /\ pool.os = "windows" => w = 0
      /\ pool.backend = "containerd" => pool.dns = "none"
      /\ pool.dns # "name"
  BY DEF Request!validateContainerConfig, Request!MaxCount
<1>3. s = [cpu |-> c, memory |-> Request(P)!Wrap(m * P.Unit), swap |-> Request(P)!Wrap(w * P.Unit), dns |-> pool.dns]
  BY DEF Request!normalizedContainerSettings
<1> HIDE DEF c, m, w, s
<1>4. c * P.Unit \in 0..P.MaxInt /\ m * P.Unit \in 0..P.MaxInt /\ w * P.Unit \in 0..P.MaxInt
  BY <1>1, <1>2, UnitsFit
<1>5. \A x \in 0..P.MaxInt : Request(P)!Wrap(x) = x
  BY <1>1, NothingWraps DEF Request!Wrap
<1>6. s.cpu = c /\ s.memory = m * P.Unit /\ s.swap = w * P.Unit /\ s.dns = pool.dns
  BY <1>3, <1>4, <1>5
<1>7. m \in Nat /\ w \in Nat
  BY <1>1, <1>2
<1>8. (m <= w => m * P.Unit <= w * P.Unit) /\ (m * P.Unit = 0 <=> m = 0) /\ (w * P.Unit = 0 <=> w = 0)
  BY <1>1, <1>7, UnitsKeepOrder
<1>9. Request(P)!validateContainerSettings(s)
  BY <1>2, <1>4, <1>6, <1>7, <1>8 DEF Request!validateContainerSettings, Request!MaxCount
<1> QED
  BY <1>2, <1>4, <1>5, <1>6, <1>8, <1>9 DEF c, m, w, s

\* The outcome of a launch that was prepared, for either kind of backend: it is refused for its owner
\* only, and what is launched has the limits of the pool, the environment and the labels of the request.
LEMMA OutcomeFits ==
  ASSUME NEW P, Request(P)!RequestAssumption, RequestInv(P), Prepared(P), ctr = Outcome(P)
  PROVE  \/ ctr = Request(P)!Refused /\ ~Request(P)!OwnershipAccepted(own)
         \/ /\ Request(P)!OwnershipAccepted(own)
            /\ ctr \in {Request(P)!launchArgs(req), Request(P)!launchConfigs(req)}
            /\ ctr # Request(P)!Refused
            /\ ctr.labels = Request(P)!ownershipLabels(own) /\ ctr.memory = pool.memory * P.Unit
            /\ ctr.swap = pool.swap * P.Unit /\ ctr.dns = pool.dns
            /\ pool.backend = "containerd" =>
                 /\ ctr.cpu = pool.cpus
                 /\ ctr.env = IF Request(P)!CacheHost(req.env) # "" /\ gateway
                              THEN Request(P)!RewriteCacheHost(req.env, "gateway") ELSE req.env
            /\ pool.backend # "containerd" =>
                 /\ ctr.cpu = IF pool.os = "windows" THEN pool.cpus ELSE pool.cpus * P.Unit
                 /\ ctr.env = req.env /\ ctr.hosts = {Request(P)!CacheHost(req.env)} \ {""}
<1> DEFINE s == Request(P)!normalizedContainerSettings(pool)
<1>1. req.own = own /\ req.set = s /\ req.env = Request(P)!poolEnv(cache)
  BY DEF Prepared
<1>2. /\ s.cpu = pool.cpus /\ s.memory = pool.memory * P.Unit /\ s.swap = pool.swap * P.Unit /\ s.dns = pool.dns
      /\ Request(P)!Wrap(pool.cpus * P.Unit) = pool.cpus * P.Unit
      /\ Request(P)!validateContainerSettings(s)
      /\ pool.os = "windows" => s.swap = 0
      /\ pool.backend = "containerd" => s.dns = "none"
  BY SettingsFit DEF RequestInv, Prepared
<1>3. pool.backend = "containerd" => pool.os = "windows"
  BY DEF Request!RequestAssumption, RequestInv
<1> HIDE DEF s
<1>4. CASE pool.backend = "containerd"
  <2>1. Request(P)!NerdctlAccepts(req) <=> Request(P)!OwnershipAccepted(own)
    BY <1>1, <1>2, <1>3, <1>4 DEF Request!NerdctlAccepts
  <2>2. CASE Request(P)!OwnershipAccepted(own)
    <3>1. ctr = Request(P)!launchArgs(req)
      BY <1>4, <2>1, <2>2 DEF Outcome
    <3>2. /\ ctr.labels = Request(P)!ownershipLabels(own) /\ ctr.memory = s.memory /\ ctr.cpu = s.cpu
          /\ ctr.swap = 0 /\ ctr.dns = "none"
          /\ ctr.env = IF Request(P)!CacheHost(req.env) # "" /\ gateway
                       THEN Request(P)!RewriteCacheHost(req.env, "gateway") ELSE req.env
      <4> DEFINE e == IF Request(P)!CacheHost(req.env) # "" /\ gateway
                      THEN Request(P)!RewriteCacheHost(req.env, "gateway") ELSE req.env
                 l == Request(P)!ownershipLabels(req.own)
      <4>1. ctr = [env |-> e, hosts |-> {}, cpu |-> req.set.cpu, memory |-> req.set.memory, swap |-> 0, dns |-> "none",
                   labels |-> l]
        BY <3>1 DEF Request!launchArgs
      <4> HIDE DEF e, l
      <4>2. /\ ctr.env = e /\ ctr.cpu = req.set.cpu /\ ctr.memory = req.set.memory /\ ctr.labels = l
            /\ ctr.swap = 0 /\ ctr.dns = "none"
        BY <4>1
      <4> QED BY <1>1, <4>2 DEF e, l
    <3>3. "env" \in DOMAIN Request(P)!launchArgs(req) /\ "env" \notin DOMAIN Request(P)!Refused
      BY DEF Request!launchArgs, Request!Refused
    <3> QED BY <1>2, <1>3, <1>4, <2>2, <3>1, <3>2, <3>3
  <2>3. CASE ~Request(P)!OwnershipAccepted(own)
    BY <1>4, <2>1, <2>3 DEF Outcome
  <2> QED BY <2>2, <2>3
<1>5. CASE pool.backend # "containerd"
  <2>1. Request(P)!DockerAccepts(req) <=> Request(P)!OwnershipAccepted(own)
    BY <1>1, <1>2, <1>5 DEF Request!DockerAccepts
  <2>2. CASE Request(P)!OwnershipAccepted(own)
    <3>1. ctr = Request(P)!launchConfigs(req)
      BY <1>5, <2>1, <2>2 DEF Outcome
    <3>2. /\ ctr.labels = Request(P)!ownershipLabels(own) /\ ctr.memory = s.memory /\ ctr.swap = s.swap /\ ctr.dns = s.dns
          /\ ctr.cpu = IF pool.os = "windows" THEN s.cpu ELSE Request(P)!Wrap(s.cpu * P.Unit)
          /\ ctr.env = req.env /\ ctr.hosts = {Request(P)!CacheHost(req.env)} \ {""}
      <4> DEFINE h == {Request(P)!CacheHost(req.env)} \ {""}
                 c == IF pool.os = "windows" THEN req.set.cpu ELSE Request(P)!Wrap(req.set.cpu * P.Unit)
                 l == Request(P)!ownershipLabels(req.own)
      <4>1. ctr = [env |-> req.env, hosts |-> h, cpu |-> c, memory |-> req.set.memory, swap |-> req.set.swap,
                   dns |-> req.set.dns, labels |-> l]
        BY <3>1 DEF Request!launchConfigs
      <4> HIDE DEF h, c, l
      <4>2. /\ ctr.env = req.env /\ ctr.hosts = h /\ ctr.cpu = c /\ ctr.memory = req.set.memory /\ ctr.labels = l
            /\ ctr.swap = req.set.swap /\ ctr.dns = req.set.dns
        BY <4>1
      <4> QED BY <1>1, <4>2 DEF h, c, l
    <3>3. "env" \in DOMAIN Request(P)!launchConfigs(req) /\ "env" \notin DOMAIN Request(P)!Refused
      BY DEF Request!launchConfigs, Request!Refused
    <3> QED BY <1>2, <1>5, <2>2, <3>1, <3>2, <3>3
  <2>3. CASE ~Request(P)!OwnershipAccepted(own)
    BY <1>5, <2>1, <2>3 DEF Outcome
  <2> QED BY <2>2, <2>3
<1> QED BY <1>4, <1>5

\* Every URL of the environment names the same host, which the backend maps or the gateway replaces.
LEMMA UrlsAreReachable ==
  ASSUME NEW P, NEW e, e = Request(P)!poolEnv(cache), NEW k \in DOMAIN e
  PROVE  /\ e[k] = "10.0.0.5" \/ (e[k] = Request(P)!CacheHost(e) /\ e[k] # "")
         /\ k \in DOMAIN Request(P)!RewriteCacheHost(e, "gateway")
         /\ DOMAIN Request(P)!RewriteCacheHost(e, "gateway") = DOMAIN e
         /\ Request(P)!RewriteCacheHost(e, "gateway")[k] \in {"10.0.0.5", "gateway"}
<1>1. e[k] = cache.advertise /\ cache.advertise # "" /\ "ACTIONS_RESULTS_URL" \in DOMAIN e
  BY DEF Request!poolEnv
<1>2. e["ACTIONS_RESULTS_URL"] = cache.advertise
  BY <1>1 DEF Request!poolEnv
<1> QED BY <1>1, <1>2 DEF Request!CacheHost, Request!RewriteCacheHost

\* The labels of an owner are found by whom they name.
LEMMA LabelsIdentify ==
  ASSUME NEW P, NEW o, NEW w, Request(P)!Validate(o), ~Request(P)!IsZero(o), Request(P)!OwnershipAccepted(w)
  PROVE  Request(P)!Listed(Request(P)!ownershipLabels(w), o) <=>
           (~Request(P)!IsZero(w) /\ o.instance = w.instance /\ o.target = w.target /\ o.pool = w.pool)
<1> DEFINE L == Request(P)!ownershipLabels(w)
           R == Request(P)!reconciliationLabels(o)
<1>1. DOMAIN R = {"managed", "instance", "target", "pool"} /\ R["managed"] = "true" /\ R["instance"] = o.instance
      /\ R["target"] = o.target /\ R["pool"] = o.pool
  BY DEF Request!reconciliationLabels, Request!Without, Request!ownershipLabels
<1>2. CASE Request(P)!IsZero(w)
  <2>1. "managed" \notin DOMAIN L
    BY <1>2 DEF Request!ownershipLabels
  <2> QED BY <1>1, <1>2, <2>1 DEF Request!Listed, Request!labelsMatch
<1>3. CASE ~Request(P)!IsZero(w)
  <2>1. /\ DOMAIN L = {"managed", "instance", "target", "pool", "scale-set", "runner-id"}
        /\ L["managed"] = "true" /\ L["instance"] = w.instance /\ L["target"] = w.target /\ L["pool"] = w.pool
        /\ L["runner-id"] = w.runner /\ w.runner # 0
    BY <1>3 DEF Request!ownershipLabels, Request!OwnershipAccepted
  <2> HIDE DEF L, R
  <2>2. Request(P)!labelsMatch(L, R) <=> (o.instance = w.instance /\ o.target = w.target /\ o.pool = w.pool)
    BY <1>1, <2>1 DEF Request!labelsMatch
  <2>3. Request(P)!ownedRunner(L)
    BY <2>1 DEF Request!ownedRunner
  <2> QED BY <1>3, <2>2, <2>3 DEF Request!Listed, L, R
<1> QED BY <1>2, <1>3

LEMMA RequestInitial ==
  ASSUME NEW P, Request(P)!RequestAssumption
  PROVE  Request(P)!Init => RequestInv(P)
BY DEF Request!Init, RequestInv

LEMMA RequestGoal ==
  ASSUME NEW P, Request(P)!RequestAssumption
  PROVE  RequestInv(P) => Request(P)!LaunchesFit
<1> SUFFICES ASSUME RequestInv(P), step = "end" PROVE Request(P)!LaunchesFit
  BY DEF Request!LaunchesFit, Request!ConfiguredPoolsLaunch, Request!DaemonGetsTheLimits, Request!CacheIsReachable,
         Request!FoundByItsOwnOnly, Request!Launched
<1>1. CASE ctr = Request(P)!None
  <2>1. "none" \in DOMAIN Request(P)!None /\ "none" \notin DOMAIN Request(P)!Refused
    BY DEF Request!None, Request!Refused
  <2>2. Request(P)!None # Request(P)!Refused
    BY <2>1
  <2> QED BY <1>1, <2>2 DEF Request!LaunchesFit, Request!ConfiguredPoolsLaunch, Request!DaemonGetsTheLimits,
            Request!CacheIsReachable, Request!FoundByItsOwnOnly, Request!Launched
<1>2. CASE Prepared(P) /\ ctr = Outcome(P) /\ ~Request(P)!OwnershipAccepted(own)
  <2>1. ctr = Request(P)!Refused
    BY <1>2, OutcomeFits
  <2> QED BY <1>2, <2>1 DEF Request!LaunchesFit, Request!ConfiguredPoolsLaunch, Request!DaemonGetsTheLimits,
            Request!CacheIsReachable, Request!FoundByItsOwnOnly, Request!Launched
<1>3. CASE Prepared(P) /\ ctr = Outcome(P) /\ Request(P)!OwnershipAccepted(own)
  <2>1. req.env = Request(P)!poolEnv(cache)
    BY <1>3 DEF Prepared
  <2>2. /\ ctr # Request(P)!Refused
        /\ ctr.labels = Request(P)!ownershipLabels(own) /\ ctr.memory = pool.memory * P.Unit
        /\ ctr.swap = pool.swap * P.Unit /\ ctr.dns = pool.dns
        /\ pool.backend = "containerd" =>
             /\ ctr.cpu = pool.cpus
             /\ ctr.env = IF Request(P)!CacheHost(req.env) # "" /\ gateway
                          THEN Request(P)!RewriteCacheHost(req.env, "gateway") ELSE req.env
        /\ pool.backend # "containerd" =>
             /\ ctr.cpu = IF pool.os = "windows" THEN pool.cpus ELSE pool.cpus * P.Unit
             /\ ctr.env = req.env /\ ctr.hosts = {Request(P)!CacheHost(req.env)} \ {""}
    BY <1>3, OutcomeFits
  <2>3. Request(P)!ConfiguredPoolsLaunch
    BY <2>2 DEF Request!ConfiguredPoolsLaunch
  <2>4. Request(P)!DaemonGetsTheLimits
    BY <2>2 DEF Request!DaemonGetsTheLimits
  <2>5. Request(P)!FoundByItsOwnOnly
    <3> SUFFICES ASSUME NEW o \in P.Owners, Request(P)!Validate(o), ~Request(P)!IsZero(o)
                 PROVE  Request(P)!Listed(ctr.labels, o) <=>
                          (~Request(P)!IsZero(own) /\ o.instance = own.instance /\ o.target = own.target /\ o.pool = own.pool)
      BY DEF Request!FoundByItsOwnOnly
    <3>1. PICK w : w = own
      OBVIOUS
    <3>2. Request(P)!OwnershipAccepted(w)
      BY <1>3, <3>1
    <3>3. Request(P)!Listed(Request(P)!ownershipLabels(w), o) <=>
            (~Request(P)!IsZero(w) /\ o.instance = w.instance /\ o.target = w.target /\ o.pool = w.pool)
      BY <3>2, LabelsIdentify
    <3> QED BY <2>2, <3>1, <3>3
  <2>6. Request(P)!CacheIsReachable
    <3> SUFFICES ASSUME NEW k \in DOMAIN ctr.env
                 PROVE  \/ ctr.env[k] \in {"10.0.0.5", "gateway"} \cup ctr.hosts
                        \/ pool.backend = "containerd" /\ ~gateway
      BY DEF Request!CacheIsReachable
    <3>1. k \in DOMAIN req.env
      BY <2>1, <2>2, UrlsAreReachable DEF Request!RewriteCacheHost
    <3>2. /\ req.env[k] = "10.0.0.5" \/ (req.env[k] = Request(P)!CacheHost(req.env) /\ req.env[k] # "")
          /\ Request(P)!RewriteCacheHost(req.env, "gateway")[k] \in {"10.0.0.5", "gateway"}
      BY <2>1, <3>1, UrlsAreReachable
    <3> QED BY <2>2, <3>2
  <2> QED BY <2>3, <2>4, <2>5, <2>6 DEF Request!LaunchesFit
<1> QED BY <1>1, <1>2, <1>3 DEF RequestInv

-----------------------------------------------------------------------------
(* BakePorts: the resolved ports differ before anybody binds one. *)


BoundPorts(P) ==
  {<<"qmp", P.QMP>>} \cup {<<"vnc", p>> : p \in {vnc} \ {-1}} \cup {<<"websocket", p>> : p \in {websocket} \ {-1}}
    \cup {<<"viewer", p>> : p \in {flags.web} \ (busy \cup Bake(P)!qemu \cup {-1})}
PortsInv(P) ==
  /\ P.Low \cup P.High \subseteq Nat \ {0} /\ {flags.vnc, flags.web} \subseteq P.Low \cup P.High \cup {0, -1}
  /\ P.Low \cap P.High = {} /\ P.QMP \in P.Low
  /\ pc \in {"parse", "start", "running", "error", "failed"}
  /\ pc = "parse" => vnc = -1 /\ websocket = -1
  /\ pc \in {"start", "running", "failed"} =>
       /\ vnc \in P.High \cup {-1} /\ websocket \in P.High \cup {-1}
       /\ flags.web # -1 => vnc # flags.web /\ websocket # flags.web
       /\ websocket # -1 => vnc # -1 /\ vnc # websocket
  /\ pc = "running" => bound = BoundPorts(P) /\ Bake(P)!qemu \cap busy = {}
  /\ pc = "failed" => Bake(P)!qemu \cap busy # {} \/ flags.web = P.QMP

LEMMA PortsStep ==
  ASSUME NEW P, PortsInv(P), [Bake(P)!Next]_(Bake(P)!vars)
  PROVE  PortsInv(P)'
<1> USE DEF Bake!None, Bake!Ports
<1>1. ASSUME Bake(P)!prepareVNC PROVE PortsInv(P)'
  <2>1. /\ pc = "parse" /\ UNCHANGED <<flags, busy, bound>>
    BY <1>1 DEF Bake!prepareVNC
  <2>2. CASE pc' = "error"
    BY <2>1, <2>2 DEF PortsInv
  <2>3. CASE pc' # "error" /\ ~Bake(P)!Wanted
    BY <1>1, <2>1, <2>3 DEF Bake!prepareVNC, Bake!Wanted, PortsInv
  <2>4. CASE pc' # "error" /\ Bake(P)!Wanted
    <3>1. /\ ~Bake(P)!Rejected /\ pc' = "start"
          /\ \E v \in IF flags.vnc \in {0, -1} THEN Bake(P)!freePort({flags.web}) ELSE {flags.vnc} :
               /\ vnc' = v
               /\ \/ flags.web = -1 /\ websocket' = websocket
                  \/ flags.web # -1 /\ \E w \in Bake(P)!freePort({v, flags.web}) : websocket' = w
      BY <1>1, <2>4 DEF Bake!prepareVNC
    <3> QED BY <2>1, <3>1 DEF Bake!Rejected, Bake!freePort, PortsInv
  <2> QED BY <2>2, <2>3, <2>4
<1>2. ASSUME Bake(P)!Start PROVE PortsInv(P)'
  <2>1. pc = "start" /\ UNCHANGED <<flags, busy, vnc, websocket>> /\ Bake(P)!qemu' = Bake(P)!qemu
    BY <1>2 DEF Bake!Start, Bake!qemu
  <2>2. ~Bake(P)!Twice
    BY <2>1 DEF PortsInv, Bake!Twice
  <2>3. CASE pc' = "failed"
    <3>1. Bake(P)!qemu \cap (busy \cup {flags.web}) # {}
      BY <1>2, <2>2, <2>3 DEF Bake!Start
    <3>2. flags.web \in Bake(P)!qemu => flags.web = P.QMP
      BY <2>1 DEF Bake!qemu, PortsInv
    <3> QED BY <2>1, <2>3, <3>1, <3>2 DEF PortsInv
  <2>4. CASE pc' = "running"
    <3>1. bound' = BoundPorts(P) /\ Bake(P)!qemu \cap busy = {}
      BY <1>2, <2>4 DEF Bake!Start, BoundPorts
    <3>2. BoundPorts(P)' = BoundPorts(P)
      BY <2>1 DEF BoundPorts
    <3> QED BY <2>1, <2>4, <3>1, <3>2 DEF PortsInv
  <2> QED BY <1>2, <2>3, <2>4 DEF Bake!Start
<1>3. ASSUME NEW p \in P.Low \cup P.High, Bake(P)!Taken(p) PROVE PortsInv(P)'
  BY <1>3 DEF Bake!Taken, PortsInv
<1>4. ASSUME UNCHANGED Bake(P)!vars PROVE PortsInv(P)'
  BY <1>4 DEF Bake!vars, PortsInv, BoundPorts, Bake!qemu
<1> QED
  BY <1>1, <1>2, <1>3, <1>4 DEF Bake!Next, Bake!Over, Bake!Probing

LEMMA PortsInitial ==
  ASSUME NEW P, Bake(P)!PortsAssumption
  PROVE  Bake(P)!Init => PortsInv(P)
BY DEF Bake!Init, Bake!PortsAssumption, Bake!Ports, Bake!None, PortsInv

LEMMA PortsGoal ==
  ASSUME NEW P, Bake(P)!PortsAssumption
  PROVE  PortsInv(P) => Bake(P)!ListenersDoNotCollide
<1> SUFFICES ASSUME PortsInv(P) PROVE Bake(P)!ListenersDoNotCollide
  OBVIOUS
<1>1. ASSUME pc = "running" PROVE /\ \A a, b \in bound : a[2] = b[2] => a = b
                                  /\ flags.web \notin {-1, P.QMP} \cup busy => <<"viewer", flags.web>> \in bound
  <2>1. bound = BoundPorts(P)
    BY <1>1 DEF PortsInv
  <2>2. P.QMP \notin {vnc, websocket, -1} /\ (vnc # -1 => vnc # websocket)
    BY <1>1 DEF PortsInv
  <2>3. \A a, b \in bound : a[2] = b[2] => a = b
    BY <2>1, <2>2 DEF BoundPorts, Bake!qemu, Bake!None
  <2>4. flags.web # -1 => flags.web \notin {vnc, websocket}
    BY <1>1 DEF PortsInv
  <2> QED BY <2>1, <2>3, <2>4 DEF BoundPorts, Bake!qemu
<1> QED BY <1>1 DEF Bake!ListenersDoNotCollide, Bake!None, PortsInv

-----------------------------------------------------------------------------
(* ConfigLoad: what Validate accepts can be run. *)


\* A file has the fields that the defaults are about, and so have its pools.
FileShape ==
  /\ {"repos", "pat", "provisioning", "pools"} \subseteq DOMAIN file
  /\ file.repos # <<>> => 1 \in DOMAIN file.repos
  /\ \A i \in DOMAIN file.pools : {"name", "scaleSet", "size", "folder", "tier"} \subseteq DOMAIN file.pools[i]

Resolved(P) == Config(P)!applyDefaults(Config(P)!resolveSecrets(file))
ConfigInv(P) ==
  /\ FileShape
  /\ load = "loaded" => cfg = Resolved(P) /\ Config(P)!Validate(cfg)
  /\ load = "rejected" => ~Config(P)!Validate(Resolved(P))

\* The scope decides the clients.
LEMMA ClientsOf ==
  ASSUME NEW P, NEW c, Config(P)!ValidScope(c)
  PROVE  \/ c.scope = "repo" /\ Config(P)!Clients(c) = <<<<c.owner, c.repo>>>> /\ c.owner # "" /\ c.repo # ""
         \/ c.scope = "repos" /\ Config(P)!Clients(c) = Config(P)!ResolvedRepos(c) /\ Config(P)!ValidRepos(c)
         \/ c.scope \in {"org", "enterprise"} /\ Config(P)!Clients(c) = <<<<c.owner>>>> /\ c.owner # ""
BY DEF Config!ValidScope, Config!Clients, Config!RepoTargets

\* A command with one target has one client.
LEMMA OneClient ==
  ASSUME NEW x, NEW cs, cs = <<x>>
  PROVE  Len(cs) = 1 /\ \A i \in DOMAIN cs : i = 1 /\ cs[i] = x
OBVIOUS

LEMMA ClientsDiffer ==
  ASSUME NEW P, Config(P)!Validate(cfg)
  PROVE  Config(P)!ClientsAreDistinct
<1> DEFINE cs == Config(P)!Clients(cfg)
<1> SUFFICES ASSUME NEW i \in DOMAIN cs, NEW j \in DOMAIN cs
             PROVE  "" \notin Config(P)!Range0(cs[i]) /\ (i # j => Config(P)!LowerAll(cs[i]) # Config(P)!LowerAll(cs[j]))
  BY DEF Config!ClientsAreDistinct
<1> HIDE DEF cs
<1>0. Config(P)!ValidScope(cfg)
  BY DEF Config!Validate
<1>1. CASE cfg.scope = "repo"
  <2>1. cs = <<<<cfg.owner, cfg.repo>>>> /\ cfg.owner # "" /\ cfg.repo # ""
    BY <1>0, <1>1, ClientsOf DEF cs
  <2>2. i = 1 /\ j = 1 /\ cs[i] = <<cfg.owner, cfg.repo>>
    BY <2>1, OneClient
  <2>3. Config(P)!Range0(<<cfg.owner, cfg.repo>>) = {cfg.owner, cfg.repo}
    BY DEF Config!Range0
  <2> QED BY <2>1, <2>2, <2>3
<1>2. CASE cfg.scope = "repos"
  <2>1. cs = Config(P)!ResolvedRepos(cfg) /\ Config(P)!ValidRepos(cfg)
    BY <1>0, <1>2, ClientsOf DEF cs
  <2>2. DOMAIN cs = DOMAIN cfg.repos
    BY <2>1 DEF Config!ResolvedRepos
  <2> QED BY <2>1, <2>2 DEF Config!ValidRepos, Config!DistinctRepos
<1>3. CASE cfg.scope \in {"org", "enterprise"}
  <2>1. cs = <<<<cfg.owner>>>> /\ cfg.owner # ""
    BY <1>0, <1>3, ClientsOf DEF cs
  <2>2. i = 1 /\ j = 1 /\ cs[i] = <<cfg.owner>>
    BY <2>1, OneClient
  <2>3. Config(P)!Range0(<<cfg.owner>>) = {cfg.owner}
    BY DEF Config!Range0
  <2> QED BY <2>1, <2>2, <2>3
<1> QED BY <1>0, <1>1, <1>2, <1>3, ClientsOf

LEMMA CredentialFits ==
  ASSUME NEW P, Config(P)!Validate(cfg)
  PROVE  Config(P)!CredentialFitsClients
<1> DEFINE cs == Config(P)!Clients(cfg)
<1>0. Config(P)!ValidScope(cfg) /\ Config(P)!ValidAuth(cfg)
  BY DEF Config!Validate
<1>1. CASE cfg.pat # ""
  BY <1>1 DEF Config!CredentialFitsClients
<1>2. CASE cfg.pat = "" /\ cfg.appId # 0
  <2>1. cfg.scope # "enterprise" /\ cfg.installation /\ Config(P)!IsApp(cfg)
    BY <1>0, <1>2 DEF Config!ValidAuth, Config!IsApp, Config!IsDeviceApp
  <2>2. \A i, j \in DOMAIN cs : Config(P)!Lower(cs[i][1]) = Config(P)!Lower(cs[j][1])
    <3>1. CASE cfg.scope = "repos"
      <4>1. cs = Config(P)!ResolvedRepos(cfg) /\ Config(P)!ValidRepos(cfg)
        BY <1>0, <3>1, ClientsOf
      <4>2. DOMAIN cs = DOMAIN cfg.repos
        BY <4>1 DEF Config!ResolvedRepos
      <4> QED BY <2>1, <4>1, <4>2 DEF Config!ValidRepos, Config!OneInstallation
    <3>2. CASE cfg.scope # "repos"
      <4>1. \E x : cs = <<x>>
        BY <1>0, <3>2, ClientsOf
      <4> QED BY <4>1
    <3> QED BY <3>1, <3>2
  <2> QED BY <1>2, <2>1, <2>2 DEF Config!CredentialFitsClients
<1>3. CASE cfg.pat = "" /\ cfg.appId = 0
  <2>1. cfg.scope \notin {"enterprise", "repos"} /\ cfg.tokenPath
    BY <1>0, <1>3 DEF Config!ValidAuth, Config!IsApp, Config!IsDeviceApp
  <2>2. \E x : cs = <<x>>
    BY <1>0, <2>1, ClientsOf
  <2>3. Len(cs) = 1
    BY <2>2
  <2> QED BY <1>3, <2>1, <2>3 DEF Config!CredentialFitsClients
<1> QED BY <1>1, <1>2, <1>3

LEMMA BoundPoolsServed ==
  ASSUME NEW P, Config(P)!Validate(cfg), cfg.repos # <<>> => 1 \in DOMAIN cfg.repos
  PROVE  Config(P)!BoundPoolHasClient
<1> DEFINE cs == Config(P)!Clients(cfg)
<1> SUFFICES ASSUME NEW p \in Config(P)!Pools(cfg), p.repository # Config(P)!None
             PROVE  \E i \in DOMAIN cs :
                      \/ cfg.scope = "enterprise"
                      \/ cfg.scope = "org" /\ Config(P)!Lower(cs[i][1]) = Config(P)!Lower(p.repository[1])
                      \/ Config(P)!LowerAll(cs[i]) = Config(P)!LowerAll(p.repository)
  BY DEF Config!BoundPoolHasClient
<1>0. Config(P)!ValidScope(cfg) /\ Config(P)!ValidRepository(cfg, p)
  BY DEF Config!Validate, Config!ValidPools
<1>1. CASE cfg.scope \in {"repo", "repos"}
  <2>1. cs = Config(P)!RepoTargets(cfg)
    BY <1>1 DEF Config!Clients
  <2>2. Config(P)!RepoTargets(cfg) # <<>>
    <3>1. CASE cfg.scope = "repo"
      BY <3>1 DEF Config!RepoTargets
    <3>2. CASE cfg.scope = "repos"
      <4>1. cfg.repos # <<>>
        BY <1>0, <3>2 DEF Config!ValidScope, Config!ValidRepos
      <4>2. 1 \in DOMAIN cfg.repos
        BY <4>1
      <4>3. 1 \in DOMAIN Config(P)!RepoTargets(cfg)
        BY <3>2, <4>2 DEF Config!RepoTargets, Config!ResolvedRepos
      <4> QED BY <4>3
    <3> QED BY <1>1, <3>1, <3>2
  <2>3. Config(P)!LowerAll(p.repository) \in {Config(P)!LowerAll(ref) : ref \in Config(P)!Range0(Config(P)!RepoTargets(cfg))}
    BY <1>0, <2>2 DEF Config!ValidRepository
  <2> QED BY <2>1, <2>3 DEF Config!Range0
<1>2. CASE cfg.scope \in {"org", "enterprise"}
  <2>1. cs = <<<<cfg.owner>>>> /\ Config(P)!RepoTargets(cfg) = <<>>
    BY <1>0, <1>2, ClientsOf DEF Config!RepoTargets
  <2>2. 1 \in DOMAIN cs /\ cs[1][1] = cfg.owner
    BY <2>1
  <2> QED BY <1>0, <1>2, <2>1, <2>2 DEF Config!ValidRepository
<1> QED BY <1>0, <1>1, <1>2, ClientsOf

LEMMA WorkspacesDiffer ==
  ASSUME NEW P, Config(P)!Validate(cfg)
  PROVE  Config(P)!WorkspacesAreExclusive
<1> SUFFICES ASSUME NEW a \in Config(P)!Workspaces(cfg), NEW b \in Config(P)!Workspaces(cfg), a # b
             PROVE  LET p == cfg.pools[a[1]]
                        q == cfg.pools[b[1]]
                    IN  Config(P)!Lower(p.host) # Config(P)!Lower(q.host) \/ p.folder # q.folder
  BY DEF Config!WorkspacesAreExclusive
<1>1. ASSUME NEW x \in Config(P)!Workspaces(cfg)
      PROVE  x[1] \in DOMAIN cfg.pools /\ x[2] = 1 /\ cfg.pools[x[1]].share /\ x = <<x[1], x[2]>>
  <2>1. x \in (DOMAIN cfg.pools) \X (1..2) /\ cfg.pools[x[1]].share /\ x[2] <= cfg.pools[x[1]].size
    BY DEF Config!Workspaces
  <2>2. cfg.pools[x[1]] \in Config(P)!Pools(cfg)
    BY <2>1 DEF Config!Pools, Config!Range0
  <2>3. cfg.pools[x[1]].size = 1
    BY <2>1, <2>2 DEF Config!Validate, Config!ValidPools, Config!ValidWorkspace
  <2> QED BY <2>1, <2>3
<1>2. a[1] # b[1]
  BY <1>1
<1>3. Config(P)!DistinctWorkspaces(cfg)
  BY DEF Config!Validate, Config!ValidPools
<1> QED BY <1>1, <1>2, <1>3 DEF Config!DistinctWorkspaces

LEMMA LimitsAreWhole ==
  ASSUME NEW P, Config(P)!ConfigAssumption, Config(P)!Validate(cfg)
  PROVE  Config(P)!LimitsFit
<1> SUFFICES ASSUME NEW p \in Config(P)!Pools(cfg)
             PROVE  /\ \A n \in {p.cpus, p.memory, p.swap} :
                         Config(P)!Wrapped(n * P.Unit) = n * P.Unit /\ Config(P)!Wrapped(n * P.Unit) >= 0
                    /\ p.swap # 0 => Config(P)!Wrapped(p.memory * P.Unit) <= Config(P)!Wrapped(p.swap * P.Unit)
  BY DEF Config!LimitsFit
<1>1. P.Unit \in Nat \ {0} /\ P.MaxInt \in Nat
  BY DEF Config!ConfigAssumption
<1>2. Config(P)!validateContainerConfig(p)
  BY DEF Config!Validate, Config!ValidPools
<1>3. ASSUME NEW n \in 0..(P.MaxInt \div P.Unit)
      PROVE  Config(P)!Wrapped(n * P.Unit) = n * P.Unit /\ Config(P)!Wrapped(n * P.Unit) >= 0 /\ n \in Nat
  <2>1. n * P.Unit \in 0..P.MaxInt
    BY <1>1, UnitsFit
  <2>2. Config(P)!Wrapped(n * P.Unit) = n * P.Unit
    BY <1>1, <2>1, NothingWraps DEF Config!Wrapped
  <2>3. n * P.Unit >= 0
    BY <1>1, <2>1
  <2>4. n \in Nat
    BY <1>1
  <2> QED BY <2>2, <2>3, <2>4
<1>4. /\ p.cpus \in 0..(P.MaxInt \div P.Unit) /\ p.memory \in 0..(P.MaxInt \div P.Unit) /\ p.swap \in 0..(P.MaxInt \div P.Unit)
      /\ p.swap # 0 => p.memory <= p.swap
  <2>1. /\ p.cpus \in 0..(P.MaxInt \div P.Unit) /\ p.memory \in 0..(P.MaxInt \div P.Unit) /\ p.swap \in 0..(P.MaxInt \div P.Unit)
        /\ p.swap # 0 => p.swap >= p.memory
    BY <1>2 DEF Config!validateContainerConfig
  <2> QED BY <1>1, <2>1
<1>5. p.swap # 0 => p.memory * P.Unit <= p.swap * P.Unit
  BY <1>1, <1>3, <1>4, UnitsKeepOrder
<1> QED BY <1>3, <1>4, <1>5

LEMMA ImagesParse ==
  ASSUME NEW P, Config(P)!Validate(cfg)
  PROVE  Config(P)!ImagesAreReferences
<1> SUFFICES ASSUME NEW p \in Config(P)!Pools(cfg), p.backend # "qemu", Config(P)!ImageRef(p).tag = "dev"
             PROVE  Config(P)!ImageRef(p).repository \in Config(P)!localImageTierPattern
  BY DEF Config!ImagesAreReferences
<1>1. Config(P)!validateImageTier(p)
  BY DEF Config!Validate, Config!ValidPools
<1>2. ~p.image /\ p.tier \notin {"", "minimal"} \cup Config(P)!publishedFlavors(p.os)
  BY DEF Config!ImageRef
<1>3. Config(P)!ImageRef(p).repository = p.tier
  BY <1>2 DEF Config!ImageRef
<1> QED BY <1>1, <1>2, <1>3 DEF Config!validateImageTier
\* resolveSecrets and applyDefaults keep the target and the pools' names; an unnamed scale set gets one.
LEMMA DefaultsKeepNames ==
  ASSUME NEW P, FileShape
  PROVE  /\ Resolved(P).repos = file.repos /\ DOMAIN Resolved(P).pools = DOMAIN file.pools
         /\ \A i \in DOMAIN file.pools :
              /\ Resolved(P).pools[i].name = file.pools[i].name
              /\ file.pools[i].scaleSet = "" /\ Config(P)!IsScaleset(Resolved(P)) =>
                   Resolved(P).pools[i].scaleSet = file.pools[i].name
<1> DEFINE r == Config(P)!resolveSecrets(file)
           d == [r EXCEPT !.provisioning = Config(P)!provisioning(r)]
           Defaulted(p) == [p EXCEPT !.scaleSet = Config(P)!scaleSet(d, p), !.size = IF @ = 0 THEN 1 ELSE @,
                             !.folder = IF @ = "" THEN "_work" ELSE @, !.tier = IF @ = "" THEN "minimal" ELSE @]
           ps == [i \in DOMAIN r.pools |-> Defaulted(r.pools[i])]
<1>1. r = [file EXCEPT !.pat = Config(P)!expandEnvRef(file.pat)]
  BY DEF Config!resolveSecrets
<1>2. Resolved(P) = [d EXCEPT !.pools = ps]
  BY DEF Resolved, Config!applyDefaults
<1>3. /\ r.repos = file.repos /\ r.pools = file.pools
      /\ DOMAIN r = DOMAIN file /\ {"provisioning", "pools", "repos"} \subseteq DOMAIN r
  BY <1>1 DEF FileShape
<1> HIDE DEF r
<1>4. d.repos = r.repos /\ d.pools = r.pools /\ DOMAIN d = DOMAIN r
  BY <1>3
<1> HIDE DEF d, ps
<1>5. Resolved(P).repos = d.repos /\ Resolved(P).pools = ps /\ Resolved(P).provisioning = d.provisioning
  BY <1>2, <1>3, <1>4
<1>6. Config(P)!IsScaleset(Resolved(P)) <=> Config(P)!IsScaleset(d)
  BY <1>5 DEF Config!IsScaleset
<1>7. DOMAIN ps = DOMAIN file.pools /\ \A i \in DOMAIN file.pools : ps[i] = Defaulted(file.pools[i])
  BY <1>3 DEF ps
<1>8. ASSUME NEW p, {"name", "scaleSet", "size", "folder", "tier"} \subseteq DOMAIN p
      PROVE  Defaulted(p).name = p.name /\ Defaulted(p).scaleSet = Config(P)!scaleSet(d, p)
  BY <1>8
<1>9. \A i \in DOMAIN file.pools : {"name", "scaleSet", "size", "folder", "tier"} \subseteq DOMAIN file.pools[i]
  BY DEF FileShape
<1> HIDE DEF Defaulted
<1> QED
  BY <1>3, <1>4, <1>5, <1>6, <1>7, <1>8, <1>9 DEF Config!scaleSet

LEMMA UnnamedLoad ==
  ASSUME NEW P, ConfigInv(P)
  PROVE  Config(P)!UnnamedScaleSetsLoad
<1> DEFINE c == Resolved(P)
<1> SUFFICES ASSUME load = "rejected", \A p \in Config(P)!Pools(file) : p.scaleSet = "",
                    Config(P)!ValidScope(c), Config(P)!ValidAuth(c), Config(P)!ValidPools(c)
             PROVE  FALSE
  BY DEF Config!UnnamedScaleSetsLoad, Resolved
<1>1. /\ DOMAIN c.pools = DOMAIN file.pools
      /\ \A i \in DOMAIN file.pools :
           /\ c.pools[i].name = file.pools[i].name
           /\ file.pools[i].scaleSet = "" /\ Config(P)!IsScaleset(c) => c.pools[i].scaleSet = file.pools[i].name
  BY DefaultsKeepNames DEF ConfigInv
<1>2. ~Config(P)!Validate(c)
  BY DEF ConfigInv
<1> HIDE DEF c
<1>3. ASSUME Config(P)!IsScaleset(c), NEW i \in DOMAIN c.pools
      PROVE  c.pools[i].scaleSet = c.pools[i].name /\ c.pools[i].name # ""
  <2>1. file.pools[i].scaleSet = ""
    BY <1>1 DEF Config!Pools, Config!Range0
  <2>2. c.pools[i].name # ""
    BY DEF Config!ValidPools, Config!Pools, Config!Range0
  <2> QED BY <1>1, <1>3, <2>1, <2>2
<1>4. \A i, j \in DOMAIN c.pools : i # j => c.pools[i].name # c.pools[j].name
  BY DEF Config!ValidPools
<1>5. Config(P)!DistinctScaleSets(c)
  <2> SUFFICES ASSUME Config(P)!IsScaleset(c)
               PROVE  /\ \A p \in Config(P)!Pools(c) : p.scaleSet # ""
                      /\ \A i, j \in DOMAIN c.pools : i # j => c.pools[i].scaleSet # c.pools[j].scaleSet
    BY DEF Config!DistinctScaleSets
  <2>1. \A i \in DOMAIN c.pools : c.pools[i].scaleSet = c.pools[i].name /\ c.pools[i].name # ""
    BY <1>3
  <2>2. \A p \in Config(P)!Pools(c) : p.scaleSet # ""
    BY <2>1 DEF Config!Pools, Config!Range0
  <2>3. \A i, j \in DOMAIN c.pools : i # j => c.pools[i].scaleSet # c.pools[j].scaleSet
    BY <1>4, <2>1
  <2> QED BY <2>2, <2>3
<1> QED BY <1>2, <1>5 DEF Config!Validate

\* Every file that is tried has the shape of one.
LEMMA FilesHaveShape ==
  ASSUME NEW P, Config(P)!Init
  PROVE  FileShape
<1> DEFINE A == Config(P)!AFile
           F == {"name", "scaleSet", "size", "folder", "tier"}
<1>1. F \subseteq DOMAIN Config(P)!APool
  BY DEF Config!APool
<1>2. /\ DOMAIN A = {"scope", "owner", "repo", "repos", "pat", "appId", "installation", "tokenPath", "provisioning", "pools"}
      /\ A.repos = <<>> /\ A.pools = <<Config(P)!APool>>
  BY DEF Config!AFile
<1>3. \A x : DOMAIN <<x>> = {1} /\ <<x>>[1] = x
  OBVIOUS
<1> HIDE DEF A
<1>p1. \A a, b : DOMAIN Config(P)!BoundPool(a, b) = DOMAIN Config(P)!APool
  BY DEF Config!BoundPool
\* The defaults are about no field that a file may lack.
<1>q. ASSUME NEW ps, DOMAIN file = DOMAIN A, file.pools = ps, \A i \in DOMAIN ps : DOMAIN ps[i] = DOMAIN Config(P)!APool,
             file.repos # <<>> => 1 \in DOMAIN file.repos
      PROVE  FileShape
  BY <1>1, <1>2, <1>q DEF FileShape
<1>r. ASSUME NEW q, DOMAIN q = DOMAIN Config(P)!APool, DOMAIN file = DOMAIN A, file.pools = <<q>>,
             file.repos # <<>> => 1 \in DOMAIN file.repos
      PROVE  FileShape
  <2>1. \A i \in DOMAIN <<q>> : DOMAIN <<q>>[i] = DOMAIN Config(P)!APool
    BY <1>r
  <2> QED BY <1>q, <1>r, <2>1
<1>4. ASSUME Config(P)!AnyTarget PROVE FileShape
  <2>1. \A repos \in Config(P)!RepoLists : repos # <<>> => 1 \in DOMAIN repos
    BY DEF Config!RepoLists
  <2>2. PICK scope \in {"", "repo", "repos", "org", "enterprise"}, owner \in {"", "o1"}, pat \in {"", "literal", "$VAR"},
             id \in {0, 7}, in \in BOOLEAN, token \in BOOLEAN, pv \in {"", "pool", "autoscale", "scaleset"},
             b \in {Config(P)!None, <<"o1", "R1">>, <<"o2", "r1">>, <<"o2", "r2">>}, repo \in {"", "r1"},
             repos \in Config(P)!RepoLists :
          /\ scope # "repo" => repo = "r1"
          /\ scope # "repos" => repos = <<>>
          /\ file = [A EXCEPT !.scope = scope, !.owner = owner, !.repo = repo, !.repos = repos, !.pat = pat, !.appId = id,
                              !.installation = in, !.tokenPath = token, !.provisioning = pv,
                              !.pools = <<Config(P)!BoundPool(b, "none")>>]
    BY <1>4 DEF Config!AnyTarget, A
  <2>3. DOMAIN file = DOMAIN A /\ file.repos = repos /\ file.pools = <<Config(P)!BoundPool(b, "none")>>
    BY <1>2, <2>2
  <2> QED BY <1>p1, <1>r, <2>1, <2>3
<1>5. ASSUME Config(P)!AnyWorkflows PROVE FileShape
  <2>1. PICK pv \in {"webhook", "other"}, b \in {Config(P)!None, <<"o1", "r1">>, <<"r1">>},
             flows \in {"none", "partial", "full", "invalid", "repeated"} :
          file = [A EXCEPT !.provisioning = pv, !.pools = <<Config(P)!BoundPool(b, flows)>>]
    BY <1>5 DEF Config!AnyWorkflows, A
  <2>2. DOMAIN file = DOMAIN A /\ file.repos = <<>> /\ file.pools = <<Config(P)!BoundPool(b, flows)>>
    BY <1>2, <2>1
  <2> QED BY <1>p1, <1>r, <2>2
<1>6. ASSUME Config(P)!NoPool PROVE FileShape
  BY <1>2, <1>6 DEF Config!NoPool, A, FileShape
<1>7. ASSUME Config(P)!TwoPools PROVE FileShape
  <2>1. ASSUME NEW p, NEW q, NEW pv, DOMAIN p = DOMAIN Config(P)!APool, DOMAIN q = DOMAIN Config(P)!APool,
               file = [A EXCEPT !.pools = <<p, q>>, !.provisioning = pv]
        PROVE  FileShape
    <3>1. DOMAIN file = DOMAIN A /\ file.repos = <<>> /\ file.pools = <<p, q>>
      BY <1>2, <2>1
    <3>2. \A i \in DOMAIN <<p, q>> : DOMAIN <<p, q>>[i] = DOMAIN Config(P)!APool
      BY <2>1
    <3> QED BY <1>q, <3>1, <3>2
  <2>2. PICK set1 \in {"", "a", "b"}, set2 \in {"", "a", "b"}, share1 \in BOOLEAN, share2 \in BOOLEAN, dind \in BOOLEAN,
             folder1 \in {"", "w"}, folder2 \in {"", "_work", "w", "a/b"}, size1 \in {0, 2}, size2 \in {-1, 0, 1, 2},
             host \in {"", "h1", "H1", "h2"}, name \in {"", "a", "b"}, be \in {"", "containerd"}, pv \in {"", "pool"} :
          file = [A EXCEPT !.pools = <<Config(P)!FirstPool(set1, share1, folder1, size1),
                                       Config(P)!SecondPool(name, set2, share2, dind, folder2, size2, host, be)>>,
                           !.provisioning = pv]
    BY <1>7 DEF Config!TwoPools, A
  <2> DEFINE p == Config(P)!FirstPool(set1, share1, folder1, size1)
             q == Config(P)!SecondPool(name, set2, share2, dind, folder2, size2, host, be)
  <2>3. file = [A EXCEPT !.pools = <<p, q>>, !.provisioning = pv]
    BY <2>2
  <2>4. DOMAIN p = DOMAIN Config(P)!APool
    BY DEF Config!FirstPool
  <2>5. DOMAIN q = DOMAIN Config(P)!APool
    BY DEF Config!SecondPool
  <2> HIDE DEF p, q
  <2> QED BY <2>1, <2>3, <2>4, <2>5
<1>8. ASSUME Config(P)!OnePool PROVE FileShape
  <2>1. ASSUME NEW q, DOMAIN q = DOMAIN Config(P)!APool, file = [A EXCEPT !.pools = <<q>>] PROVE FileShape
    <3>1. DOMAIN file = DOMAIN A /\ file.repos = <<>> /\ file.pools = <<q>>
      BY <1>2, <2>1
    <3> QED BY <1>r, <2>1, <3>1
  <2>2. PICK os \in {"linux", "windows", "mac"}, be \in {"", "docker", "containerd", "qemu"} :
          \/ \E cpus \in {0, -1, P.MaxInt \div P.Unit, 1 + P.MaxInt \div P.Unit},
                memory \in {0, -1, 1, P.MaxInt \div P.Unit, 1 + P.MaxInt \div P.Unit},
                swap \in {0, 1, P.MaxInt \div P.Unit, 1 + P.MaxInt \div P.Unit}, dns \in {"none", "address", "name"} :
               file = [A EXCEPT !.pools = <<Config(P)!LimitPool(os, be, cpus, memory, swap, dns)>>]
          \/ \E image, golden \in BOOLEAN, tier \in {"", "node", "native-build", "buildtools:17", "mine", "Bad Tier"},
                tls \in {{}, {"ca"}, {"ca", "cert", "key"}}, host \in {"h1", "tcp"}, tools \in {"known", "unknown"} :
               file = [A EXCEPT !.pools = <<Config(P)!ImagePool(os, be, golden, tools, image, tier, tls, host)>>]
    BY <1>8 DEF Config!OnePool, A
  <2>3. ASSUME NEW cpus, NEW memory, NEW swap, NEW dns,
               file = [A EXCEPT !.pools = <<Config(P)!LimitPool(os, be, cpus, memory, swap, dns)>>]
        PROVE  FileShape
    <3> DEFINE q == Config(P)!LimitPool(os, be, cpus, memory, swap, dns)
    <3>1. file = [A EXCEPT !.pools = <<q>>]
      BY <2>3
    <3>2. DOMAIN q = DOMAIN Config(P)!APool
      BY DEF Config!LimitPool
    <3> HIDE DEF q
    <3> QED BY <2>1, <3>1, <3>2
  <2>4. ASSUME NEW golden, NEW tools, NEW image, NEW tier, NEW tls, NEW host,
               file = [A EXCEPT !.pools = <<Config(P)!ImagePool(os, be, golden, tools, image, tier, tls, host)>>]
        PROVE  FileShape
    <3> DEFINE q == Config(P)!ImagePool(os, be, golden, tools, image, tier, tls, host)
    <3>1. file = [A EXCEPT !.pools = <<q>>]
      BY <2>4
    <3>2. DOMAIN q = DOMAIN Config(P)!APool
      BY DEF Config!ImagePool
    <3> HIDE DEF q
    <3> QED BY <2>1, <3>1, <3>2
  <2>5. CASE \E cpus \in {0, -1, P.MaxInt \div P.Unit, 1 + P.MaxInt \div P.Unit},
                memory \in {0, -1, 1, P.MaxInt \div P.Unit, 1 + P.MaxInt \div P.Unit},
                swap \in {0, 1, P.MaxInt \div P.Unit, 1 + P.MaxInt \div P.Unit}, dns \in {"none", "address", "name"} :
               file = [A EXCEPT !.pools = <<Config(P)!LimitPool(os, be, cpus, memory, swap, dns)>>]
    <3>1. PICK cpus \in {0, -1, P.MaxInt \div P.Unit, 1 + P.MaxInt \div P.Unit},
               memory \in {0, -1, 1, P.MaxInt \div P.Unit, 1 + P.MaxInt \div P.Unit},
               swap \in {0, 1, P.MaxInt \div P.Unit, 1 + P.MaxInt \div P.Unit}, dns \in {"none", "address", "name"} :
               file = [A EXCEPT !.pools = <<Config(P)!LimitPool(os, be, cpus, memory, swap, dns)>>]
      BY <2>5
    <3> QED BY <2>3, <3>1
  <2>6. CASE \E image, golden \in BOOLEAN, tier \in {"", "node", "native-build", "buildtools:17", "mine", "Bad Tier"},
                tls \in {{}, {"ca"}, {"ca", "cert", "key"}}, host \in {"h1", "tcp"}, tools \in {"known", "unknown"} :
               file = [A EXCEPT !.pools = <<Config(P)!ImagePool(os, be, golden, tools, image, tier, tls, host)>>]
    <3>1. PICK image \in BOOLEAN, golden \in BOOLEAN,
               tier \in {"", "node", "native-build", "buildtools:17", "mine", "Bad Tier"},
               tls \in {{}, {"ca"}, {"ca", "cert", "key"}}, host \in {"h1", "tcp"}, tools \in {"known", "unknown"} :
               file = [A EXCEPT !.pools = <<Config(P)!ImagePool(os, be, golden, tools, image, tier, tls, host)>>]
      BY <2>6
    <3> QED BY <2>4, <3>1
  <2> QED BY <2>2, <2>5, <2>6
<1> QED BY <1>4, <1>5, <1>6, <1>7, <1>8 DEF Config!Init
LEMMA ConfigInitial ==
  ASSUME NEW P, Config(P)!Init
  PROVE  ConfigInv(P)
BY FilesHaveShape DEF ConfigInv, Config!Init

\* Load reads the file and the environment, and changes neither.
LEMMA ConfigStep ==
  ASSUME NEW P, ConfigInv(P), [Config(P)!Load]_(Config(P)!vars)
  PROVE  ConfigInv(P)'
<1>1. CASE UNCHANGED Config(P)!vars
  <2>1. UNCHANGED <<file, env, load, cfg>>
    BY <1>1 DEF Config!vars
  <2>2. Resolved(P)' = Resolved(P)
    BY <2>1 DEF Resolved, Config!applyDefaults, Config!resolveSecrets, Config!expandEnvRef
  <2>3. FileShape'
    BY <2>1 DEF ConfigInv, FileShape
  <2> QED BY <2>1, <2>2, <2>3 DEF ConfigInv
<1>2. CASE Config(P)!Load
  <2>1. UNCHANGED <<file, env>>
    BY <1>2 DEF Config!Load
  <2>2. Resolved(P)' = Resolved(P)
    BY <2>1 DEF Resolved, Config!applyDefaults, Config!resolveSecrets, Config!expandEnvRef
  <2>3. FileShape'
    BY <2>1 DEF ConfigInv, FileShape
  <2>4. CASE Config(P)!Validate(Resolved(P))
    <3>1. load' = "loaded" /\ cfg' = Resolved(P)
      BY <1>2, <2>4 DEF Config!Load, Resolved
    <3> QED BY <2>2, <2>3, <2>4, <3>1 DEF ConfigInv
  <2>5. CASE ~Config(P)!Validate(Resolved(P))
    <3>1. load' = "rejected"
      BY <1>2, <2>5 DEF Config!Load, Resolved
    <3> QED BY <2>2, <2>3, <2>5, <3>1 DEF ConfigInv
  <2> QED BY <2>4, <2>5
<1> QED BY <1>1, <1>2

LEMMA ConfigGoal ==
  ASSUME NEW P, Config(P)!ConfigAssumption
  PROVE  ConfigInv(P) => Config(P)!ConfigIsCoherent
<1> SUFFICES ASSUME ConfigInv(P) PROVE Config(P)!ConfigIsCoherent
  OBVIOUS
<1>1. Config(P)!UnnamedScaleSetsLoad
  BY UnnamedLoad
<1>2. CASE ~Config(P)!Loaded
  BY <1>1, <1>2 DEF Config!ConfigIsCoherent, Config!ClientsAreDistinct, Config!CredentialFitsClients,
     Config!BoundPoolHasClient, Config!WorkspacesAreExclusive, Config!LimitsFit, Config!ImagesAreReferences
<1>3. CASE Config(P)!Loaded
  <2>1. cfg = Resolved(P) /\ Config(P)!Validate(cfg)
    BY <1>3 DEF ConfigInv, Config!Loaded
  <2>2. cfg.repos # <<>> => 1 \in DOMAIN cfg.repos
    BY <2>1, DefaultsKeepNames DEF ConfigInv, FileShape
  <2> QED
    BY <1>1, <2>1, <2>2, ClientsDiffer, CredentialFits, BoundPoolsServed, WorkspacesDiffer, LimitsAreWhole, ImagesParse
       DEF Config!ConfigIsCoherent
<1> QED BY <1>2, <1>3

-----------------------------------------------------------------------------
(* Doctor: the repositories are checked in waves.  While one is waiting    *)
(* every slot is taken and a check that is due is over, so each RepoTimeout *)
(* another Concurrency of them were begun: none waits past the last wave.  *)


Waves(P) == (Cardinality(P.Repos) + P.Concurrency - 1) \div P.Concurrency
LastWave(P) == (Waves(P) - 1) * P.RepoTimeout

WorldTyped(P) ==
  /\ \A r \in P.Repos : world.repo[r] \in {"fine", "late", "lost", "off", "forbidden"}
  /\ \A p \in P.PoolNames : world.size[p] \in Nat
DoctorTypes(P) ==
  /\ now \in Nat /\ WorldTyped(P)
  /\ check \in [P.Repos -> [at : {"waiting", "running", "ok", "no", "failed"}, since : Nat]]

\* The checks that were begun by time t.
StartedBy(P, ck, t) == {r \in P.Repos : ck[r].at # "waiting" /\ ck[r].since <= t}
\* A check was begun in one of the waves, and an answer that comes in time is taken when it comes.
BegunInTime(P, r, c) ==
  c.at # "waiting" =>
    /\ c.since <= now /\ c.since <= LastWave(P)
    /\ c.at = "running" /\ world.repo[r] # "lost" => now <= c.since + Doctor(P)!Latency(r)
\* While a check waits, the waves before this moment were full.
FullWaves(P, ck) ==
  (\E r \in P.Repos : ck[r].at = "waiting") =>
    \A j \in Nat : j * P.RepoTimeout < now => Cardinality(StartedBy(P, ck, j * P.RepoTimeout)) >= (j + 1) * P.Concurrency
WaveInv(P) ==
  /\ Doctor(P)!remote => (\A r \in P.Repos : BegunInTime(P, r, check[r])) /\ FullWaves(P, check)
  /\ ~Doctor(P)!remote => \A r \in P.Repos : check[r].at = "waiting"

\* What each phase says of a repository is what is the case.
Fails(r) ==
  \/ world.repo[r] = "lost"
  \/ phase = "warnNoSelfHostedWorkflows" /\ world.repo[r] = "forbidden" /\ ~world.sharedApp
Says(r, c) ==
  /\ c = "failed" => Fails(r)
  /\ c = "no" => phase = "checkActionsEnabled" /\ world.repo[r] = "off"
  /\ c = "ok" => ~Fails(r) /\ ~(phase = "checkActionsEnabled" /\ world.repo[r] = "off")
ResultInv(P) == \A r \in P.Repos : Says(r, check[r].at)

LEMMA WavesCover ==
  ASSUME NEW n \in Nat, NEW c \in Nat \ {0}
  PROVE  LET w == (n + c - 1) \div c IN w \in Nat /\ w * c >= n /\ (n >= 1 => w >= 1)
OBVIOUS

LEMMA NextWave ==
  ASSUME NEW j \in Nat \ {0}, NEW t \in Nat \ {0}
  PROVE  (j - 1) * t \in Nat /\ j * t \in Nat /\ (j - 1) * t + t = j * t /\ (j - 1) * t < j * t
OBVIOUS

LEMMA DoctorCounts ==
  ASSUME NEW P, Doctor(P)!DoctorAssumption
  PROVE  /\ IsFiniteSet(P.Repos) /\ Cardinality(P.Repos) \in Nat
         /\ \A S : Doctor(P)!Cardinality(S) = Cardinality(S)
         /\ \A S : S \subseteq P.Repos => IsFiniteSet(S) /\ Cardinality(S) \in Nat /\ Cardinality(S) <= Cardinality(P.Repos)
         /\ P.Concurrency \in Nat \ {0} /\ P.RepoTimeout \in Nat \ {0} /\ P.PoolTimeout \in Nat \ {0} /\ P.CheckTimeout \in Nat \ {0}
         /\ Waves(P) \in Nat /\ Waves(P) * P.Concurrency >= Cardinality(P.Repos)
         /\ (P.Repos # {} => Waves(P) >= 1)
<1>1. IsFiniteSet(P.Repos)
  BY DEF Doctor!DoctorAssumption, Doctor!IsFiniteSet, IsFiniteSet
<1>2. \A S : Doctor(P)!Cardinality(S) = Cardinality(S)
  BY DEF Doctor!Cardinality, Cardinality, Doctor!IsFiniteSet, IsFiniteSet
<1>3. Cardinality(P.Repos) \in Nat
  BY <1>1, FS_CardinalityType
<1>4. \A S : S \subseteq P.Repos => IsFiniteSet(S) /\ Cardinality(S) \in Nat /\ Cardinality(S) <= Cardinality(P.Repos)
  BY <1>1, FS_Subset, FS_CardinalityType
<1>5. P.Concurrency \in Nat \ {0} /\ P.RepoTimeout \in Nat \ {0} /\ P.PoolTimeout \in Nat \ {0} /\ P.CheckTimeout \in Nat \ {0}
  BY DEF Doctor!DoctorAssumption
<1>6. P.Repos # {} => Cardinality(P.Repos) >= 1
  <2>1. P.Repos # {} => Cardinality(P.Repos) # 0
    BY <1>1, FS_EmptySet
  <2> QED BY <1>3, <2>1
<1>7. Waves(P) \in Nat /\ Waves(P) * P.Concurrency >= Cardinality(P.Repos) /\ (Cardinality(P.Repos) >= 1 => Waves(P) >= 1)
  BY <1>3, <1>5, WavesCover DEF Waves
<1> QED BY <1>1, <1>2, <1>3, <1>4, <1>5, <1>6, <1>7

\* The budget of a phase lasts to the end of its last wave.
LEMMA BudgetLasts ==
  ASSUME NEW P, Doctor(P)!DoctorAssumption, P.Repos # {}
  PROVE  LastWave(P) \in Nat /\ Doctor(P)!remoteCheckBudget \in Nat /\ LastWave(P) + P.RepoTimeout <= Doctor(P)!remoteCheckBudget
<1>1. Waves(P) \in Nat \ {0} /\ P.RepoTimeout \in Nat \ {0} /\ P.CheckTimeout \in Nat
  BY DoctorCounts
<1>2. LastWave(P) \in Nat /\ LastWave(P) + P.RepoTimeout = Waves(P) * P.RepoTimeout /\ Waves(P) * P.RepoTimeout \in Nat
  BY <1>1, NextWave DEF LastWave
<1>3. Doctor(P)!remoteCheckBudget =
        IF Waves(P) * P.RepoTimeout > P.CheckTimeout THEN Waves(P) * P.RepoTimeout ELSE P.CheckTimeout
  BY DoctorCounts DEF Doctor!remoteCheckBudget, Waves
<1> QED BY <1>1, <1>2, <1>3

\* No check waits past the beginning of the last wave.
LEMMA WaitingIsEarly ==
  ASSUME NEW P, Doctor(P)!DoctorAssumption, DoctorTypes(P), WaveInv(P), Doctor(P)!remote,
         NEW r \in P.Repos, check[r].at = "waiting"
  PROVE  now <= LastWave(P)
<1> SUFFICES ASSUME now > LastWave(P) PROVE FALSE
  BY BudgetLasts DEF DoctorTypes
<1> DEFINE S == StartedBy(P, check, LastWave(P))
           n == Cardinality(P.Repos)
<1>1. Waves(P) \in Nat \ {0} /\ n \in Nat /\ Waves(P) * P.Concurrency >= n /\ P.Concurrency \in Nat
  BY DoctorCounts
<1>2. Waves(P) - 1 \in Nat /\ (Waves(P) - 1) * P.RepoTimeout < now
  BY <1>1 DEF LastWave
<1>3. Cardinality(StartedBy(P, check, (Waves(P) - 1) * P.RepoTimeout)) >= ((Waves(P) - 1) + 1) * P.Concurrency
  BY <1>2 DEF WaveInv, FullWaves
<1>4. Cardinality(S) >= Waves(P) * P.Concurrency
  BY <1>1, <1>3 DEF LastWave
<1>5. S \subseteq P.Repos \ {r}
  BY DEF StartedBy
<1>6. IsFiniteSet(P.Repos \ {r}) /\ Cardinality(P.Repos \ {r}) = n - 1
  BY DoctorCounts, FS_RemoveElement
<1>7. Cardinality(S) <= n - 1 /\ Cardinality(S) \in Nat
  BY <1>5, <1>6, FS_Subset, FS_CardinalityType
<1>8. Waves(P) * P.Concurrency \in Nat
  BY <1>1
<1> HIDE DEF S, n
<1> QED BY <1>1, <1>4, <1>7, <1>8

LEMMA LatencyFits ==
  ASSUME NEW P, Doctor(P)!DoctorAssumption, NEW r, world.repo[r] # "lost"
  PROVE  Doctor(P)!Latency(r) \in Nat /\ Doctor(P)!Latency(r) < P.RepoTimeout
<1>1. P.RepoTimeout \in Nat \ {0}
  BY DoctorCounts
<1>2. Doctor(P)!Latency(r) \in {0, P.RepoTimeout - 1}
  BY DEF Doctor!Latency
<1> QED BY <1>1, <1>2

\* A check that is answered in time is within its deadlines.
LEMMA AnswersComeFirst ==
  ASSUME NEW P, Doctor(P)!DoctorAssumption, DoctorTypes(P), WaveInv(P), Doctor(P)!remote,
         NEW r \in P.Repos, check[r].at = "running", world.repo[r] # "lost"
  PROVE  ~Doctor(P)!DeadlinePassed(r)
<1>1. /\ check[r].since <= LastWave(P) /\ now <= check[r].since + Doctor(P)!Latency(r) /\ check[r].since \in Nat /\ now \in Nat
  BY DEF WaveInv, BegunInTime, DoctorTypes
<1>2. Doctor(P)!Latency(r) \in Nat /\ Doctor(P)!Latency(r) < P.RepoTimeout /\ P.RepoTimeout \in Nat
  BY LatencyFits, DoctorCounts
<1>3. LastWave(P) \in Nat /\ Doctor(P)!remoteCheckBudget \in Nat /\ LastWave(P) + P.RepoTimeout <= Doctor(P)!remoteCheckBudget
  BY BudgetLasts
<1> HIDE DEF LastWave
<1> QED BY <1>1, <1>2, <1>3 DEF Doctor!DeadlinePassed

CheckRecords == [at : {"waiting", "running", "ok", "no", "failed"}, since : Nat]

\* One check moves on: it is begun now, or ends as it should.
LEMMA CheckMoves ==
  ASSUME NEW P, Doctor(P)!DoctorAssumption, DoctorTypes(P), WaveInv(P), ResultInv(P), Doctor(P)!remote,
         NEW r \in P.Repos, NEW c \in CheckRecords, check' = [check EXCEPT ![r] = c],
         UNCHANGED <<world, phase, now>>,
         c.at # "waiting", BegunInTime(P, r, c), Says(r, c.at),
         \/ check[r].at = "waiting" /\ c.since = now
         \/ check[r].at # "waiting" /\ c.since = check[r].since
  PROVE  DoctorTypes(P)' /\ WaveInv(P)' /\ ResultInv(P)'
<1>1. DoctorTypes(P)'
  BY DEF DoctorTypes, CheckRecords, WorldTyped
<1>2. \A x \in P.Repos : check'[x] = IF x = r THEN c ELSE check[x]
  BY DEF DoctorTypes
<1>3. Doctor(P)!remote' /\ (\A x : Doctor(P)!Latency(x)' = Doctor(P)!Latency(x))
  BY DEF Doctor!remote, Doctor!Latency
<1>4. \A x \in P.Repos : BegunInTime(P, x, check[x])
  BY DEF WaveInv
<1>5. \A x \in P.Repos : BegunInTime(P, x, check[x])'
  BY <1>2, <1>3, <1>4 DEF BegunInTime
<1>6. FullWaves(P, check)'
  <2> SUFFICES ASSUME NEW x \in P.Repos, check'[x].at = "waiting", NEW j \in Nat, j * P.RepoTimeout < now
               PROVE  Cardinality(StartedBy(P, check', j * P.RepoTimeout)) >= (j + 1) * P.Concurrency
    BY DEF FullWaves
  <2>1. check[x].at = "waiting"
    BY <1>2
  <2>2. Cardinality(StartedBy(P, check, j * P.RepoTimeout)) >= (j + 1) * P.Concurrency
    BY <2>1 DEF WaveInv, FullWaves
  <2>3. j * P.RepoTimeout \in Nat /\ now \in Nat
    BY DoctorCounts DEF DoctorTypes
  <2>4. \A y \in P.Repos : check'[y].at # "waiting" /\ check'[y].since <= j * P.RepoTimeout
                             <=> check[y].at # "waiting" /\ check[y].since <= j * P.RepoTimeout
    BY <1>2, <2>3
  <2>5. StartedBy(P, check', j * P.RepoTimeout) = StartedBy(P, check, j * P.RepoTimeout)
    BY <2>4 DEF StartedBy
  <2> QED BY <2>2, <2>5
<1>7. ResultInv(P)'
  <2>1. \A x, a : Says(x, a)' <=> Says(x, a')
    BY DEF Says, Fails
  <2> QED BY <1>2, <2>1 DEF ResultInv, Says, Fails
<1> QED BY <1>1, <1>3, <1>5, <1>6, <1>7 DEF WaveInv

LEMMA DoctorStarts ==
  ASSUME NEW P, Doctor(P)!DoctorAssumption, DoctorTypes(P), WaveInv(P), ResultInv(P), NEW r \in P.Repos, Doctor(P)!StartCheck(r)
  PROVE  DoctorTypes(P)' /\ WaveInv(P)' /\ ResultInv(P)'
<1> DEFINE c == [at |-> "running", since |-> now]
<1>1. Doctor(P)!remote /\ check[r].at = "waiting" /\ UNCHANGED <<world, phase, now>>
  BY DEF Doctor!StartCheck
<1>2. now \in Nat /\ now <= LastWave(P)
  BY <1>1, WaitingIsEarly DEF DoctorTypes
<1>3. ~(now >= Doctor(P)!remoteCheckBudget)
  BY <1>2, BudgetLasts, DoctorCounts
<1>4. check' = [check EXCEPT ![r] = c]
  BY <1>3 DEF Doctor!StartCheck
<1>5. c \in CheckRecords /\ c.at = "running" /\ c.since = now
  BY <1>2 DEF CheckRecords
<1>6. world.repo[r] # "lost" => now <= now + Doctor(P)!Latency(r)
  BY <1>2, LatencyFits
<1> HIDE DEF c
<1>7. BegunInTime(P, r, c) /\ Says(r, c.at)
  BY <1>2, <1>5, <1>6 DEF BegunInTime, Says
<1> QED BY <1>1, <1>4, <1>5, <1>7, CheckMoves

\* The check of a repository ends with a result.
LEMMA CheckEnds ==
  ASSUME NEW P, Doctor(P)!DoctorAssumption, DoctorTypes(P), WaveInv(P), ResultInv(P), Doctor(P)!remote,
         NEW r \in P.Repos, check[r].at = "running", NEW a \in {"ok", "no", "failed"}, Says(r, a),
         check' = [check EXCEPT ![r].at = a], UNCHANGED <<world, phase, now>>
  PROVE  DoctorTypes(P)' /\ WaveInv(P)' /\ ResultInv(P)'
<1> DEFINE c == [check[r] EXCEPT !.at = a]
<1>1. c \in CheckRecords /\ c.at = a /\ c.since = check[r].since
  BY DEF CheckRecords, DoctorTypes
<1>2. check' = [check EXCEPT ![r] = c]
  BY DEF DoctorTypes
<1>3. BegunInTime(P, r, check[r])
  BY DEF WaveInv
<1> HIDE DEF c
<1>4. BegunInTime(P, r, c)
  BY <1>1, <1>3 DEF BegunInTime
<1> QED BY <1>1, <1>2, <1>4, CheckMoves

LEMMA DoctorAnswered ==
  ASSUME NEW P, Doctor(P)!DoctorAssumption, DoctorTypes(P), WaveInv(P), ResultInv(P), NEW r \in P.Repos, Doctor(P)!Answer(r)
  PROVE  DoctorTypes(P)' /\ WaveInv(P)' /\ ResultInv(P)'
<1>1. Doctor(P)!remote /\ check[r].at = "running" /\ world.repo[r] # "lost" /\ UNCHANGED <<world, phase, now>>
  BY DEF Doctor!Answer, Doctor!Answered
<1>2. PICK a : a = Doctor(P)!Result(r)
  OBVIOUS
<1>3. check' = [check EXCEPT ![r].at = a]
  BY <1>2 DEF Doctor!Answer
<1>4. phase \in {"checkActionsEnabled", "warnNoSelfHostedWorkflows"}
  BY <1>1 DEF Doctor!remote
<1>5. a \in {"ok", "no", "failed"} /\ Says(r, a)
  BY <1>1, <1>2, <1>4 DEF Doctor!Result, Doctor!actionsEnabled, Doctor!workflowsScanned, Says, Fails
<1> QED BY <1>1, <1>3, <1>5, CheckEnds

LEMMA DoctorExpires ==
  ASSUME NEW P, Doctor(P)!DoctorAssumption, DoctorTypes(P), WaveInv(P), ResultInv(P), NEW r \in P.Repos, Doctor(P)!Expire(r)
  PROVE  DoctorTypes(P)' /\ WaveInv(P)' /\ ResultInv(P)'
<1>1. /\ Doctor(P)!remote /\ check[r].at = "running" /\ UNCHANGED <<world, phase, now>>
      /\ check' = [check EXCEPT ![r].at = "failed"] /\ Doctor(P)!DeadlinePassed(r)
  BY DEF Doctor!Expire
<1>2. world.repo[r] = "lost"
  BY <1>1, AnswersComeFirst
<1>3. Says(r, "failed")
  BY <1>2 DEF Says, Fails
<1> QED BY <1>1, <1>3, CheckEnds

\* Time passes only when each slot is taken, by a check that is not due: the wave of this moment is full.
LEMMA WaveIsFull ==
  ASSUME NEW P, Doctor(P)!DoctorAssumption, DoctorTypes(P), WaveInv(P), Doctor(P)!Tick,
         NEW x \in P.Repos, check[x].at = "waiting", NEW j \in Nat, j * P.RepoTimeout = now
  PROVE  Cardinality(StartedBy(P, check, now)) >= (j + 1) * P.Concurrency
<1> DEFINE R == Doctor(P)!Running
           S == StartedBy(P, check, now)
<1>0. P.Concurrency \in Nat \ {0} /\ P.RepoTimeout \in Nat \ {0} /\ now \in Nat
  BY DoctorCounts DEF DoctorTypes
<1>1. Cardinality(R) = P.Concurrency
  BY DoctorCounts DEF Doctor!Tick
<1>2. R \subseteq S /\ S \subseteq P.Repos
  BY DEF Doctor!Running, StartedBy, WaveInv, BegunInTime, Doctor!Tick
<1>3. IsFiniteSet(S) /\ Cardinality(R) <= Cardinality(S) /\ Cardinality(S) \in Nat
  BY <1>2, DoctorCounts, FS_Subset
<1>4. CASE j = 0
  BY <1>0, <1>1, <1>3, <1>4
<1>5. CASE j # 0
  <2> DEFINE E == StartedBy(P, check, (j - 1) * P.RepoTimeout)
  <2>1. (j - 1) * P.RepoTimeout \in Nat /\ (j - 1) * P.RepoTimeout + P.RepoTimeout = now /\ (j - 1) * P.RepoTimeout < now
    BY <1>0, <1>5, NextWave
  <2>2. Cardinality(E) >= j * P.Concurrency
    <3>1. j - 1 \in Nat /\ (j - 1) + 1 = j
      BY <1>5
    <3>2. Cardinality(StartedBy(P, check, (j - 1) * P.RepoTimeout)) >= ((j - 1) + 1) * P.Concurrency
      BY <2>1, <3>1 DEF WaveInv, FullWaves, Doctor!Tick
    <3> QED BY <3>1, <3>2
  <2>3. E \cap R = {}
    <3> SUFFICES ASSUME NEW r \in P.Repos, check[r].at = "running", check[r].since <= (j - 1) * P.RepoTimeout
                 PROVE  FALSE
      BY DEF StartedBy, Doctor!Running
    <3>1. now >= check[r].since + P.RepoTimeout
      BY <1>0, <2>1 DEF DoctorTypes
    <3> QED BY <3>1 DEF Doctor!Tick, Doctor!DeadlinePassed
  <2>4. E \subseteq S
    BY <1>0, <2>1 DEF StartedBy, DoctorTypes
  <2>5. IsFiniteSet(E) /\ IsFiniteSet(R) /\ Cardinality(E) \in Nat /\ Cardinality(R) \in Nat
    BY <1>2, <2>4, DoctorCounts
  <2>6. Cardinality(E \cup R) = Cardinality(E) + Cardinality(R)
    <3>1. Cardinality(E \cup R) = Cardinality(E) + Cardinality(R) - Cardinality(E \cap R)
      BY <2>5, FS_Union
    <3>2. Cardinality(E \cap R) = 0
      BY <2>3, FS_EmptySet
    <3> HIDE DEF E, R
    <3> QED BY <2>5, <3>1, <3>2
  <2>7. Cardinality(E \cup R) <= Cardinality(S) /\ Cardinality(E \cup R) \in Nat
    BY <1>2, <1>3, <2>4, FS_Subset, FS_CardinalityType
  <2>8. (j + 1) * P.Concurrency = j * P.Concurrency + P.Concurrency /\ j * P.Concurrency \in Nat
    BY <1>0
  <2> HIDE DEF E, R
  <2>9. Cardinality(S) >= j * P.Concurrency + P.Concurrency
    BY <1>0, <1>1, <1>3, <2>2, <2>5, <2>6, <2>7, <2>8
  <2> QED BY <2>8, <2>9
<1> QED BY <1>4, <1>5

LEMMA DoctorTicks ==
  ASSUME NEW P, Doctor(P)!DoctorAssumption, DoctorTypes(P), WaveInv(P), ResultInv(P), Doctor(P)!Tick
  PROVE  DoctorTypes(P)' /\ WaveInv(P)' /\ ResultInv(P)'
<1>1. Doctor(P)!remote /\ now' = now + 1 /\ UNCHANGED <<world, phase, check>>
  BY DEF Doctor!Tick
<1>2. now \in Nat /\ DoctorTypes(P)'
  BY <1>1 DEF DoctorTypes, WorldTyped
<1>3. Doctor(P)!remote' /\ (\A x : Doctor(P)!Latency(x)' = Doctor(P)!Latency(x))
  BY <1>1 DEF Doctor!remote, Doctor!Latency
<1>4. ASSUME NEW r \in P.Repos PROVE BegunInTime(P, r, check[r])'
  <2>1. BegunInTime(P, r, check[r]) /\ check[r].since \in Nat
    BY <1>1 DEF WaveInv, DoctorTypes
  <2>2. check[r].at = "running" /\ world.repo[r] # "lost" => now < check[r].since + Doctor(P)!Latency(r)
    <3> SUFFICES ASSUME check[r].at = "running", world.repo[r] # "lost"
                 PROVE  now < check[r].since + Doctor(P)!Latency(r)
      OBVIOUS
    <3>1. ~(now >= check[r].since + Doctor(P)!Latency(r))
      BY DEF Doctor!Tick, Doctor!Answered
    <3> QED BY <1>2, <2>1, <3>1, LatencyFits
  <2>3. world.repo[r] # "lost" => Doctor(P)!Latency(r) \in Nat
    BY LatencyFits
  <2> QED BY <1>1, <1>2, <1>3, <2>1, <2>2, <2>3 DEF BegunInTime
<1>5. FullWaves(P, check)'
  <2> SUFFICES ASSUME NEW x \in P.Repos, check[x].at = "waiting", NEW j \in Nat, j * P.RepoTimeout < now + 1
               PROVE  Cardinality(StartedBy(P, check, j * P.RepoTimeout)) >= (j + 1) * P.Concurrency
    BY <1>1 DEF FullWaves
  <2>1. j * P.RepoTimeout \in Nat
    BY DoctorCounts
  <2>2. CASE j * P.RepoTimeout = now
    BY <2>2, WaveIsFull
  <2>3. CASE j * P.RepoTimeout < now
    BY <1>1, <2>3 DEF WaveInv, FullWaves
  <2> QED BY <1>2, <2>1, <2>2, <2>3
<1>6. ResultInv(P)'
  BY <1>1 DEF ResultInv, Says, Fails
<1> QED BY <1>2, <1>3, <1>4, <1>5, <1>6 DEF WaveInv

\* What a phase is about: nothing is checked, and every repository waits when it begins.
LEMMA DoctorResets ==
  ASSUME NEW P, Doctor(P)!DoctorAssumption, DoctorTypes(P), now' = 0, check' = [r \in P.Repos |-> Doctor(P)!Idle], UNCHANGED world
  PROVE  DoctorTypes(P)' /\ WaveInv(P)' /\ ResultInv(P)'
<1>1. Doctor(P)!Idle \in CheckRecords /\ Doctor(P)!Idle.at = "waiting"
  BY DEF Doctor!Idle, CheckRecords
<1>2. \A r \in P.Repos : check'[r].at = "waiting"
  BY <1>1
<1>3. DoctorTypes(P)'
  BY <1>1 DEF DoctorTypes, WorldTyped, CheckRecords
<1>4. \A r \in P.Repos : BegunInTime(P, r, check[r])'
  BY <1>2 DEF BegunInTime
<1>5. FullWaves(P, check)'
  <2>1. \A j \in Nat : ~(j * P.RepoTimeout < 0)
    BY DoctorCounts
  <2> QED BY <2>1 DEF FullWaves
<1>6. ResultInv(P)'
  BY <1>2 DEF ResultInv, Says
<1> QED BY <1>2, <1>3, <1>4, <1>5, <1>6 DEF WaveInv

LEMMA PhaseNames ==
  ASSUME NEW P
  PROVE  /\ Doctor(P)!Phases[1] = "checkRunnerAccess" /\ Doctor(P)!Phases[2] = "checkActionsEnabled"
         /\ Doctor(P)!Phases[3] = "warnNoSelfHostedWorkflows"
         /\ {Doctor(P)!Phases[i] : i \in 1..3} = {"checkRunnerAccess", "checkActionsEnabled", "warnNoSelfHostedWorkflows"}
<1>1. /\ Doctor(P)!Phases[1] = "checkRunnerAccess" /\ Doctor(P)!Phases[2] = "checkActionsEnabled"
      /\ Doctor(P)!Phases[3] = "warnNoSelfHostedWorkflows"
  BY DEF Doctor!Phases
<1>2. 1..3 = {1, 2, 3}
  OBVIOUS
<1> QED BY <1>1, <1>2

-----------------------------------------------------------------------------
(* The verdict: what was found is remembered from phase to phase. *)

\* The pools that make the pings slow, and what a set of pools that are well takes.
Slow(S) == {p \in S : world.daemon[p] = "slow"}
PingsTake(P, S) == P.PingTime * Cardinality(Slow(S))
PoolsAreWell(P, S) == (\A p \in S : Doctor(P)!Healthy(p)) /\ PingsTake(P, S) < P.PoolTimeout

NoPoolFails(P) == Doctor(P)!serviceOK /\ PoolsAreWell(P, P.PoolNames)
NoneStarves(P) == NoPoolFails(P) /\ ~Doctor(P)!starvedRepos
AccessFits(P) == NoneStarves(P) /\ world.access
ActionsRun(P) == AccessFits(P) /\ (world.scope = "repos" => \A r \in P.Repos : world.repo[r] \notin {"lost", "off"})
AllIsWell(P) ==
  /\ ActionsRun(P)
  /\ world.scope = "repos" =>
       \A r \in P.Repos : world.repo[r] # "lost" /\ ~(world.repo[r] = "forbidden" /\ ~world.sharedApp)

VerdictInv(P) ==
  /\ phase = "service" => allOK /\ pinged = {} /\ now = 0
  /\ phase = "pools" =>
       /\ pinged \subseteq P.PoolNames /\ (allOK <=> Doctor(P)!serviceOK /\ PoolsAreWell(P, pinged))
       /\ (\A p \in pinged : Doctor(P)!Healthy(p)) =>
            now = IF PingsTake(P, pinged) < P.PoolTimeout THEN PingsTake(P, pinged) ELSE P.PoolTimeout
       /\ (\A p \in pinged : world.daemon[p] = "up") => now = 0
  /\ phase = "checkRunnerAccess" => (allOK <=> NoneStarves(P))
  /\ phase = "checkActionsEnabled" => (allOK <=> AccessFits(P))
  /\ phase = "warnNoSelfHostedWorkflows" => (allOK <=> ActionsRun(P))
  /\ phase = "done" => (allOK <=> AllIsWell(P))

\* The world stays as it is, so what is to be found does.
LEMMA WorldStays ==
  ASSUME NEW P, UNCHANGED world
  PROVE  /\ Doctor(P)!serviceOK' = Doctor(P)!serviceOK /\ NoneStarves(P)' = NoneStarves(P) /\ AccessFits(P)' = AccessFits(P)
         /\ ActionsRun(P)' = ActionsRun(P) /\ AllIsWell(P)' = AllIsWell(P)
         /\ \A p : Doctor(P)!Healthy(p)' = Doctor(P)!Healthy(p)
BY DEF Doctor!serviceOK, Doctor!starvedRepos, NoPoolFails, NoneStarves, AccessFits, ActionsRun, AllIsWell, Doctor!Cardinality,
   Doctor!IsFiniteSet, PoolsAreWell, PingsTake, Slow, Doctor!Healthy

\* One pool more.
LEMMA PingsAdd ==
  ASSUME NEW P, Doctor(P)!DoctorAssumption, NEW S \in SUBSET P.PoolNames
  PROVE  /\ PingsTake(P, S) \in Nat /\ (Slow(S) = {} => PingsTake(P, S) = 0)
         /\ \A q \in P.PoolNames \ S :
              PingsTake(P, S \cup {q}) = PingsTake(P, S) + (IF world.daemon[q] = "slow" THEN P.PingTime ELSE 0)
<1>1. P.PingTime \in Nat /\ IsFiniteSet(P.PoolNames)
  <2>1. P.PoolTimeout \in Nat /\ P.PingTime \in 1..P.PoolTimeout - 1
    BY DEF Doctor!DoctorAssumption
  <2>2. IsFiniteSet(P.PoolNames)
    BY DEF Doctor!DoctorAssumption, Doctor!IsFiniteSet, IsFiniteSet
  <2> QED BY <2>1, <2>2
<1>2. PICK L : L = Slow(S)
  OBVIOUS
<1>3. IsFiniteSet(L) /\ Cardinality(L) \in Nat
  <2>1. L \in SUBSET P.PoolNames
    BY <1>2 DEF Slow
  <2> QED BY <1>1, <2>1, FS_Subset, FS_CardinalityType
<1>4. PICK n \in Nat : n = Cardinality(L)
  BY <1>3
<1>5. PingsTake(P, S) = P.PingTime * n /\ (L = {} => n = 0)
  BY <1>2, <1>4, FS_EmptySet DEF PingsTake
<1>6. ASSUME NEW q \in P.PoolNames \ S
      PROVE  PingsTake(P, S \cup {q}) = PingsTake(P, S) + (IF world.daemon[q] = "slow" THEN P.PingTime ELSE 0)
  <2>1. CASE world.daemon[q] = "slow"
    <3>1. Slow(S \cup {q}) = L \cup {q} /\ q \notin L
      BY <1>2, <2>1 DEF Slow
    <3>2. Cardinality(L \cup {q}) = n + 1
      BY <1>3, <1>4, <3>1, FS_AddElement
    <3>3. P.PingTime * (n + 1) = P.PingTime * n + P.PingTime
      BY <1>1
    <3> QED BY <1>5, <2>1, <3>1, <3>2, <3>3 DEF PingsTake
  <2>2. CASE world.daemon[q] # "slow"
    <3>1. Slow(S \cup {q}) = L
      BY <1>2, <2>2 DEF Slow
    <3>2. P.PingTime * n \in Nat
      BY <1>1
    <3> QED BY <1>4, <1>5, <2>2, <3>1, <3>2 DEF PingsTake
  <2> QED BY <2>1, <2>2
<1>7. P.PingTime * n \in Nat /\ (n = 0 => P.PingTime * n = 0)
  BY <1>1
<1> QED BY <1>2, <1>5, <1>6, <1>7

LEMMA VerdictStays ==
  ASSUME NEW P, VerdictInv(P), UNCHANGED <<world, phase, allOK, pinged>>, phase = "pools" \/ phase = "service" => now' = now
  PROVE  VerdictInv(P)'
<1>1. CASE phase \in {"service", "pools"}
  BY <1>1, WorldStays DEF VerdictInv, PoolsAreWell, PingsTake, Slow
<1>2. CASE phase \notin {"service", "pools"}
  BY <1>2, WorldStays DEF VerdictInv
<1> QED BY <1>1, <1>2

LEMMA VerdictService ==
  ASSUME NEW P, Doctor(P)!DoctorAssumption, VerdictInv(P), Doctor(P)!CheckService
  PROVE  VerdictInv(P)'
<1>1. phase' = "pools" /\ UNCHANGED <<world, now, pinged>> /\ phase = "service"
  BY DEF Doctor!CheckService
<1>2. allOK /\ pinged = {} /\ now = 0
  BY <1>1 DEF VerdictInv
<1>3. PingsTake(P, {}) = 0 /\ 0 < P.PoolTimeout
  BY PingsAdd, DoctorCounts DEF Slow
<1>4. allOK' <=> Doctor(P)!serviceOK
  BY <1>2 DEF Doctor!CheckService
<1>5. pinged' = {} /\ now' = 0 /\ PingsTake(P, pinged)' = 0
  BY <1>1, <1>2, <1>3 DEF PingsTake, Slow
<1> QED BY <1>1, <1>3, <1>4, <1>5, WorldStays DEF VerdictInv, PoolsAreWell

LEMMA VerdictPool ==
  ASSUME NEW P, Doctor(P)!DoctorAssumption, DoctorTypes(P), VerdictInv(P), NEW q \in P.PoolNames, Doctor(P)!CheckPool(q)
  PROVE  VerdictInv(P)' /\ (Doctor(P)!Healthy(q) /\ ~(now' < P.PoolTimeout) => \E p \in pinged : world.daemon[p] # "up")
<1>1. phase = "pools" /\ phase' = "pools" /\ UNCHANGED world /\ q \notin pinged /\ pinged' = pinged \cup {q}
  BY DEF Doctor!CheckPool
<1>2. /\ pinged \subseteq P.PoolNames /\ (allOK <=> Doctor(P)!serviceOK /\ PoolsAreWell(P, pinged))
      /\ (\A p \in pinged : Doctor(P)!Healthy(p)) =>
           now = IF PingsTake(P, pinged) < P.PoolTimeout THEN PingsTake(P, pinged) ELSE P.PoolTimeout
      /\ (\A p \in pinged : world.daemon[p] = "up") => now = 0
  BY <1>1 DEF VerdictInv
<1>3. PICK S \in SUBSET P.PoolNames : S = pinged
  BY <1>2
<1>4. PICK T \in SUBSET P.PoolNames : T = S \cup {q}
  OBVIOUS
<1>5. PICK n \in Nat : n = PingsTake(P, S)
  BY PingsAdd
<1>6. PICK m \in Nat : m = PingsTake(P, T)
  BY PingsAdd
<1>7. m = n + (IF world.daemon[q] = "slow" THEN P.PingTime ELSE 0)
  <2>1. q \in P.PoolNames \ S
    BY <1>1, <1>3
  <2> QED BY <1>4, <1>5, <1>6, <2>1, PingsAdd
<1>8. PingsTake(P, pinged)' = m
  BY <1>1, <1>3, <1>4, <1>6 DEF PingsTake, Slow
<1>9. PICK t \in Doctor(P)!Takes(q) : now' = IF now + t < P.PoolTimeout THEN now + t ELSE P.PoolTimeout
  BY DEF Doctor!CheckPool
<1>10. /\ P.PoolTimeout \in Nat \ {0} /\ P.PingTime \in Nat /\ 0 < P.PingTime /\ P.PingTime < P.PoolTimeout /\ now \in Nat
  BY DEF Doctor!DoctorAssumption, DoctorTypes
<1>11. Doctor(P)!Healthy(q) => t = (IF world.daemon[q] = "slow" THEN P.PingTime ELSE 0)
  BY <1>9 DEF Doctor!Healthy, Doctor!Takes
<1>12. ASSUME \A p \in pinged' : Doctor(P)!Healthy(p)
       PROVE  now' = IF m < P.PoolTimeout THEN m ELSE P.PoolTimeout
  <2>1. Doctor(P)!Healthy(q) /\ \A p \in pinged : Doctor(P)!Healthy(p)
    BY <1>1, <1>12
  <2>2. m = n + t /\ t \in Nat
    BY <1>7, <1>10, <1>11, <2>1
  <2>3. now = IF n < P.PoolTimeout THEN n ELSE P.PoolTimeout
    BY <1>2, <1>3, <1>5, <2>1
  <2> QED BY <1>9, <1>10, <2>2, <2>3
<1>13. allOK' <=> allOK /\ Doctor(P)!Healthy(q) /\ now' < P.PoolTimeout
  BY DEF Doctor!CheckPool
<1>14. allOK' <=> Doctor(P)!serviceOK /\ (\A p \in pinged' : Doctor(P)!Healthy(p)) /\ m < P.PoolTimeout
  <2>1. CASE \A p \in pinged' : Doctor(P)!Healthy(p)
    <3>1. Doctor(P)!Healthy(q) /\ (\A p \in pinged : Doctor(P)!Healthy(p)) /\ n <= m
      BY <1>1, <1>7, <1>10, <2>1
    <3>2. now' < P.PoolTimeout <=> m < P.PoolTimeout
      BY <1>10, <1>12, <2>1
    <3>3. m < P.PoolTimeout => n < P.PoolTimeout
      BY <1>10, <3>1
    <3>4. allOK <=> Doctor(P)!serviceOK /\ n < P.PoolTimeout
      BY <1>2, <1>3, <1>5, <3>1 DEF PoolsAreWell
    <3> QED BY <1>13, <2>1, <3>1, <3>2, <3>3, <3>4
  <2>2. CASE ~\A p \in pinged' : Doctor(P)!Healthy(p)
    <3>1. allOK => \A p \in pinged : Doctor(P)!Healthy(p)
      BY <1>2 DEF PoolsAreWell
    <3> QED BY <1>1, <1>13, <2>2, <3>1
  <2> QED BY <2>1, <2>2
<1>15. (\A p \in pinged' : world.daemon[p] = "up") => now' = 0
  <2> SUFFICES ASSUME \A p \in pinged' : world.daemon[p] = "up" PROVE now' = 0
    OBVIOUS
  <2>1. world.daemon[q] = "up" /\ now = 0
    BY <1>1, <1>2
  <2>2. t = 0
    BY <1>9, <2>1 DEF Doctor!Takes
  <2> QED BY <1>9, <1>10, <2>1, <2>2
<1>16. Doctor(P)!Healthy(q) /\ ~(now' < P.PoolTimeout) => \E p \in pinged : world.daemon[p] # "up"
  <2> SUFFICES ASSUME Doctor(P)!Healthy(q), \A p \in pinged : world.daemon[p] = "up" PROVE now' < P.PoolTimeout
    OBVIOUS
  <2> QED BY <1>2, <1>9, <1>10, <1>11
<1>17. pinged' \subseteq P.PoolNames
  BY <1>1, <1>2
<1> QED BY <1>1, <1>8, <1>12, <1>14, <1>15, <1>16, <1>17, WorldStays DEF VerdictInv, PoolsAreWell

\* Who is blamed: as BlameIsFair says, and no one whose pool was not looked at.
BlameInv(P) == Doctor(P)!BlameIsFair /\ blamed \subseteq P.PoolNames
LEMMA BlameStays == ASSUME NEW P, BlameInv(P), UNCHANGED <<world, blamed>> PROVE BlameInv(P)'
BY WorldStays DEF BlameInv, Doctor!BlameIsFair
LEMMA BlamePool ==
  ASSUME NEW P, Doctor(P)!DoctorAssumption, DoctorTypes(P), VerdictInv(P), BlameInv(P), NEW q \in P.PoolNames, Doctor(P)!CheckPool(q)
  PROVE  BlameInv(P)'
<1>1. UNCHANGED world /\ q \notin pinged /\ pinged \subseteq P.PoolNames
  BY DEF Doctor!CheckPool, VerdictInv
<1>2. CASE Doctor(P)!Healthy(q) /\ now' < P.PoolTimeout
  BY <1>1, <1>2, BlameStays DEF Doctor!CheckPool
<1>3. CASE ~(Doctor(P)!Healthy(q) /\ now' < P.PoolTimeout)
  <2>1. blamed' = blamed \cup {q}
    BY <1>3 DEF Doctor!CheckPool
  <2>2. Doctor(P)!Healthy(q) => \E p \in P.PoolNames \ {q} : world.daemon[p] # "up"
    BY <1>1, <1>3, VerdictPool
  <2> QED BY <1>1, <2>1, <2>2, WorldStays DEF BlameInv, Doctor!BlameIsFair
<1> QED BY <1>2, <1>3

LEMMA VerdictPools ==
  ASSUME NEW P, VerdictInv(P), Doctor(P)!PoolsChecked
  PROVE  VerdictInv(P)'
<1>1. phase = "pools" /\ pinged = P.PoolNames /\ phase' = "checkRunnerAccess" /\ UNCHANGED world
  BY PhaseNames DEF Doctor!PoolsChecked
<1>2. allOK <=> NoPoolFails(P)
  BY <1>1 DEF VerdictInv, NoPoolFails
<1>3. allOK' <=> NoneStarves(P)
  BY <1>2 DEF Doctor!PoolsChecked, NoneStarves
<1> QED BY <1>1, <1>3, WorldStays DEF VerdictInv

\* A remote phase is over when each repository has a result, and each result is right.
LEMMA RemotePhaseOK ==
  ASSUME NEW P, DoctorTypes(P), ResultInv(P), Doctor(P)!remote, \A r \in P.Repos : Doctor(P)!Over(r)
  PROVE  Doctor(P)!phaseOK <=> \A r \in P.Repos : ~Fails(r) /\ ~(phase = "checkActionsEnabled" /\ world.repo[r] = "off")
<1>1. phase # "checkRunnerAccess"
  BY DEF Doctor!remote
<1>2. Doctor(P)!phaseOK <=> \A r \in P.Repos : check[r].at = "ok"
  BY <1>1 DEF Doctor!phaseOK
<1>3. ASSUME NEW r \in P.Repos
      PROVE  check[r].at = "ok" <=> ~Fails(r) /\ ~(phase = "checkActionsEnabled" /\ world.repo[r] = "off")
  <2>1. check[r].at \in {"ok", "no", "failed"}
    BY DEF Doctor!Over
  <2>2. Says(r, check[r].at)
    BY DEF ResultInv
  <2> QED BY <2>1, <2>2 DEF Says
<1> QED BY <1>2, <1>3

LEMMA VerdictPhase ==
  ASSUME NEW P, DoctorTypes(P), ResultInv(P), VerdictInv(P), Doctor(P)!PhaseEnds
  PROVE  VerdictInv(P)'
<1>1. /\ phase \in {"checkRunnerAccess", "checkActionsEnabled", "warnNoSelfHostedWorkflows"}
      /\ UNCHANGED world /\ (Doctor(P)!remote => \A r \in P.Repos : Doctor(P)!Over(r))
  BY PhaseNames DEF Doctor!PhaseEnds
<1>2. allOK' <=> allOK /\ Doctor(P)!phaseOK
  BY DEF Doctor!PhaseEnds
<1>3. CASE phase = "checkRunnerAccess"
  <2>1. phase' = "checkActionsEnabled"
    BY <1>3, PhaseNames DEF Doctor!PhaseEnds
  <2>2. Doctor(P)!phaseOK <=> world.access
    BY <1>3 DEF Doctor!phaseOK
  <2>3. allOK <=> NoneStarves(P)
    BY <1>3 DEF VerdictInv
  <2>4. allOK' <=> AccessFits(P)
    BY <1>2, <2>2, <2>3 DEF AccessFits
  <2> QED BY <1>1, <2>1, <2>4, WorldStays DEF VerdictInv
<1>4. CASE phase = "checkActionsEnabled"
  <2>1. phase' = "warnNoSelfHostedWorkflows"
    BY <1>4, PhaseNames DEF Doctor!PhaseEnds
  <2>2. Doctor(P)!phaseOK <=> (world.scope = "repos" => \A r \in P.Repos : world.repo[r] \notin {"lost", "off"})
    <3>1. CASE world.scope = "repos"
      <4>1. Doctor(P)!remote
        BY <1>4, <3>1 DEF Doctor!remote
      <4> QED BY <1>1, <1>4, <3>1, <4>1, RemotePhaseOK DEF Fails
    <3>2. CASE world.scope # "repos"
      BY <1>4, <3>2 DEF Doctor!remote, Doctor!phaseOK
    <3> QED BY <3>1, <3>2
  <2>3. allOK <=> AccessFits(P)
    BY <1>4 DEF VerdictInv
  <2>4. allOK' <=> ActionsRun(P)
    BY <1>2, <2>2, <2>3 DEF ActionsRun
  <2> QED BY <1>1, <2>1, <2>4, WorldStays DEF VerdictInv
<1>5. CASE phase = "warnNoSelfHostedWorkflows"
  <2>1. phase' = "done"
    BY <1>5, PhaseNames DEF Doctor!PhaseEnds
  <2>2. Doctor(P)!phaseOK <=> (world.scope = "repos" =>
          \A r \in P.Repos : world.repo[r] # "lost" /\ ~(world.repo[r] = "forbidden" /\ ~world.sharedApp))
    <3>1. CASE world.scope = "repos"
      <4>1. Doctor(P)!remote
        BY <1>5, <3>1 DEF Doctor!remote
      <4> QED BY <1>1, <1>5, <3>1, <4>1, RemotePhaseOK DEF Fails
    <3>2. CASE world.scope # "repos"
      BY <1>5, <3>2 DEF Doctor!remote, Doctor!phaseOK
    <3> QED BY <3>1, <3>2
  <2>3. allOK <=> ActionsRun(P)
    BY <1>5 DEF VerdictInv
  <2>4. allOK' <=> AllIsWell(P)
    BY <1>2, <2>2, <2>3 DEF AllIsWell
  <2> QED BY <1>1, <2>1, <2>4, WorldStays DEF VerdictInv
<1> QED BY <1>1, <1>3, <1>4, <1>5

DoctorInv(P) == DoctorTypes(P) /\ WaveInv(P) /\ ResultInv(P) /\ VerdictInv(P) /\ BlameInv(P)

\* Before the remote phases no check is begun.
LEMMA DoctorLocal ==
  ASSUME NEW P, Doctor(P)!DoctorAssumption, DoctorTypes(P), WaveInv(P),
         phase \in {"service", "pools"}, phase' \in {"pools", "checkRunnerAccess"}, UNCHANGED <<world, check>>, now' \in Nat
  PROVE  DoctorTypes(P)' /\ WaveInv(P)' /\ ResultInv(P)'
<1>1. ~Doctor(P)!remote /\ ~Doctor(P)!remote'
  BY DEF Doctor!remote
<1>2. \A r \in P.Repos : check'[r].at = "waiting"
  BY <1>1 DEF WaveInv
<1>3. DoctorTypes(P)'
  BY DEF DoctorTypes, WorldTyped
<1> QED BY <1>1, <1>2, <1>3 DEF WaveInv, ResultInv, Says

LEMMA DoctorInitial ==
  ASSUME NEW P, Doctor(P)!DoctorAssumption, Doctor(P)!Init
  PROVE  DoctorInv(P)
<1>1. /\ phase = "service" /\ now = 0 /\ allOK = TRUE /\ pinged = {} /\ blamed = {} /\ check = [r \in P.Repos |-> Doctor(P)!Idle]
  BY DEF Doctor!Init
<1>2. world.repo \in [P.Repos -> P.Answers] /\ world.size \in [P.PoolNames -> {1, Cardinality(P.Repos)}]
  BY DoctorCounts DEF Doctor!Init
<1>3. WorldTyped(P)
  <2>1. P.Answers \subseteq {"fine", "late", "lost", "off", "forbidden"} /\ Cardinality(P.Repos) \in Nat
    BY DoctorCounts DEF Doctor!DoctorAssumption
  <2>2. \A r \in P.Repos : world.repo[r] \in {"fine", "late", "lost", "off", "forbidden"}
    <3>1. \A r \in P.Repos : world.repo[r] \in P.Answers
      BY <1>2
    <3> QED BY <2>1, <3>1
  <2>3. \A p \in P.PoolNames : world.size[p] \in {1, Cardinality(P.Repos)}
    BY <1>2
  <2>4. 1 \in Nat
    OBVIOUS
  <2> QED BY <2>1, <2>2, <2>3, <2>4 DEF WorldTyped
<1>4. Doctor(P)!Idle \in CheckRecords /\ Doctor(P)!Idle.at = "waiting"
  BY DEF Doctor!Idle, CheckRecords
<1>5. DoctorTypes(P) /\ \A r \in P.Repos : check[r].at = "waiting"
  BY <1>1, <1>3, <1>4 DEF DoctorTypes, CheckRecords
<1>6. ~Doctor(P)!remote
  BY <1>1 DEF Doctor!remote
<1>7. WaveInv(P) /\ ResultInv(P)
  BY <1>5, <1>6 DEF WaveInv, ResultInv, Says
<1>8. VerdictInv(P) /\ BlameInv(P)
  BY <1>1 DEF VerdictInv, BlameInv, Doctor!BlameIsFair
<1> QED BY <1>5, <1>7, <1>8 DEF DoctorInv

LEMMA DoctorStep ==
  ASSUME NEW P, Doctor(P)!DoctorAssumption, DoctorInv(P), [Doctor(P)!Next]_(Doctor(P)!vars)
  PROVE  DoctorInv(P)'
<1> USE DEF DoctorInv
<1>0. now \in Nat /\ P.PoolTimeout \in Nat
  BY DoctorCounts DEF DoctorTypes
<1>1. CASE Doctor(P)!CheckService
  <2>1. phase = "service" /\ phase' = "pools" /\ UNCHANGED <<world, check, now, blamed>>
    BY <1>1 DEF Doctor!CheckService
  <2>2. DoctorTypes(P)' /\ WaveInv(P)' /\ ResultInv(P)'
    BY <1>0, <2>1, DoctorLocal
  <2> QED BY <1>1, <2>1, <2>2, VerdictService, BlameStays
<1>2. ASSUME NEW p \in P.PoolNames, Doctor(P)!CheckPool(p) PROVE DoctorInv(P)'
  <2>1. phase = "pools" /\ phase' = "pools" /\ UNCHANGED <<world, check>> /\ now' \in Nat
    <3>1. Doctor(P)!Takes(p) \subseteq Nat
      BY DEF Doctor!Takes, Doctor!DoctorAssumption
    <3> QED BY <1>0, <1>2, <3>1 DEF Doctor!CheckPool
  <2>2. DoctorTypes(P)' /\ WaveInv(P)' /\ ResultInv(P)'
    BY <1>0, <2>1, DoctorLocal
  <2> QED BY <1>2, <2>2, VerdictPool, BlamePool
<1>3. CASE Doctor(P)!PoolsChecked
  <2>1. phase = "pools" /\ phase' = "checkRunnerAccess" /\ UNCHANGED <<world, check, blamed>> /\ now' = 0
    BY <1>3, PhaseNames DEF Doctor!PoolsChecked
  <2>2. DoctorTypes(P)' /\ WaveInv(P)' /\ ResultInv(P)'
    BY <2>1, DoctorLocal
  <2> QED BY <1>3, <2>1, <2>2, VerdictPools, BlameStays
<1>4. CASE Doctor(P)!RepoChecks
  <2>1. PICK r \in P.Repos : Doctor(P)!StartCheck(r) \/ Doctor(P)!Answer(r) \/ Doctor(P)!Expire(r)
    BY <1>4 DEF Doctor!RepoChecks
  <2>2. DoctorTypes(P)' /\ WaveInv(P)' /\ ResultInv(P)'
    BY <2>1, DoctorStarts, DoctorAnswered, DoctorExpires
  <2>3. UNCHANGED <<world, phase, now, allOK, pinged, blamed>>
    BY <2>1 DEF Doctor!StartCheck, Doctor!Answer, Doctor!Expire
  <2> QED BY <2>2, <2>3, VerdictStays, BlameStays
<1>5. CASE Doctor(P)!Tick
  <2>1. DoctorTypes(P)' /\ WaveInv(P)' /\ ResultInv(P)'
    BY <1>5, DoctorTicks
  <2>2. UNCHANGED <<world, phase, allOK, pinged, blamed>> /\ phase \notin {"service", "pools"}
    BY <1>5 DEF Doctor!Tick, Doctor!remote
  <2> QED BY <2>1, <2>2, VerdictStays, BlameStays
<1>6. CASE Doctor(P)!PhaseEnds
  <2>1. now' = 0 /\ check' = [r \in P.Repos |-> Doctor(P)!Idle] /\ UNCHANGED <<world, blamed>>
    BY <1>6 DEF Doctor!PhaseEnds
  <2>2. DoctorTypes(P)' /\ WaveInv(P)' /\ ResultInv(P)'
    BY <2>1, DoctorResets
  <2> QED BY <1>6, <2>1, <2>2, VerdictPhase, BlameStays
<1>7. CASE UNCHANGED Doctor(P)!vars
  <2>1. UNCHANGED <<world, phase, now, allOK, pinged, blamed, check>>
    BY <1>7 DEF Doctor!vars
  <2>2. VerdictInv(P)' /\ BlameInv(P)'
    BY <2>1, VerdictStays, BlameStays
  <2>3. DoctorTypes(P)' /\ ResultInv(P)'
    BY <2>1 DEF DoctorTypes, WorldTyped, ResultInv, Says, Fails
  <2>4. WaveInv(P)'
    BY <2>1 DEF WaveInv, BegunInTime, FullWaves, Doctor!remote, Doctor!Latency
  <2> QED BY <2>2, <2>3, <2>4
<1> QED BY <1>1, <1>2, <1>3, <1>4, <1>5, <1>6, <1>7 DEF Doctor!Next

LEMMA DoctorGoal ==
  ASSUME NEW P, Doctor(P)!DoctorAssumption
  PROVE  DoctorInv(P) => (Doctor(P)!VerdictIsSound /\ Doctor(P)!BlameIsFair /\ Doctor(P)!AnswersInTimeCount)
<1> SUFFICES ASSUME DoctorInv(P) PROVE Doctor(P)!VerdictIsSound /\ Doctor(P)!BlameIsFair /\ Doctor(P)!AnswersInTimeCount
  OBVIOUS
<1>1. Doctor(P)!AnswersInTimeCount
  BY PhaseNames DEF DoctorInv, ResultInv, Says, Fails, Doctor!AnswersInTimeCount
<1>2. Doctor(P)!starvedRepos <=> ~(world.scope = "repos" /\ ~world.autoscale =>
                                     \A p \in P.PoolNames : world.size[p] >= Doctor(P)!Cardinality(P.Repos))
  <2> DEFINE n == Doctor(P)!Cardinality(P.Repos)
  <2>1. n \in Nat
    BY DoctorCounts
  <2> HIDE DEF n
  <2>2. \A p \in P.PoolNames : ~(world.size[p] < n) <=> world.size[p] >= n
    BY <2>1 DEF DoctorInv, DoctorTypes, WorldTyped
  <2> QED BY <2>2 DEF Doctor!starvedRepos, n
<1>3. \A r \in P.Repos : /\ world.repo[r] \notin {"lost", "off"}
                         /\ world.repo[r] # "lost" /\ ~(world.repo[r] = "forbidden" /\ ~world.sharedApp)
        <=> world.repo[r] \in {"fine", "late"} \/ (world.repo[r] = "forbidden" /\ world.sharedApp)
  BY DEF DoctorInv, DoctorTypes, WorldTyped
<1>4. AllIsWell(P) <=>
        /\ Doctor(P)!serviceOK /\ \A p \in P.PoolNames : Doctor(P)!Healthy(p)
        /\ P.PingTime * Doctor(P)!Cardinality({p \in P.PoolNames : world.daemon[p] = "slow"}) < P.PoolTimeout
        /\ world.access
        /\ (world.scope = "repos" /\ ~world.autoscale => \A p \in P.PoolNames : world.size[p] >= Doctor(P)!Cardinality(P.Repos))
        /\ world.scope = "repos" => \A r \in P.Repos :
             world.repo[r] \in {"fine", "late"} \/ (world.repo[r] = "forbidden" /\ world.sharedApp)
  <2>1. PoolsAreWell(P, P.PoolNames) <=>
          /\ \A p \in P.PoolNames : Doctor(P)!Healthy(p)
          /\ P.PingTime * Doctor(P)!Cardinality({p \in P.PoolNames : world.daemon[p] = "slow"}) < P.PoolTimeout
    BY DoctorCounts DEF PoolsAreWell, PingsTake, Slow
  <2> QED BY <1>2, <1>3, <2>1 DEF AllIsWell, ActionsRun, AccessFits, NoneStarves, NoPoolFails
<1>5. phase = "done" => (allOK <=> AllIsWell(P))
  BY DEF DoctorInv, VerdictInv
<1>6. Doctor(P)!VerdictIsSound
  BY <1>4, <1>5 DEF Doctor!VerdictIsSound
<1> QED BY <1>1, <1>6 DEF DoctorInv, BlameInv

-----------------------------------------------------------------------------
(* The commands: the one at work keeps its invariant, and the others do not move. *)

ConfigsSound == \A i \in DOMAIN ConfigSetups : at = <<"config", i>> => ConfigInv(ConfigSetups[i])
DoctorsSound == \A i \in DOMAIN DoctorSetups : at = <<"doctor", i>> => DoctorInv(DoctorSetups[i])
LaunchesSound == \A i \in DOMAIN LaunchSetups : at = <<"launch", i>> => RequestInv(LaunchSetups[i])
PortsSound == \A i \in DOMAIN PortSetups : at = <<"ports", i>> => PortsInv(PortSetups[i])
LoginsSound == \A i \in DOMAIN LoginSetups : at = <<"login", i>> => LoginInv(LoginSetups[i])
AppsSound == \A i \in DOMAIN AppSetups : at = <<"app", i>> => OwnInv(AppSetups[i])
SetupInv == ConfigsSound /\ DoctorsSound /\ LaunchesSound /\ PortsSound /\ LoginsSound /\ AppsSound

\* Who moves: a step is one of the command at work, under its setup.
Stays == at' = at
LEMMA OneMoves ==
  ASSUME [Next]_vars
  PROVE  /\ Stays
         /\ \A i \in DOMAIN ConfigSetups :
              at = <<"config", i>> => [Config(ConfigSetups[i])!Load]_(Config(ConfigSetups[i])!vars)
         /\ \A i \in DOMAIN DoctorSetups :
              at = <<"doctor", i>> => [Doctor(DoctorSetups[i])!Next]_(Doctor(DoctorSetups[i])!vars)
         /\ \A i \in DOMAIN LaunchSetups :
              at = <<"launch", i>> => [Request(LaunchSetups[i])!Next]_(Request(LaunchSetups[i])!vars)
         /\ \A i \in DOMAIN PortSetups :
              at = <<"ports", i>> => [Bake(PortSetups[i])!Next]_(Bake(PortSetups[i])!vars)
         /\ \A i \in DOMAIN LoginSetups :
              at = <<"login", i>> => [Login(LoginSetups[i])!Next]_(Login(LoginSetups[i])!vars)
         /\ \A i \in DOMAIN AppSetups :
              at = <<"app", i>> => [Own(AppSetups[i])!Next]_(Own(AppSetups[i])!vars)
<1>1. CASE UNCHANGED vars
  <2>1. UNCHANGED <<at, shared, configOwn, doctorOwn, launchOwn, portsOwn, loginOwn, appOwn>>
    BY <1>1 DEF vars
  <2>2. \A P : UNCHANGED Config(P)!vars /\ UNCHANGED Doctor(P)!vars
    BY <2>1 DEF shared, configOwn, doctorOwn, Config!vars, Doctor!vars
  <2>3. \A P : UNCHANGED Request(P)!vars /\ UNCHANGED Bake(P)!vars
    BY <2>1 DEF launchOwn, portsOwn, Request!vars, Bake!vars
  <2>4. \A P : UNCHANGED Login(P)!vars /\ UNCHANGED Own(P)!vars
    BY <2>1 DEF shared, loginOwn, appOwn, Login!vars, Own!vars
  <2> QED BY <2>1, <2>2, <2>3, <2>4 DEF Stays
<1>2. CASE Next
  BY <1>2 DEF Next, Stays, notConfig, notDoctor, notLaunch, notPorts, notLogin, notApp
<1> QED BY <1>1, <1>2

LEMMA SetupInitial == ASSUME SetupAssumption, Init PROVE SetupInv
<1>1. ConfigsSound
  BY ConfigInitial DEF Init, SetupAssumption, ConfigsSound
<1>2. DoctorsSound
  BY DoctorInitial DEF Init, SetupAssumption, DoctorsSound
<1>3. LaunchesSound
  BY RequestInitial DEF Init, SetupAssumption, LaunchesSound
<1>4. PortsSound
  BY PortsInitial DEF Init, SetupAssumption, PortsSound
<1>5. LoginsSound
  BY LoginInitial DEF Init, SetupAssumption, LoginsSound
<1>6. AppsSound
  BY OwnInitial DEF Init, SetupAssumption, AppsSound
<1> QED BY <1>1, <1>2, <1>3, <1>4, <1>5, <1>6 DEF SetupInv

LEMMA SetupStep == ASSUME SetupAssumption, SetupInv, [Next]_vars PROVE SetupInv'
<1>0. Stays
  BY OneMoves
<1>1. ConfigsSound'
  BY <1>0, OneMoves, ConfigStep DEF SetupInv, SetupAssumption, ConfigsSound, Stays
<1>2. DoctorsSound'
  BY <1>0, OneMoves, DoctorStep DEF SetupInv, SetupAssumption, DoctorsSound, Stays
<1>3. LaunchesSound'
  BY <1>0, OneMoves, RequestStep DEF SetupInv, SetupAssumption, LaunchesSound, Stays
<1>4. PortsSound'
  BY <1>0, OneMoves, PortsStep DEF SetupInv, SetupAssumption, PortsSound, Stays
<1>5. LoginsSound'
  BY <1>0, OneMoves, LoginStep DEF SetupInv, SetupAssumption, LoginsSound, Stays
<1>6. AppsSound'
  BY <1>0, OneMoves, OwnStep DEF SetupInv, SetupAssumption, AppsSound, Stays
<1> QED BY <1>1, <1>2, <1>3, <1>4, <1>5, <1>6 DEF SetupInv

LEMMA SetupInvariance == ASSUME SetupAssumption PROVE Spec => []SetupInv
<1>1. Init => SetupInv
  BY SetupInitial
<1>2. SetupInv /\ [Next]_vars => SetupInv'
  BY SetupStep
<1> QED BY <1>1, <1>2, PTL DEF Spec

\* A configuration that loads can be run, whatever the file says: its clients differ, a credential
\* reaches them all, every bound pool has a client, no two runners share a workspace, limits survive
\* the conversion and images parse; and a file that names no scale set is not rejected for the names
\* (Load, Validate, applyDefaults).
THEOREM LoadedConfigsAreCoherent == ASSUME SetupAssumption PROVE Spec => []ConfigIsCoherent
<1>1. SetupInv => ConfigIsCoherent
  BY ConfigGoal DEF SetupInv, SetupAssumption, ConfigsSound, ConfigIsCoherent
<1> QED BY <1>1, SetupInvariance, PTL

\* For any number of pools, repositories and slots, any deadlines and any daemons: no check of a
\* repository that answers in time fails; a pool that is well is blamed only for what another one
\* took of the deadline the pings share; and the doctor passes exactly when there is nothing to
\* report and the pings fit into that deadline (doctor, runRepoChecks, remoteCheckBudget).
THEOREM DoctorIsRight == ASSUME SetupAssumption PROVE Spec => []VerdictIsSound
<1>1. SetupInv => VerdictIsSound
  BY DoctorGoal DEF SetupInv, SetupAssumption, DoctorsSound, VerdictIsSound
<1> QED BY <1>1, SetupInvariance, PTL

\* For every configured pool, owner and cache: what the configuration accepts no backend refuses for
\* its settings, the daemon gets the limits of memory, swap and CPUs and the DNS servers that were
\* meant, every cache URL can be reached but with containerd on a host without a gateway, and a
\* container is found by its own instance, target and pool only. And whoever takes ports meanwhile,
\* a bake that runs has a port of its own for each listener, but for a viewer on the port of QMP
\* (validateContainerConfig, launchConfigs, launchArgs, reconciliationLabels, prepareVNC).
THEOREM ConfiguredLaunchesFit == ASSUME SetupAssumption PROVE Spec => []LaunchesFit
<1>1. SetupInv => LaunchesFit
  BY RequestGoal, PortsGoal DEF SetupInv, SetupAssumption, LaunchesSound, PortsSound, LaunchesFit
<1> QED BY <1>1, SetupInvariance, PTL

\* Whatever fails, however often the command is interrupted, dies and is run again or the browser
\* comes back: a login that reports success configured the account it was asked for, on GitHub's own
\* host, with its own token saved unless a service put an older one back, and GitHub never asked
\* sooner than it allows; an App of one's own can do what the configuration asks of it; the
\* configuration names an App without its key only while a later run, or one that died or named its
\* App when it failed, has cut the key's file and not written the configuration; and a failure that
\* does not name the App has written nothing (PollDeviceToken, requireDotComTarget,
\* selectInstallation, WriteDeviceAuth, deriveNeeds, WriteSecretFile, runOwnAppConnect).
THEOREM ConnectionsAreUsable == ASSUME SetupAssumption PROVE Spec => []ConnectedIsUsable
<1>1. SetupInv => ConnectedIsUsable
  BY LoginGoal, OwnGoal DEF SetupInv, SetupAssumption, LoginsSound, AppsSound, ConnectedIsUsable
<1> QED BY <1>1, SetupInvariance, PTL
=============================================================================
