-------------------------------- MODULE OwnApp --------------------------------
(***************************************************************************)
(* `multirunner connect --own-app`: what the new App may do is derived     *)
(* from the configuration, a local server hands the manifest to the user's *)
(* browser, and two callbacks bring back the App's credentials and the ID  *)
(* of its installation, through channels of one place each.  The user can  *)
(* load a page twice, so more than one App may be created.  Then the key,  *)
(* the webhook's secret, the configuration and a starter pool are written, *)
(* the key over that of an earlier App.  The command may fail or die       *)
(* anywhere and be run again.                                              *)
(***************************************************************************)
EXTENDS Integers, FiniteSets

CONSTANTS
  Scope,         \* "org" or "repo"
  Provisionings, \* what the configuration may say: "" if it does not exist or says nothing
  Interactive,   \* the command runs on a terminal
  Detect,        \* --detect
  FixedPort,     \* --port: a later run has the address of an earlier one
  MaxApps,       \* bound: how often the user creates an App
  MaxRuns        \* bound: runs of the command

OwnAppAssumption ==
  /\ Scope \in {"org", "repo"} /\ {Interactive, Detect, FixedPort} \subseteq BOOLEAN
  /\ {MaxApps, MaxRuns} \subseteq Nat \ {0}
  /\ Provisionings \subseteq {"", "pool", "scaleset", "autoscale"}

VARIABLES
  run, before,        \* which run this is, and how many Apps there were when it began
  prov, flagURL,      \* the configuration's provisioning; --webhook-url was given
  st, declined,       \* where the command is; the user left the URL for later
  perms, events,      \* of the manifest
  apps, called,       \* the Apps GitHub created, and those whose callback was served
  credsCh, installCh, errCh, \* the channels: an App, an App's installation, an error; 0 is empty
  app, inst,          \* the credentials and the installation that Connect has
  key, conf,          \* whose key is in the file, 0 for no whole key, and what is configured
  torn,               \* the run that began to write a key and has not configured its App; or 0
  reported            \* the user has been told the identifiers of the App

vars == <<run, before, prov, flagURL, st, declined, perms, events, apps, called, credsCh, installCh, errCh,
          app, inst, key, conf, torn, reported>>
needs == <<run, before, prov, flagURL, declined, perms, events>>
browser == <<apps, called, credsCh, installCh, errCh>>
saved == <<key, conf, torn>>

Serving == {"creating", "installing"}
Working == Serving \cup {"needs", "key", "keying", "secret", "config", "pool"}

\* The Apps of this run, and those whose pages lead to its server.
Mine == {a \in apps : a > before}
Reach == IF FixedPort THEN apps ELSE Mine

Init ==
  /\ run = 1 /\ before = 0
  /\ prov \in Provisionings /\ flagURL \in BOOLEAN /\ st = "needs" /\ declined = FALSE
  /\ perms = {} /\ events = {} /\ apps = {} /\ called = {}
  /\ credsCh = 0 /\ installCh = 0 /\ errCh = 0 /\ app = 0 /\ inst = 0
  /\ key = 0 /\ conf = [app |-> 0, inst |-> 0] /\ torn = 0 /\ reported = FALSE

-----------------------------------------------------------------------------
(* What the App may do. *)

\* deriveNeeds: a repository's App may poll the queue also if nothing is known yet.
PollQueue == Scope = "repo" /\ prov \in {"", "autoscale"}

\* permissions and events of the manifest.
permissions(url) ==
  {"metadata", IF Scope = "repo" THEN "administration" ELSE "organization_self_hosted_runners"}
  \cup (IF PollQueue \/ url THEN {"actions"} ELSE {})
  \cup (IF Detect \/ Scope = "repo" THEN {"contents"} ELSE {})

Manifest(url) ==
  /\ st' = "creating" /\ perms' = permissions(url) /\ events' = IF url THEN {"workflow_job"} ELSE {}
  /\ UNCHANGED <<run, before, prov, flagURL, browser, app, inst, saved, reported>>

\* deriveNeeds: the flag, else the question on a terminal, which may be left for later, else
\* an organization that autoscales is refused.
DeriveNeeds ==
  /\ st = "needs"
  /\ CASE flagURL -> Manifest(TRUE) /\ UNCHANGED declined
       [] ~flagURL /\ Interactive /\ prov = "autoscale" ->
            \E answer \in BOOLEAN : Manifest(answer) /\ declined' = ~answer
       [] ~flagURL /\ ~Interactive /\ prov = "autoscale" /\ Scope = "org" ->
            st' = "failed" /\ UNCHANGED <<needs, browser, app, inst, saved, reported>>
       [] OTHER -> Manifest(FALSE) /\ UNCHANGED declined

-----------------------------------------------------------------------------
(* The browser and the handlers of the local server. *)

\* The landing page posts the manifest and the user confirms: GitHub creates an App.
CreateApp ==
  /\ st \in Serving /\ Cardinality(apps) < MaxApps /\ apps' = apps \cup {Cardinality(apps) + 1}
  /\ UNCHANGED <<needs, st, called, credsCh, installCh, errCh, app, inst, saved, reported>>

\* /callback: the code is exchanged for the credentials, which are sent, and the page leads
\* to the installation; or the exchange fails.  A send on a full channel does not return.
Callback(a) ==
  /\ st \in Serving /\ a \in Reach \ called
  /\ \/ credsCh = 0 /\ credsCh' = a /\ UNCHANGED errCh
     \/ errCh = 0 /\ errCh' = a /\ UNCHANGED credsCh
  /\ called' = IF credsCh' = a THEN called \cup {a} ELSE called
  /\ UNCHANGED <<needs, st, apps, installCh, app, inst, saved, reported>>

\* /setup, after the user has installed an App.  Without an ID nothing is sent.
Setup(id) ==
  /\ st \in Serving /\ id \in Reach \cap called
  /\ installCh = 0 /\ installCh' = id
  /\ UNCHANGED <<needs, st, apps, called, credsCh, errCh, app, inst, saved, reported>>

-----------------------------------------------------------------------------
(* Connect. *)

Fail(tell) == st' = "failed" /\ reported' = tell
              /\ UNCHANGED <<needs, browser, app, inst, saved>>

\* The first select: credentials, an error, five minutes or Ctrl-C.
AwaitCreds ==
  /\ st = "creating"
  /\ \/ Fail(FALSE)
     \/ /\ credsCh # 0 /\ app' = credsCh /\ credsCh' = 0 /\ st' = "installing"
        /\ UNCHANGED <<needs, apps, called, installCh, errCh, inst, saved, reported>>

\* The second: an installation, five minutes or Ctrl-C, also if one has just come.  The credentials
\* are dropped with the error, whose text names no App.
AwaitInstall ==
  /\ st = "installing"
  /\ \/ Fail(FALSE)
     \/ /\ installCh # 0 /\ inst' = installCh /\ installCh' = 0 /\ st' = "key"
        /\ UNCHANGED <<needs, apps, called, credsCh, errCh, app, saved, reported>>

-----------------------------------------------------------------------------
(* The writes of runOwnAppConnect; from here on an error names the App. *)

Write(from, to) == st = from /\ st' = to /\ UNCHANGED <<needs, browser, app, inst, reported>>

\* WriteSecretFile opens and cuts the file, whosever key it had, ...
OpenKey ==
  \/ Write("key", "keying") /\ key' = 0 /\ torn' = run /\ UNCHANGED conf
  \/ st = "key" /\ Fail(TRUE)

\* ... restricts it to its owner and writes the key.
WriteKey ==
  \/ Write("keying", "secret") /\ key' = app /\ UNCHANGED <<conf, torn>>
  \/ st = "keying" /\ Fail(TRUE)

\* The webhook's secret: a failure is a warning, or the identifiers would be lost.
WriteSecret == Write("secret", "config") /\ UNCHANGED saved

WriteAppAuth ==
  \/ Write("config", "pool") /\ conf' = [app |-> app, inst |-> inst] /\ torn' = 0 /\ UNCHANGED key
  \/ st = "config" /\ Fail(TRUE)

AddStarterPool ==
  \/ Write("pool", "done") /\ UNCHANGED saved
  \/ st = "pool" /\ Fail(TRUE)

-----------------------------------------------------------------------------
(* The end of the process, and another run. *)

Die == st \in Working /\ st' = "dead" /\ UNCHANGED <<needs, browser, app, inst, saved, reported>>

\* The configuration may be edited before.  What is left are the files and the Apps.
Again ==
  /\ st \in {"failed", "dead", "done"} /\ run < MaxRuns /\ run' = run + 1 /\ before' = Cardinality(apps)
  /\ prov' \in Provisionings /\ flagURL' \in BOOLEAN /\ st' = "needs" /\ declined' = FALSE
  /\ perms' = {} /\ events' = {} /\ credsCh' = 0 /\ installCh' = 0 /\ errCh' = 0 /\ app' = 0 /\ inst' = 0
  /\ reported' = FALSE /\ UNCHANGED <<apps, called, saved>>

Next ==
  \/ DeriveNeeds \/ CreateApp
  \/ \E a \in 1..MaxApps : Callback(a) \/ Setup(a)
  \/ AwaitCreds \/ AwaitInstall
  \/ OpenKey \/ WriteKey \/ WriteSecret \/ WriteAppAuth \/ AddStarterPool
  \/ Die \/ Again

Spec == Init /\ [][Next]_vars

-----------------------------------------------------------------------------
\* An App that this run created can do what the configuration asks of it, without an edit and a
\* new approval: its event needs actions:read, polling a repository needs it too, also where
\* autoscaling is only chosen later, and an organization that autoscales gets the event
\* unless the user left the URL for later.
AppCanDoItsWork ==
  Mine # {} =>
    /\ events # {} => "actions" \in perms
    /\ Scope = "repo" /\ prov \in {"", "autoscale"} => "actions" \in perms
    /\ Scope = "org" /\ prov = "autoscale" => events # {} \/ declined

\* The configuration names an App whose private key is not on disk only from when a later run cuts
\* the key's file until one writes the configuration; if that run ended in between it died, or it
\* failed and named its App.  Success leaves the key of the App that is configured.
KeyIsThere ==
  conf.app # 0 /\ key # conf.app =>
    /\ torn # 0 /\ st # "done"
    /\ torn = run => st \in {"keying", "secret", "config", "dead"} \/ (st = "failed" /\ reported)

\* A failure that does not name the App has written nothing, and Connect had not returned.  An App
\* may exist all the same and even be installed: an exchange failed, or the time was up or the
\* user interrupted when its installation had come and was not taken yet.
LateFailuresReport == st = "failed" => reported \/ (inst = 0 /\ torn # run)

\* The installation that is configured is one of the App that is configured.  The two callbacks are
\* not tied to one App, so this is for a run that the pages of one App lead to.
InstallationOfTheApp == st = "done" /\ (\A a, b \in Reach : a = b) => conf.inst = conf.app

\* What connect --own-app promises, together.
ConnectedIsUsable == AppCanDoItsWork /\ KeyIsThere /\ LateFailuresReport /\ InstallationOfTheApp
==============================================================================
