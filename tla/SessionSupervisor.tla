-------------------------- MODULE SessionSupervisor --------------------------
(***************************************************************************)
(* The supervision of scale-set sessions.  RunSupervised restarts each     *)
(* session on its own; a session (Run) prepares its scale set and launcher *)
(* and supervises its listener, which opens GitHub's one message session   *)
(* of the scale set and polls it.  Both levels are superviseSession.  The  *)
(* /health endpoint shows what the sessions report.                        *)
(***************************************************************************)
EXTENDS Integers, FiniteSets

CONSTANTS
  Sessions,     \* the sessions, one per pool
  FaultBudget,  \* bound: how many calls fail for a while
  Permanent,    \* bound: how many fail for good (400, 422, an invalid configuration)
  Initial,      \* supervisorInitialBackoff
  Maximum       \* supervisorMaxBackoff

\* A configuration without a pool is refused, and each pool has a session.
SupervisorAssumption ==
  /\ IsFiniteSet(Sessions) /\ Sessions # {} /\ FaultBudget \in Nat /\ Permanent \in Nat
  /\ Initial \in Nat \ {0} /\ Maximum \in Nat /\ Initial <= Maximum

VARIABLES
  pc,       \* per session: where it is
  available,\* metrics: requiredSessions
  failures, \* per session and level: consecutive failures
  delay,    \* per session: the back-off it sleeps
  ghSession,\* GitHub: the message session of the scale set
  scaleSet, \* GitHub: the scale set, against what the configuration wants
  launcher, \* per session: whether its launcher is at work
  stop,     \* the context is cancelled
  result,   \* what RunSupervised returned
  faults, permanent

vars == <<pc, available, failures, delay, ghSession, scaleSet, launcher, stop, result, faults, permanent>>

Levels == {"outer", "inner"}
Init ==
  /\ pc = [s \in Sessions |-> "prepare"]
  /\ available = [s \in Sessions |-> FALSE]
  /\ failures = [s \in Sessions |-> [l \in Levels |-> 0]] /\ delay = [s \in Sessions |-> 0]
  /\ ghSession \in [Sessions -> {"none", "stale"}]
  /\ scaleSet \in [Sessions -> {"absent", "differs", "match"}]
  /\ launcher = [s \in Sessions |-> FALSE]
  /\ stop = FALSE /\ result = "running"
  /\ faults = FaultBudget /\ permanent = Permanent

Over == {"stopped", "permanent"}

Goto(s, there) == pc' = [pc EXCEPT ![s] = there]
NoError == UNCHANGED <<faults, permanent>>
\* A call fails: with an error that may pass, or that a cancelled context makes.
Transient == (faults > 0 /\ faults' = faults - 1 /\ UNCHANGED permanent) \/ (stop /\ NoError)
\* A call fails with an error isPermanentSessionError knows.
ForGood == permanent > 0 /\ permanent' = permanent - 1 /\ UNCHANGED faults

-----------------------------------------------------------------------------
(* superviseSession: what both levels do after a failure. *)

\* supervisorBackoff.
supervisorBackoff(n) ==
  LET d[k \in 1..n] == IF k = 1 THEN Initial
                       ELSE IF d[k - 1] >= Maximum THEN d[k - 1]
                       ELSE IF d[k - 1] > Maximum \div 2 THEN Maximum ELSE 2 * d[k - 1]
  IN IF d[n] > Maximum THEN Maximum ELSE d[n]

\* Mutant: a session that failed stays as it was reported.
StillReported(s) == UNCHANGED available
\* reportSessionState of a session that does not serve.
ReportsUnavailable(s) == available' = [available EXCEPT ![s] = FALSE]

\* The failure is counted, anew when the session had been healthy for long, and slept off.
BackOff(s, level, sleep) ==
  /\ \E long \in BOOLEAN :
       LET n == IF long THEN 1 ELSE failures[s][level] + 1 IN
       /\ n <= FaultBudget
       /\ failures' = [failures EXCEPT ![s][level] = n]
       /\ delay' = [delay EXCEPT ![s] = supervisorBackoff(n)]
  /\ ReportsUnavailable(s)
  /\ Goto(s, sleep)

-----------------------------------------------------------------------------
(* Run: one life of a session. *)

\* EnsureImage and runnerGroupID.
Prepare(s) ==
  /\ pc[s] = "prepare"
  /\ \/ ~stop /\ Goto(s, "set") /\ NoError /\ UNCHANGED <<failures, delay, available>>
     \/ ~stop /\ Transient /\ BackOff(s, "outer", "outerSleep")
     \/ ForGood /\ Goto(s, "permanent") /\ ReportsUnavailable(s) /\ UNCHANGED <<failures, delay>>
     \/ stop /\ Goto(s, "stopped") /\ NoError /\ UNCHANGED <<failures, delay, available>>
  /\ UNCHANGED <<ghSession, scaleSet, launcher, stop, result>>

\* ensureScaleSet reuses a scale set that matches, updates one that differs, creates a new one.
ensureScaleSet(s) == scaleSet' = [scaleSet EXCEPT ![s] = "match"]

EnsureSet(s) ==
  /\ pc[s] = "set"
  /\ \/ ensureScaleSet(s) /\ NoError /\ Goto(s, "reconcile")
        /\ launcher' = [launcher EXCEPT ![s] = TRUE] /\ UNCHANGED <<failures, delay, available>>
     \/ ~stop /\ Transient /\ BackOff(s, "outer", "outerSleep") /\ UNCHANGED <<scaleSet, launcher>>
     \/ stop /\ Goto(s, "stopped") /\ NoError /\ UNCHANGED <<failures, delay, available, scaleSet, launcher>>
     \/ ForGood /\ Goto(s, "permanent") /\ ReportsUnavailable(s)
        /\ UNCHANGED <<failures, delay, scaleSet, launcher>>
  /\ UNCHANGED <<ghSession, stop, result>>

\* The launcher reconciles before the first poll; the inner supervisor counts from zero.
Reconcile(s) ==
  /\ pc[s] = "reconcile"
  /\ \/ NoError /\ Goto(s, "open") /\ failures' = [failures EXCEPT ![s]["inner"] = 0]
     \/ Transient /\ Goto(s, "shutdownFailed") /\ UNCHANGED failures
     \/ ForGood /\ Goto(s, "shutdownForGood") /\ UNCHANGED failures
  /\ UNCHANGED <<available, delay, ghSession, scaleSet, launcher, stop, result>>

\* openSession: opened and reported; given up for an error or a conflict of three minutes, to
\* the inner back-off; cancelled; failed for good.  It waits while an earlier life's session lasts.
openSession(s) ==
  /\ pc[s] = "open"
  /\ \/ /\ ghSession[s] = "none" /\ ghSession' = [ghSession EXCEPT ![s] = "mine"]
        /\ available' = [available EXCEPT ![s] = TRUE] /\ Goto(s, "listen")
        /\ NoError /\ UNCHANGED <<failures, delay>>
     \/ ~stop /\ Transient /\ BackOff(s, "inner", "innerSleep") /\ UNCHANGED ghSession
     \/ stop /\ Goto(s, "shutdown") /\ NoError /\ UNCHANGED <<failures, delay, available, ghSession>>
     \/ ForGood /\ Goto(s, "shutdownForGood") /\ ReportsUnavailable(s)
        /\ UNCHANGED <<failures, delay, ghSession>>
  /\ UNCHANGED <<scaleSet, launcher, stop, result>>

\* l.Run ends: with an error, or cancelled.
Listen(s) ==
  /\ pc[s] = "listen"
  /\ \/ Transient \/ ForGood
  /\ Goto(s, IF permanent' < permanent THEN "closeForGood" ELSE "close")
  /\ UNCHANGED <<available, failures, delay, ghSession, scaleSet, launcher, stop, result>>

\* session.Close, which may fail and leave the session to expire, then the inner supervisor.
CloseSession(s) ==
  /\ pc[s] \in {"close", "closeForGood"}
  /\ \/ ghSession' = [ghSession EXCEPT ![s] = "none"] /\ NoError
     \/ ghSession' = [ghSession EXCEPT ![s] = "stale"] /\ Transient
  /\ CASE pc[s] = "closeForGood" ->
            Goto(s, "shutdownForGood") /\ ReportsUnavailable(s) /\ UNCHANGED <<failures, delay>>
       [] pc[s] = "close" /\ stop -> Goto(s, "shutdown") /\ UNCHANGED <<failures, delay, available>>
       [] OTHER -> BackOff(s, "inner", "innerSleep")
  /\ UNCHANGED <<scaleSet, launcher, stop, result>>

\* The back-off ends, by time or by the context.
Sleep(s) ==
  /\ \/ pc[s] = "innerSleep" /\ Goto(s, IF stop THEN "shutdown" ELSE "open")
     \/ pc[s] = "outerSleep" /\ Goto(s, IF stop THEN "stopped" ELSE "prepare")
  /\ UNCHANGED <<available, failures, delay, ghSession, scaleSet, launcher, stop, result, faults, permanent>>

\* Run's deferred Shutdown of the launcher; then the outer supervisor decides.
Shutdown(s) ==
  /\ pc[s] \in {"shutdown", "shutdownFailed", "shutdownForGood"}
  /\ launcher' = [launcher EXCEPT ![s] = FALSE]
  /\ CASE pc[s] = "shutdownForGood" ->
            Goto(s, "permanent") /\ ReportsUnavailable(s) /\ UNCHANGED <<failures, delay>>
       [] pc[s] = "shutdown" \/ stop ->
            Goto(s, "stopped") /\ UNCHANGED <<available, failures, delay>>
       [] OTHER -> BackOff(s, "outer", "outerSleep")
  /\ UNCHANGED <<ghSession, scaleSet, stop, result, faults, permanent>>

-----------------------------------------------------------------------------
\* RunSupervised returns when every session is over, with the permanent errors.
RunSupervised ==
  /\ result = "running" /\ \A s \in Sessions : pc[s] \in Over
  /\ result' = IF \E s \in Sessions : pc[s] = "permanent" THEN "error" ELSE "nil"
  /\ UNCHANGED <<pc, available, failures, delay, ghSession, scaleSet, launcher, stop, faults, permanent>>

Stop ==
  /\ ~stop /\ stop' = TRUE
  /\ UNCHANGED <<pc, available, failures, delay, ghSession, scaleSet, launcher, result, faults, permanent>>

\* GitHub drops a session whose holder went away.
Expire(s) ==
  /\ ghSession[s] = "stale" /\ ghSession' = [ghSession EXCEPT ![s] = "none"]
  /\ UNCHANGED <<pc, available, failures, delay, scaleSet, launcher, stop, result, faults, permanent>>

Returned == result # "running" /\ UNCHANGED vars

Session(s) ==
  \/ Prepare(s) \/ EnsureSet(s) \/ Reconcile(s) \/ openSession(s)
  \/ CloseSession(s) \/ Sleep(s) \/ Shutdown(s)

Next ==
  \/ \E s \in Sessions : Session(s) \/ Listen(s) \/ Expire(s)
  \/ RunSupervised \/ Stop \/ Returned

Spec == Init /\ [][Next]_vars

-----------------------------------------------------------------------------
\* /health tells the truth: a session reported available holds GitHub's message session, or is
\* just closing it, and its scale set has the labels of the configuration.
HealthTellsTruth ==
  \A s \in Sessions : available[s] /\ ~stop =>
    /\ pc[s] \in {"listen", "close", "closeForGood"}
    /\ pc[s] = "listen" => ghSession[s] = "mine"
    /\ scaleSet[s] = "match" /\ launcher[s]

\* RunSupervised returns only when no launcher is at work, and nil only after a stop.
ReturnedIsOver ==
  result # "running" =>
    /\ \A s \in Sessions : ~launcher[s] /\ ghSession[s] # "mine"
    /\ result = "nil" => stop

\* A session listens, unless it is over.
Serving(s) == pc[s] = "listen" \/ stop \/ pc[s] = "permanent"

\* The context is cancelled, and RunSupervised has returned.
Ending == stop
Ended == result # "running"
=============================================================================
