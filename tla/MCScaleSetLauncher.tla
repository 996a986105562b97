------------------------ MODULE MCScaleSetLauncher ------------------------
(* Model-checking instances of ScaleSetLauncher.  The budgets of faults,   *)
(* jobs and ends bind the initial state only, so a run can start from more *)
(* than one of them: what it explores is the union, not the product.       *)
EXTENDS ScaleSetLauncher

TwoRunners == 1..2
ThreeRunners == 1..3

\* Two failures, in a session that neither ends nor reconciles.
TwoFaults == INSTANCE ScaleSetLauncher WITH FaultBudget <- 2, PassBudget <- 0, EndBudget <- 0
FaultsSpec == (Init \/ TwoFaults!Init) /\ [][Next]_vars

\* Two jobs in a session that nothing disturbs.
TwoJobs == INSTANCE ScaleSetLauncher WITH JobBudget <- 2, FaultBudget <- 0, EndBudget <- 0
ProgressSpec == (Init \/ TwoJobs!Init) /\ [][Next]_vars /\ Fairness

\* DemandServed of the sessions in which no call fails and nothing ends: the runs of
\* HandleDesiredRunnerCount and of the refills after an exit serve every assigned job.
DemandServedUndisturbed == faults = 0 /\ ends = 0 => DemandServed
=============================================================================
