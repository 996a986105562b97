------------------------------ MODULE MCStores ------------------------------
(***************************************************************************)
(* Small setups of what the host keeps on disk.                            *)
(***************************************************************************)
EXTENDS Stores

(* The cache's store: two jobs that save one key, a client that gives up and tries again and a
   job that dies; and two keys under a garbage collector with room for one archive. *)
Races ==
  [Savers |-> {"s1", "s2"}, KeyOf |-> [c \in {"s1", "s2"} |-> "k"], Readers |-> {"r1"}, WantedKey |-> [r1 |-> "k"],
   PartCount |-> 2, PutSlots |-> {1, 2}, GiveUpBudget |-> 1, DieBudget |-> 1, GcBudget |-> 0, MaxParts |-> 0]
Collected ==
  [Races EXCEPT !.KeyOf = [s1 |-> "k", s2 |-> "l"], !.PutSlots = {1}, !.GcBudget = 2, !.MaxParts = 2]

(* The cache's server: a job of the main branch, one of a pull request that reads main, one of
   another repository with a scope of the same name, and one whose token is refused. *)
Grant(s, p) == [scope |-> s, permission |-> p]
FourTokens ==
  [main  |-> [repo |-> "r1", scopes |-> <<Grant("main", 3)>>, results |-> TRUE, valid |-> TRUE],
   pr    |-> [repo |-> "r1", scopes |-> <<Grant("main", 1), Grant("pr", 3)>>, results |-> TRUE, valid |-> TRUE],
   other |-> [repo |-> "r2", scopes |-> <<Grant("main", 3)>>, results |-> TRUE, valid |-> TRUE],
   forged |-> [repo |-> "r1", scopes |-> <<Grant("main", 3)>>, results |-> TRUE, valid |-> FALSE]]
FourJobs ==
  [Jobs |-> {"main", "pr", "other", "forged"}, Token |-> FourTokens, Upstream |-> TRUE,
   KeySeqs |-> {<<"deps">>, <<"deps", "a">>, <<"DEPS", "b">>},
   Lower |-> [s \in {"deps", "DEPS", "a", "b"} |-> IF s = "DEPS" THEN "deps" ELSE s],
   Requests |-> {<<<<"deps", "a">>, <<"deps">>>>, <<<<"DEPS", "b">>, <<"deps", "a">>>>},
   Versions |-> {"v1"}, IdBound |-> 3]

(* The git cache; its git processes' environment with more indexed variables than are read; and
   git's configuration files. *)
TwoMirrors ==
  [Mirrors |-> {"m1", "m2"}, Foreign |-> {"theirs"}, Users |-> {"refresh", "bundle"},
   MaxAge |-> 1, LastDay |-> 3, Faults |-> 2]
Variables == [Slots |-> 3, MaxEntries |-> 2, MaxFile |-> 0]
Files == [Slots |-> 0, MaxEntries |-> 0, MaxFile |-> 2]

(* The golden image and its inputs. *)
SixDays ==
  [Tools |-> {"h1", "h2"}, EvalDays |-> 3, Threshold |-> 2, MaxRearms |-> 1, LastDay |-> 6, Mishaps |-> 2]
TwoSelectors ==
  [NodeMajors |-> {22, 24}, DotNetMajors |-> {8, 10}, Lines |-> {17, 18}, Assigned |-> {8}, MaxTools |-> 2]

TwoStores == [races |-> Races, collected |-> Collected]
OneServer == [four |-> FourJobs]
OneMirror == [two |-> TwoMirrors]
TwoEnvs == [variables |-> Variables, files |-> Files]
OneGolden == [six |-> SixDays]
OnePlan == [two |-> TwoSelectors]

ASSUME SmallSetups == StoresAssumption
=============================================================================
