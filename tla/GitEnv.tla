------------------------------- MODULE GitEnv --------------------------------
(***************************************************************************)
(* The environment of the git processes of the mirror cache.  Git reads    *)
(* configuration from an indexed list of variables (GIT_CONFIG_COUNT,      *)
(* GIT_CONFIG_KEY_n, GIT_CONFIG_VALUE_n) and from GIT_CONFIG_PARAMETERS;   *)
(* buildGitEnv rebuilds the list and appends the credential.  The audit    *)
(* of the doctor looks at the configuration in files.  The inherited       *)
(* environment and the files are edited one variable at a time.            *)
(***************************************************************************)
EXTENDS Naturals, Integers, Sequences, FiniteSetsExt

CONSTANTS
  Slots,      \* bound: indexed variables in the environment
  MaxEntries, \* maxInheritedGitConfigEntries
  MaxFile     \* bound: entries in git's configuration files

GitEnvAssumption == Slots \in Nat /\ MaxEntries \in Nat /\ MaxFile \in Nat

VARIABLES
  count,       \* GIT_CONFIG_COUNT, Unset or Bad when it is no number
  slot,        \* GIT_CONFIG_KEY_n and GIT_CONFIG_VALUE_n
  params,      \* GIT_CONFIG_PARAMETERS is set
  token,       \* the manager has a token
  file         \* entries of the system and global configuration
vars == <<count, slot, params, token, file>>

Unset == -3
Bad == -2
Absent == "absent"
Keys == {Absent, "blank", "url.insteadOf", "url.pushInsteadOf", "http.extraHeader", "other"}
Values == {Absent, "Authorization", "plain"}
Counts == {Unset, Bad, -1} \cup 0..Slots
Credential == [key |-> "http.extraHeader", value |-> "Authorization"]

\* URLs, the host's name in two pieces, and what an insteadOf in a file may name.
Base == <<"https:", "/", "/", "ho", "st">>
CloneURL(repo) == Base \o <<"/", repo>>
URLs == {SubSeq(CloneURL("r1"), 1, n) : n \in 1..7}
  \cup {Base \o <<"/">>, Base \o <<"-old">>, <<"https:", "/", "/", "other">>, Base \o <<"/", "r2", "/">>}
FileEntries == [key : {"url.insteadOf"}, value : URLs] \cup [key : {"http.extraHeader"}, value : {"Authorization", "plain"}]

Init ==
  /\ count = Unset /\ slot = [i \in 0..Slots - 1 |-> [key |-> Absent, value |-> Absent]]
  /\ params = FALSE /\ token \in BOOLEAN /\ file = {}

-----------------------------------------------------------------------------
IsRewrite(e) == e.key \in {"url.insteadOf", "url.pushInsteadOf"}
IsAuthorization(e) == e.key = "http.extraHeader" /\ e.value = "Authorization"

\* Without a token nothing is attached, and inherited rewrites stay usable.
authenticated(includeAuth) == includeAuth /\ token

inheritedCount == IF count < 0 THEN 0 ELSE IF count > MaxEntries THEN MaxEntries ELSE count

\* The loop breaks where both variables are missing; incomplete entries are skipped, and so are
\* a rewrite beside a credential and an inherited credential.
keptSlots(includeAuth) ==
  LET present(i) == slot[i].key # Absent \/ slot[i].value # Absent
      complete(i) == slot[i].key \notin {Absent, "blank"} /\ slot[i].value # Absent
  IN  {i \in 0..inheritedCount - 1 :
         /\ \A k \in 0..i : present(k)
         /\ complete(i) /\ ~(authenticated(includeAuth) /\ IsRewrite(slot[i])) /\ ~IsAuthorization(slot[i])}

\* The n-th smallest number of a set.
Nth(S, n) == CHOOSE i \in S : Cardinality({k \in S : k <= i}) = n

\* What is kept, in the order of the loop.
kept(includeAuth) ==
  LET from == keptSlots(includeAuth) IN [n \in 1..Cardinality(from) |-> slot[Nth(from, n)]]

entries(includeAuth) ==
  kept(includeAuth) \o (IF authenticated(includeAuth) THEN <<Credential>> ELSE <<>>)

\* Mutant: the inherited variables stay behind the new, smaller count.
HideIndexed == [params |-> FALSE, slot |-> [i \in {j \in 0..Slots - 1 : slot[j].value # Absent} |-> slot[i]]]
\* stripIndexedGitConfig: no indexed variable and no GIT_CONFIG_PARAMETERS is left.
stripIndexedGitConfig == [params |-> FALSE, slot |-> [i \in {} |-> slot[i]]]

\* The variables of the child, the later of two with one name winning.
buildGitEnv(includeAuth) ==
  LET es == entries(includeAuth)
      old == stripIndexedGitConfig.slot
  IN  [params |-> stripIndexedGitConfig.params, count |-> Len(es),
       slot |-> [i \in (0..Len(es) - 1) \cup DOMAIN old |-> IF i < Len(es) THEN es[i + 1] ELSE old[i]]]

-----------------------------------------------------------------------------
(* AuditFileConfig. *)

HasPrefix(u, prefix) == Len(prefix) <= Len(u) /\ SubSeq(u, 1, Len(prefix)) = prefix
\* Without the slashes at its end.
TrimRight(u) == SubSeq(u, 1, Max({0} \cup {i \in DOMAIN u : u[i] # "/"}))

\* AuditFileConfig: the entries it warns of.
AuditFileConfig ==
  {e \in file :
     \/ /\ e.key = "url.insteadOf"
        /\ LET base == Append(Base, "/")
               replaced == Append(TrimRight(e.value), "/")
           IN  HasPrefix(base, replaced) \/ HasPrefix(replaced, base)
     \/ IsAuthorization(e)}

-----------------------------------------------------------------------------
(* The operator's edits. *)

SetCount == \E c \in Counts : count' = c /\ UNCHANGED <<slot, params, token, file>>
SetSlot == \E i \in 0..Slots - 1, k \in Keys, v \in Values :
  slot' = [slot EXCEPT ![i] = [key |-> k, value |-> v]] /\ UNCHANGED <<count, params, token, file>>
SetParams == params' = ~params /\ UNCHANGED <<count, slot, token, file>>
EditFile == \E e \in FileEntries :
  /\ file' = IF e \in file THEN file \ {e} ELSE file \cup {e}
  /\ Cardinality(file') <= MaxFile
  /\ UNCHANGED <<count, slot, params, token>>
Next == SetCount \/ SetSlot \/ SetParams \/ EditFile
Spec == Init /\ [][Next]_vars

-----------------------------------------------------------------------------
\* The child's environment holds exactly one credential when the command talks to GitHub with a
\* token and none otherwise, neither in the list git reads nor in variables beyond its count
\* nor in GIT_CONFIG_PARAMETERS.
OneCredential ==
  \A includeAuth \in BOOLEAN :
    LET env == buildGitEnv(includeAuth) IN
    /\ ~env.params
    /\ Cardinality({i \in DOMAIN env.slot : IsAuthorization(env.slot[i])}) = IF includeAuth /\ token THEN 1 ELSE 0

\* No URL rewrite reaches a git that carries the credential.
NoRewriteWithCredential ==
  \A includeAuth \in BOOLEAN :
    LET env == buildGitEnv(includeAuth) IN
    (\E i \in DOMAIN env.slot : IsAuthorization(env.slot[i])) => \A i \in DOMAIN env.slot : ~IsRewrite(env.slot[i])

\* What git would have read from a well-formed environment reaches the child in its order,
\* apart from credentials and, beside a credential, rewrites: the child's settings are the
\* operator's safe ones, one for one.
SafeSettingsSurvive ==
  (/\ count \in 0..MaxEntries
   /\ \A i \in 0..count - 1 : slot[i].key \notin {Absent, "blank"} /\ slot[i].value # Absent) =>
  \A includeAuth \in BOOLEAN :
    LET env == buildGitEnv(includeAuth)
        safe(e) == ~IsAuthorization(e) /\ ~(includeAuth /\ token /\ IsRewrite(e))
        mine == {i \in 0..env.count - 1 : ~IsAuthorization(env.slot[i])}
        theirs == {i \in 0..count - 1 : safe(slot[i])}
    IN  \E of \in [mine -> theirs] :
          /\ \A i \in mine : env.slot[i] = slot[of[i]]
          /\ \A i, k \in mine : i < k => of[i] < of[k]
          /\ \A k \in theirs : \E i \in mine : of[i] = k

\* A URL that ends within the name of the host.
CutsHost(u) == Len(u) < Len(Base) /\ u[Len(u)] # "/" /\ Base[Len(u) + 1] # "/"

\* The audit warns of every rewrite that redirects the fetch of a mirror, and of every stored
\* credential. The exception is a rewrite of a URL cut off within the scheme or the host's name:
\* git compares characters, the audit adds a slash and compares components.
AuditSeesRedirects ==
  \A e \in file :
    (IF e.key = "url.insteadOf" THEN ~CutsHost(e.value) /\ \E r \in {"r1", "r2"} : HasPrefix(CloneURL(r), e.value)
                                ELSE IsAuthorization(e))
      => e \in AuditFileConfig
=============================================================================
