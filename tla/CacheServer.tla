----------------------------- MODULE CacheServer -----------------------------
(***************************************************************************)
(* The HTTP side of the actions cache: who may save and restore what.  The *)
(* steps inside a save or a download are CacheStore's; here a request is   *)
(* one step, and what is followed is the token behind it, the scope it     *)
(* writes to, the entry a lookup chooses and the signed URL it answers.    *)
(***************************************************************************)
EXTENDS Integers, Sequences, FiniteSetsExt

CONSTANTS
  Jobs,        \* jobs, each with the token of its runner
  Token,       \* per job: repo, scopes (scope and permission, in order), results, valid
  Upstream,    \* whether the results service that validates tokens is configured
  KeySeqs,     \* the keys, as sequences of segments so that one can be a prefix of another
  Lower,       \* per segment: the segment in lower case (ASCII)
  Requests,    \* what is asked for: a key and restore keys
  Versions,    \* the versions of the archive format
  IdBound      \* bound: uploads of the run

ServerAssumption ==
  /\ Upstream \in BOOLEAN /\ IdBound \in Nat
  /\ \A j \in Jobs : /\ DOMAIN Token[j] = {"repo", "scopes", "results", "valid"}
                    /\ Token[j].scopes \in Seq({Token[j].scopes[i] : i \in DOMAIN Token[j].scopes})
                    /\ \A i \in DOMAIN Token[j].scopes : Token[j].scopes[i].permission \in Int
  /\ \A k \in KeySeqs : k \in Seq({k[i] : i \in DOMAIN k})
  /\ \A k \in KeySeqs : \A i \in DOMAIN k : k[i] \in DOMAIN Lower
  /\ Requests \subseteq Seq(KeySeqs)

VARIABLES
  entries,   \* the cache entries
  nextId,    \* how many uploads there were
  url,       \* per job: the entry its signed download URL names, or 0
  got        \* per job: the entry it downloaded, or none

vars == <<entries, nextId, url, got>>

None == [id |-> 0]
Init ==
  /\ entries = {} /\ nextId = 0
  /\ url = [j \in Jobs |-> 0] /\ got = [j \in Jobs |-> None]

-----------------------------------------------------------------------------
(* Tokens. *)

\* validateRuntimeToken: the results service accepts the token for the run it names.
validateRuntimeToken(t) == Upstream /\ t.results /\ t.valid
\* requireCacheBearer: a token with scopes and a repository, and valid.
requireCacheBearer(j) ==
  LET t == Token[j] IN t.scopes # <<>> /\ t.repo # "" /\ validateRuntimeToken(t)

\* writeScope: the first scope with write permission, as a sequence of at most one.
writeScope(j) ==
  LET scopes == Token[j].scopes
      writable == {i \in DOMAIN scopes : scopes[i].permission >= 2}
  IN IF writable = {} THEN <<>> ELSE <<scopes[Min(writable)].scope>>

\* scopeStringsByPermission: a stable sort, the highest permission first. The place of a
\* scope is the number of the scopes that come no later.
scopeStringsByPermission(j) ==
  LET scopes == Token[j].scopes
      upTo(i) == {k \in DOMAIN scopes : \/ scopes[k].permission > scopes[i].permission
                                        \/ scopes[k].permission = scopes[i].permission /\ k <= i}
  IN [n \in DOMAIN scopes |-> scopes[CHOOSE i \in DOMAIN scopes : Cardinality(upTo(i)) = n].scope]

-----------------------------------------------------------------------------
(* matchEntry. *)

\* The rows of a scope of the job's repository.
RowsOf(scope, j, version) ==
  {e \in entries : e.scope = scope /\ e.repo = Token[j].repo /\ e.version = version}

queryExact(rows, key) == {e \in rows : e.key = key}
\* SQLite's LIKE with the prefix and a % at its end: the case of ASCII letters does not count.
Like(key, prefix) == Len(prefix) <= Len(key) /\ \A i \in DOMAIN prefix : Lower[key[i]] = Lower[prefix[i]]
queryPrefix(rows, key) == {e \in rows : Like(e.key, key)}
Newest(rows) == CHOOSE e \in rows : \A f \in rows : f.updated <= e.updated

\* Mutant: all restore keys are tried by prefix only.
PrefixOnly(rows, keys) == [i \in DOMAIN keys |-> queryPrefix(rows, keys[i])]
\* The queries of a scope, in order: each key exactly, then as a prefix.
QueriesOf(rows, keys) ==
  [n \in 1..2 * Len(keys) |-> LET key == keys[(n + 1) \div 2]
                             IN IF n % 2 = 1 THEN queryExact(rows, key) ELSE queryPrefix(rows, key)]

\* The first scope with an answer, and its first answer.
matchEntry(keys, version, j) ==
  LET scopes == scopeStringsByPermission(j)
      answers(i) == QueriesOf(RowsOf(scopes[i], j, version), keys)
      hits(i) == {n \in DOMAIN answers(i) : answers(i)[n] # {}}
      found == {i \in DOMAIN scopes : hits(i) # {}}
  IN IF found = {} THEN None ELSE Newest(answers(Min(found))[Min(hits(Min(found)))])

-----------------------------------------------------------------------------
(* Requests. *)

\* createUpload, the parts and completeUpload, by one job for one key: an entry of the same
\* key, version, scope and repository is replaced.
Save(j, key, version) ==
  /\ requireCacheBearer(j) /\ writeScope(j) # <<>>
  /\ nextId < IdBound /\ nextId' = nextId + 1
  /\ LET e == [id |-> nextId', key |-> key, version |-> version, scope |-> writeScope(j)[1],
               repo |-> Token[j].repo, updated |-> nextId', by |-> j]
     IN entries' = {f \in entries : <<f.key, f.version, f.scope, f.repo>> # <<e.key, e.version, e.scope, e.repo>>} \cup {e}
  /\ UNCHANGED <<url, got>>

handleGetDownloadURL(j, keys, version) ==
  /\ requireCacheBearer(j)
  /\ LET e == matchEntry(keys, version, j) IN
       /\ e # None
       /\ url' = [url EXCEPT ![j] = e.id]
  /\ UNCHANGED <<entries, nextId, got>>

\* handleDownload: a URL of the server (its access token and signature hold), and the row.
handleDownload(j) ==
  /\ \E e \in entries : e.id = url[j] /\ got' = [got EXCEPT ![j] = e]
  /\ UNCHANGED <<entries, nextId, url>>

\* The garbage collector takes an entry.
Evict(e) ==
  /\ entries' = entries \ {e}
  /\ UNCHANGED <<nextId, url, got>>

Next ==
  \/ \E j \in Jobs, v \in Versions :
       \/ \E k \in KeySeqs : Save(j, k, v)
       \/ \E ks \in Requests : handleGetDownloadURL(j, ks, v)
  \/ \E j \in Jobs : handleDownload(j)
  \/ \E e \in entries : Evict(e)

Spec == Init /\ [][Next]_vars

-----------------------------------------------------------------------------
Granted(j) == {Token[j].scopes[i].scope : i \in DOMAIN Token[j].scopes}

\* What a job restores was saved for its own repository, in a scope its token grants, by a job
\* whose token was valid and could write that scope ("strict scope+repo isolation").
RestoresAreGranted ==
  \A j \in Jobs : got[j] # None =>
    LET t == Token[got[j].by] IN
    /\ got[j].repo = Token[j].repo /\ got[j].scope \in Granted(j)
    /\ t.valid /\ t.repo = got[j].repo
    /\ \E i \in DOMAIN t.scopes : t.scopes[i].scope = got[j].scope /\ t.scopes[i].permission >= 2

\* The rank of an entry for a request: the scope, then the key, then exactness, then age.
Rank(e, keys, j) ==
  LET scopes == scopeStringsByPermission(j)
      key == Min({i \in DOMAIN keys : Like(e.key, keys[i])})
  IN <<Min({i \in DOMAIN scopes : scopes[i] = e.scope}), key, IF e.key = keys[key] THEN 0 ELSE 1, -e.updated>>
Before(r, s) == \E k \in 1..4 : r[k] < s[k] /\ \A m \in 1..k - 1 : r[m] = s[m]

\* matchEntry answers the best entry there is, by rank, and one when there is one. An entry fits a
\* key that it begins with in whatever case, and equals it only in the same case.
LookupIsBest ==
  \A j \in Jobs, v \in Versions, ks \in Requests :
    LET fit == {e \in entries : /\ e.repo = Token[j].repo /\ e.version = v /\ e.scope \in Granted(j)
                                /\ \E i \in DOMAIN ks : Like(e.key, ks[i])}
        e == matchEntry(ks, v, j)
    IN IF fit = {} THEN e = None
       ELSE e \in fit /\ \A f \in fit \ {e} : Before(Rank(e, ks, j), Rank(f, ks, j))
=============================================================================
