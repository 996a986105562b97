----------------------------- MODULE CacheStore -----------------------------
(***************************************************************************)
(* The store of the actions cache: rows of uploads and cache_entries in    *)
(* SQLite, the parts of an archive as files in a folder named after the    *)
(* upload.  Every SQL statement and every file operation is a step, and    *)
(* HTTP handlers, the clients behind them and the garbage collector        *)
(* interleave between them.  A key stands for key, version, scope and      *)
(* repository together (CacheServer has them apart).                       *)
(***************************************************************************)
EXTENDS Integers, Sequences, FiniteSets

CONSTANTS
  Savers,      \* jobs that save an archive once
  KeyOf,       \* the key each saves under
  Readers,     \* jobs that restore the archive of a key once
  WantedKey,   \* the key each restores
  PartCount,   \* an archive is the parts 0..PartCount - 1
  PutSlots,    \* bound: PUT handlers at work at one time
  GiveUpBudget,\* bound: PUTs whose client stops waiting for the answer, and tries again
  DieBudget,   \* bound: jobs that end before their save is over
  GcBudget,    \* bound: ticks of the garbage collector
  MaxParts     \* maxBytes, in parts; 0 for no limit

StoreAssumption ==
  /\ PartCount \in Nat \ {0} /\ {GiveUpBudget, DieBudget, GcBudget, MaxParts} \subseteq Nat
  /\ IsFiniteSet(Savers) /\ IsFiniteSet(PutSlots) /\ \A c \in Savers : KeyOf[c] # "none"

VARIABLES
  saver,    \* per saver: where its save is
  up,       \* per saver: its upload, 0 before it has one
  acked,    \* per saver: the parts that were answered with 201
  fin,      \* per saver: what its finalize request has read
  put,      \* per slot: the PUT handler at work
  upload,   \* table uploads: per id the key and the counts of parts, or no row
  lru,      \* table cache_entries, by last_used_at: id, key, part_count
  file,     \* per folder and part: the file
  gc,       \* the garbage collector
  reader,   \* per reader: its download
  budget,   \* what is left of each budget
  promoted, \* history: ids that have been a cache entry
  removed,  \* history: ids whose folder was removed
  raced     \* history: ids finalized by another saver, or with a PUT of theirs still at work

vars == <<saver, up, acked, fin, put, upload, lru, file, gc, reader, budget, promoted, removed, raced>>
tables == <<upload, lru, file>>
history == <<promoted, removed, raced>>

Ids == 1..Cardinality(Savers)
Parts == 0..PartCount - 1
NoRow == [key |-> "none", started |-> 0, finished |-> 0]
Idle == [step |-> "idle", by |-> "none", id |-> 0, part |-> 0, waits |-> FALSE]
NoFin == [id |-> 0, finished |-> 0, old |-> 0]
GcIdle == [step |-> "idle", ids |-> <<>>, id |-> 0, size |-> FALSE, total |-> 0]

Init ==
  /\ saver = [c \in Savers |-> "create"] /\ up = [c \in Savers |-> 0]
  /\ acked = [c \in Savers |-> {}] /\ fin = [c \in Savers |-> NoFin]
  /\ put = [x \in PutSlots |-> Idle]
  /\ upload = [i \in Ids |-> NoRow] /\ lru = <<>>
  /\ file = [i \in Ids |-> [p \in Parts |-> "none"]]
  /\ gc = GcIdle
  /\ reader = [d \in Readers |-> [step |-> "lookup", id |-> 0, parts |-> 0, got |-> <<>>]]
  /\ budget = [giveUp |-> GiveUpBudget, die |-> DieBudget, gc |-> GcBudget]
  /\ promoted = {} /\ removed = {} /\ raced = {}

EntryIds == {lru[i].id : i \in DOMAIN lru}

\* The row of an id, which is the primary key.
RowOf(id) == CHOOSE i \in DOMAIN lru : lru[i].id = id

\* A sequence of rows without one of them.
RemoveAt(s, i) == SubSeq(s, 1, i - 1) \o SubSeq(s, i + 1, Len(s))

Becomes(c, there) == saver' = [saver EXCEPT ![c] = there]

-----------------------------------------------------------------------------
(* createUpload: two statements. *)

RowsFor(key) == {i \in Ids : upload[i].key = key}

CreateSelect(c) ==
  /\ saver[c] = "create"
  /\ Becomes(c, IF RowsFor(KeyOf[c]) = {} THEN "insert" ELSE "refused")
  /\ UNCHANGED <<up, acked, fin, put, tables, gc, reader, budget, history>>

CreateInsert(c) ==
  /\ saver[c] = "insert"
  /\ \E i \in Ids \ {up[b] : b \in Savers} :
       /\ up' = [up EXCEPT ![c] = i]
       /\ upload' = [upload EXCEPT ![i] = [key |-> KeyOf[c], started |-> 0, finished |-> 0]]
  /\ Becomes(c, "upload")
  /\ UNCHANGED <<acked, fin, put, lru, file, gc, reader, budget, history>>

-----------------------------------------------------------------------------
(* uploadPart: a row, a count, a file, a count. *)

HasRow(i) == upload[i] # NoRow
Ack(x) == IF put[x].waits THEN acked' = [acked EXCEPT ![put[x].by] = @ \cup {put[x].part}]
                          ELSE UNCHANGED acked

\* A client sends a part it is not waiting for; a PUT for no upload is ignored, and answered.
PutSelect(x, c, p) ==
  /\ saver[c] = "upload" /\ p \notin acked[c] /\ put[x].step = "idle"
  /\ \A y \in PutSlots : put[y].by = c /\ put[y].part = p => ~put[y].waits
  /\ IF HasRow(up[c])
     THEN /\ put' = [put EXCEPT ![x] = [step |-> "start", by |-> c, id |-> up[c], part |-> p, waits |-> TRUE]]
          /\ UNCHANGED acked
     ELSE acked' = [acked EXCEPT ![c] = @ \cup {p}] /\ UNCHANGED put
  /\ UNCHANGED <<saver, up, fin, tables, gc, reader, budget, history>>

Step(x, from, to) == put[x].step = from /\ put' = [put EXCEPT ![x].step = to]
\* An UPDATE of a row that is gone changes nothing and is no error.
Count(i, field) == upload' = IF HasRow(i) THEN [upload EXCEPT ![i][field] = @ + 1] ELSE upload

PutStart(x) ==
  /\ Step(x, "start", "create") /\ Count(put[x].id, "started")
  /\ UNCHANGED <<saver, up, acked, fin, lru, file, gc, reader, budget, history>>

\* os.Create truncates the file of an earlier PUT of the part.
PutCreate(x) ==
  /\ Step(x, "create", "write") /\ file' = [file EXCEPT ![put[x].id][put[x].part] = "torn"]
  /\ UNCHANGED <<saver, up, acked, fin, upload, lru, gc, reader, budget, history>>

\* io.Copy: the whole body, or an error when its client is no longer there. A folder that was
\* removed takes the open file with it.
PutWrite(x) ==
  LET i == put[x].id p == put[x].part IN
  /\ \/ /\ put[x].step = "write"
        /\ file' = [file EXCEPT ![i][p] = IF @ = "none" THEN @ ELSE "whole"]
        /\ put' = [put EXCEPT ![x].step = "finish"]
     \/ put[x].step = "write" /\ ~put[x].waits /\ put' = [put EXCEPT ![x] = Idle] /\ UNCHANGED file
  /\ UNCHANGED <<saver, up, acked, fin, upload, lru, gc, reader, budget, history>>

PutFinish(x) ==
  /\ put[x].step = "finish" /\ put' = [put EXCEPT ![x] = Idle]
  /\ Count(put[x].id, "finished") /\ Ack(x)
  /\ UNCHANGED <<saver, up, fin, lru, file, gc, reader, budget, history>>

\* The client stops waiting for an answer; the handler does not notice before it reads on.
GiveUp(x) ==
  /\ put[x].waits /\ budget.giveUp > 0
  /\ put' = [put EXCEPT ![x].waits = FALSE]
  /\ budget' = [budget EXCEPT !.giveUp = @ - 1]
  /\ UNCHANGED <<saver, up, acked, fin, tables, gc, reader, history>>

\* The job of an upload is cancelled: nothing more comes from it.
Die(c) ==
  /\ saver[c] = "upload" /\ budget.die > 0
  /\ Becomes(c, "gone")
  /\ put' = [x \in PutSlots |-> IF put[x].by = c THEN [put[x] EXCEPT !.waits = FALSE] ELSE put[x]]
  /\ budget' = [budget EXCEPT !.die = @ - 1]
  /\ UNCHANGED <<up, acked, fin, tables, gc, reader, history>>

-----------------------------------------------------------------------------
(* completeUpload. *)

\* Mutant: parts still being written are not looked for.
AnyParts(row) == row.finished > 0
\* Some parts, and every one that was begun is finished.
CountsAgree(row) == row.finished > 0 /\ row.started = row.finished

\* The row of the key; one whose counts do not agree is deleted, and its folder stays.
FinalizeSelect(c) ==
  LET rows == RowsFor(KeyOf[c]) IN
  /\ saver[c] = "upload" /\ acked[c] = Parts
  /\ IF rows = {} THEN Becomes(c, "failed") /\ UNCHANGED <<fin, upload, raced>>
     ELSE \E i \in rows :
       /\ \A k \in rows : i <= k
       /\ raced' = IF i # up[c] \/ \E x \in PutSlots : put[x].id = i THEN raced \cup {i} ELSE raced
       /\ IF CountsAgree(upload[i])
          THEN /\ fin' = [fin EXCEPT ![c] = [id |-> i, finished |-> upload[i].finished, old |-> 0]]
               /\ Becomes(c, "count") /\ UNCHANGED upload
          ELSE Becomes(c, "failed") /\ upload' = [upload EXCEPT ![i] = NoRow] /\ UNCHANGED fin
  /\ UNCHANGED <<up, acked, put, lru, file, gc, reader, budget, promoted, removed>>

\* countParts and requireContiguousParts: as many files as were counted, from 0 on.
PartsPresent(i, n) == {p \in Parts : file[i][p] # "none"} = 0..n - 1

FinalizeCount(c) ==
  /\ saver[c] = "count"
  /\ IF PartsPresent(fin[c].id, fin[c].finished) THEN Becomes(c, "query") /\ UNCHANGED upload
     ELSE Becomes(c, "failed") /\ upload' = [upload EXCEPT ![fin[c].id] = NoRow]
  /\ UNCHANGED <<up, acked, fin, put, lru, file, gc, reader, budget, history>>

EntriesFor(key) == {i \in DOMAIN lru : lru[i].key = key}

FinalizeQuery(c) ==
  /\ saver[c] = "query"
  /\ \/ EntriesFor(KeyOf[c]) = {} /\ Becomes(c, "store") /\ UNCHANGED fin
     \/ \E i \in EntriesFor(KeyOf[c]) :
          fin' = [fin EXCEPT ![c].old = lru[i].id] /\ Becomes(c, "update")
  /\ UNCHANGED <<up, acked, put, tables, gc, reader, budget, history>>

NewEntry(c) == [id |-> fin[c].id, key |-> KeyOf[c], parts |-> fin[c].finished]

\* UPDATE of the row of the key: it gets the new id and counts as used now.
Repoint(c, i) == Append(RemoveAt(lru, i), NewEntry(c))

\* The id is the primary key: two rows cannot have it.
Clash(c, rows) ==
  \/ \E i, k \in rows : i # k
  \/ fin[c].id \in EntryIds /\ \A i \in rows : lru[i].id # fin[c].id

\* The UPDATE; no row is no error.
FinalizeUpdate(c) ==
  LET rows == EntriesFor(KeyOf[c]) IN
  /\ saver[c] = "update"
  /\ \/ rows = {} /\ Becomes(c, "unlink") /\ UNCHANGED <<lru, promoted>>
     \/ rows # {} /\ Clash(c, rows) /\ Becomes(c, "failed") /\ UNCHANGED <<lru, promoted>>
     \/ /\ ~Clash(c, rows)
        /\ \E i \in rows : lru' = Repoint(c, i)
        /\ promoted' = promoted \cup {fin[c].id} /\ Becomes(c, "unlink")
  /\ UNCHANGED <<up, acked, fin, put, upload, file, gc, reader, budget, removed, raced>>

FinalizeInsert(c) ==
  /\ saver[c] = "store"
  /\ IF fin[c].id \in EntryIds THEN Becomes(c, "failed") /\ UNCHANGED <<lru, promoted>>
     ELSE /\ lru' = Append(lru, NewEntry(c)) /\ promoted' = promoted \cup {fin[c].id}
          /\ Becomes(c, "drop")
  /\ UNCHANGED <<up, acked, fin, put, upload, file, gc, reader, budget, removed, raced>>

RemoveFolder(i) == file' = [file EXCEPT ![i] = [p \in Parts |-> "none"]] /\ removed' = removed \cup {i}

FinalizeUnlink(c) ==
  /\ saver[c] = "unlink" /\ Becomes(c, "drop")
  /\ IF fin[c].old # fin[c].id THEN RemoveFolder(fin[c].old) ELSE UNCHANGED <<file, removed>>
  /\ UNCHANGED <<up, acked, fin, put, upload, lru, gc, reader, budget, promoted, raced>>

FinalizeDrop(c) ==
  /\ saver[c] = "drop" /\ Becomes(c, "saved")
  /\ upload' = [upload EXCEPT ![fin[c].id] = NoRow]
  /\ UNCHANGED <<up, acked, fin, put, lru, file, gc, reader, budget, history>>

AllOver == \A c \in Savers : saver[c] \in {"saved", "failed", "refused", "gone"}

-----------------------------------------------------------------------------
(* evict and deleteEntry, on a tick of runGC. *)

FolderSize(i) == Cardinality({p \in Parts : file[i][p] # "none"})
TotalBlobSize == Cardinality({f \in Ids \X Parts : file[f[1]][f[2]] # "none"})

\* The entries not used since some time.
GcAge ==
  /\ gc.step = "idle" /\ budget.gc > 0
  /\ \E n \in 0..Len(lru) : gc' = [GcIdle EXCEPT !.step = "scan", !.ids = [i \in 1..n |-> lru[i].id]]
  /\ budget' = [budget EXCEPT !.gc = @ - 1]
  /\ UNCHANGED <<saver, up, acked, fin, put, tables, reader, history>>

\* The blobs fit.
Fits(total) == total <= MaxParts

\* deleteEntry: the row, then the folder.
After(step) == CASE step = "scan" -> "row" [] step = "row" -> "folder" [] OTHER -> "scan"

\* The next of the list; after the list by age, the list by size; after that, the end.
GcNext ==
  /\ gc.step = "scan"
  /\ IF gc.ids # <<>> /\ ~(gc.size /\ Fits(gc.total))
     THEN gc' = [gc EXCEPT !.step = After(@), !.id = Head(gc.ids), !.ids = Tail(@)]
     ELSE gc' = IF gc.size \/ MaxParts = 0 THEN GcIdle ELSE [gc EXCEPT !.step = "sizes", !.ids = <<>>]
  /\ UNCHANGED <<saver, up, acked, fin, put, tables, reader, budget, history>>

GcSizes ==
  /\ gc.step = "sizes"
  /\ gc' = [gc EXCEPT !.step = "scan", !.size = TRUE, !.total = TotalBlobSize,
                      !.ids = IF Fits(TotalBlobSize) THEN <<>> ELSE [i \in DOMAIN lru |-> lru[i].id]]
  /\ UNCHANGED <<saver, up, acked, fin, put, tables, reader, budget, history>>

GcRow ==
  /\ gc.step = "row"
  /\ lru' = IF gc.id \in EntryIds THEN RemoveAt(lru, RowOf(gc.id)) ELSE lru
  /\ gc' = [gc EXCEPT !.step = After(@), !.total = IF gc.size THEN @ - FolderSize(gc.id) ELSE @]
  /\ UNCHANGED <<saver, up, acked, fin, put, upload, file, reader, budget, history>>

GcFolder ==
  /\ gc.step = "folder"
  /\ RemoveFolder(gc.id)
  /\ gc' = [gc EXCEPT !.step = After(@)]
  /\ UNCHANGED <<saver, up, acked, fin, put, upload, lru, reader, budget, promoted, raced>>

-----------------------------------------------------------------------------
(* Downloads. *)

\* matchEntry finds the entry of the key and touches it: a URL for its id is handed out.
Lookup(d) ==
  /\ reader[d].step = "lookup"
  /\ \/ EntriesFor(WantedKey[d]) = {} /\ saver # [c \in Savers |-> "create"]
        /\ reader' = [reader EXCEPT ![d].step = "miss"] /\ UNCHANGED lru
     \/ \E i \in EntriesFor(WantedKey[d]) :
          /\ reader' = [reader EXCEPT ![d].step = "open", ![d].id = lru[i].id]
          /\ lru' = Append(RemoveAt(lru, i), lru[i])
  /\ UNCHANGED <<saver, up, acked, fin, put, upload, file, gc, budget, history>>

OpenDownload(d) ==
  /\ reader[d].step = "open"
  /\ reader' = IF reader[d].id \in EntryIds
               THEN [reader EXCEPT ![d].step = "read", ![d].parts = lru[RowOf(reader[d].id)].parts]
               ELSE [reader EXCEPT ![d].step = "miss"]
  /\ UNCHANGED <<saver, up, acked, fin, put, tables, gc, budget, history>>

\* idx >= partCount.
NoPartLeft(r) == Len(r.got) = r.parts

\* partsReader: one part after another. An error ends the copy like the end of the parts: the
\* handler returns, and the client has a complete answer.
ReadPart(d) ==
  LET r == reader[d] k == Len(r.got) IN
  /\ r.step = "read"
  /\ reader' = [reader EXCEPT ![d] =
       IF NoPartLeft(r) \/ file[r.id][k] = "none" THEN [r EXCEPT !.step = "done"]
       ELSE [r EXCEPT !.got = Append(@, file[r.id][k])]]
  /\ UNCHANGED <<saver, up, acked, fin, put, tables, gc, budget, history>>

Quiet == AllOver /\ UNCHANGED vars

Finalize(c) ==
  \/ FinalizeSelect(c) \/ FinalizeCount(c) \/ FinalizeQuery(c) \/ FinalizeUpdate(c)
  \/ FinalizeInsert(c) \/ FinalizeUnlink(c) \/ FinalizeDrop(c)

Next ==
  \/ \E c \in Savers : CreateSelect(c) \/ CreateInsert(c) \/ Die(c) \/ Finalize(c)
  \/ \E x \in PutSlots : \/ \E c \in Savers, p \in Parts : PutSelect(x, c, p)
                         \/ PutStart(x) \/ PutCreate(x) \/ PutWrite(x) \/ PutFinish(x) \/ GiveUp(x)
  \/ GcAge \/ GcNext \/ GcSizes \/ GcRow \/ GcFolder
  \/ \E d \in Readers : Lookup(d) \/ OpenDownload(d) \/ ReadPart(d)
  \/ Quiet

Spec == Init /\ [][Next]_vars

-----------------------------------------------------------------------------
Whole(e) == e.parts = PartCount /\ \A p \in Parts : file[e.id][p] = "whole"

\* A cache entry is an archive, all of it: every part is on disk and written to its end.
\* The exceptions are an upload finalized by another job than its own, and one finalized while
\* a PUT of it that its client had given up was still at work (createUpload, completeUpload).
EntriesAreWhole == \A i \in DOMAIN lru : Whole(lru[i]) \/ lru[i].id \in raced

\* A download that ends well delivers the archive, unless the entry's folder was removed under
\* it by an eviction or by the next save of the key (openDownload, deleteEntry).
DownloadsWholeUnlessRemoved ==
  \A d \in Readers : LET r == reader[d] IN
    r.step = "done" => r.got = [p \in 1..PartCount |-> "whole"] \/ r.id \in removed \cup raced

\* The cache keeps archives and serves them whole.
ArchivesAreWhole == EntriesAreWhole /\ DownloadsWholeUnlessRemoved

\* "promotes the upload to a cache entry ... Returns the finalized entry id": what a saver was
\* told is saved has been a cache entry.
SavedIsPromoted == \A c \in Savers : saver[c] = "saved" => fin[c].id \in promoted

\* No key is saved twice.
KeysDiffer == \A b, c \in Savers : KeyOf[b] = KeyOf[c] => b = c

\* A step of "removes least-recently-used entries until it fits": entries fall victim to the
\* size limit one after the other, and only while the blobs of entries exceed it.
EvictionIsNeeded ==
  lru' # lru /\ gc.step = "row" /\ gc.size /\ gc.id \in EntryIds => TotalBlobSize > MaxParts
=============================================================================
