---------------------------- MODULE MemorySearch ----------------------------
(***************************************************************************)
(* A search of MemoryOS (retrieval/search.py, retrieval/ann.py and         *)
(* retrieval_v2) while other processes confirm, forget, archive, search    *)
(* and restore a backup.  A search is a chain of SELECTs in three database *)
(* sessions, each of which sees the last commit, around a nearest-neighbour *)
(* index in a file of its own.  The index commits apart from the database; *)
(* a search trusts it when it has as many entries as the database has      *)
(* vectors, and fills it anew when it has not.                             *)
(*                                                                         *)
(* One query is asked, of the present.  Scores, validity, scopes, the      *)
(* freshness of claims and the telemetry a search writes (health,          *)
(* ann_index_state and retrieval_runs rows) are left out; a search those   *)
(* writes fail is one that is abandoned.  Who is cut off by a limit is     *)
(* decided by scores, so it may be anybody; the page cut from the final    *)
(* ranking is left out.                                                    *)
(***************************************************************************)
EXTENDS Naturals, FiniteSets

CONSTANTS
    Process,          \* the processes that search and confirm
    Memory,
    Worded,           \* the memories whose text has the words of the query
    Related,          \* the memories the graph channel reaches from it
    Replaces,         \* what a memory supersedes when it is confirmed, or NULL
    Forgettable, Archivable,   \* the active memories this happens to
    Limits,           \* the limits of the requests, as the pipeline sets them
    WordPool,         \* by limit: max(200, limit * 8), of those with the words
    VectorPool,       \* by limit: max(1000, limit * 50), of the vectors
    MaxSearches, MaxChanges, MaxCrashes, MaxRestores, MaxUpsets,
    NULL

ASSUME MemoryAssumption ==
    /\ IsFiniteSet(Memory)
    /\ Worded \subseteq Memory
    /\ Related \subseteq Memory
    /\ Forgettable \subseteq Memory /\ Archivable \subseteq Memory
    /\ Replaces \in [Memory -> Memory \cup {NULL}]

ASSUME LimitAssumption ==
    /\ Limits \subseteq Nat \ {0}
    /\ WordPool \in [Limits -> Nat \ {0}]
    /\ VectorPool \in [Limits -> Nat \ {0}]

ASSUME NullAssumption == NULL \notin Memory /\ NULL \notin Limits

ASSUME BoundAssumption ==
    {MaxSearches, MaxChanges, MaxCrashes, MaxRestores, MaxUpsets} \subseteq Nat

VARIABLES
    db,               \* the database's last commit
    present,          \* the index file exists
    file,             \* its entries
    conn,             \* the index connection of each process
    held,             \* what a connection still reads whose file was removed
    task,             \* the call each process is in
    parted,           \* the index may hold what the database lost (not stored)
    restoring,        \* a restore has removed the index, not yet replaced db
    spent             \* searches, changes, crashes and restores so far

index == <<present, file, conn, held, parted>>
vars  == <<db, index, task, restoring, spent>>

-----------------------------------------------------------------------------
\* Memories that are candidate or active, those archived, the embedding rows.
Database == [candidate: SUBSET Memory, active: SUBSET Memory,
             archived: SUBSET Memory, vectors: SUBSET Memory]

Empty == [candidate |-> Memory, active |-> {}, archived |-> {}, vectors |-> {}]

\* What a search that does not ask for history may return.
Current(d) == d.active \ d.archived

Indexing  == {"embed", "upsert", "state"}
Searching == {"expect", "count", "clear", "load", "fill", "scan", "exact", "rows",
              "channels", "govern", "record"}

Task == [at: {"idle"} \cup Indexing \cup Searching,
         memory: Memory \cup {NULL},   \* the one index_memory embeds
         limit: Limits \cup {NULL},
         text: SUBSET Memory,          \* found by the words
         expected: SUBSET Memory,      \* the vectors the search has counted
         loaded: SUBSET Memory,        \* the vectors a rebuild has read
         semantic: SUBSET Memory,      \* found by the vector
         mode: {"fts", "ann", "exact"},
         items: SUBSET Memory,         \* the candidates, finally the answer
         cut: BOOLEAN,                 \* there were more candidates than the limit
         alone: BOOLEAN,               \* no other process was at the index
         trusted: BOOLEAN,             \* the index read was in place and whole
         seen: SUBSET Memory,          \* current at a moment of the search
         kept: SUBSET Memory]          \* current at every moment of it

Idle == [at |-> "idle", memory |-> NULL, limit |-> NULL, text |-> {}, expected |-> {}, loaded |-> {},
         semantic |-> {}, mode |-> "fts", items |-> {}, cut |-> FALSE, alone |-> TRUE,
         trusted |-> TRUE, seen |-> {}, kept |-> {}]

TypeOK ==
    /\ db \in Database
    /\ present \in BOOLEAN
    /\ file \in SUBSET Memory
    /\ conn \in [Process -> {"unopened", "open", "moved", "closed"}]
    /\ held \in [Process -> SUBSET Memory]
    /\ task \in [Process -> Task]
    /\ parted \in BOOLEAN
    /\ restoring \in BOOLEAN
    /\ spent \in [searches: 0 .. MaxSearches, changes: 0 .. MaxChanges, crashes: 0 .. MaxCrashes,
                  restores: 0 .. MaxRestores]
    /\ \A p \in Process : conn[p] = "open" => present

-----------------------------------------------------------------------------
\* SQLite's write lock is with the index_memory that has flushed its row.
Locked == \E p \in Process : task[p].at \in {"upsert", "state"}

\* What the searches under way have seen once the database is d.
Watching(d) ==
    [p \in Process |->
        IF task[p].at \in Searching
        THEN [task[p] EXCEPT !.seen = @ \cup Current(d), !.kept = @ \cap Current(d)]
        ELSE task[p]]

\* The tasks once process p has written to the index or added a vector.
Disturbing(p, tasks) ==
    [q \in Process |-> IF q = p THEN tasks[q] ELSE [tasks[q] EXCEPT !.alone = FALSE]]

\* A process is between two writes that belong together.
Unfinished(p) == task[p].at \in {"state", "load", "fill"}

Goes(p, stage) == task' = [task EXCEPT ![p].at = stage]

\* What the connection of a process reads.
Content(p) == IF conn[p] = "open" THEN file ELSE held[p]

\* Writing needs the file in its place; reading goes on without it.
Readable(p) == conn[p] \in {"open", "moved"}

\* The bound on changes, crashes and restores together.
MayUpset == spent.changes + spent.crashes + spent.restores < MaxUpsets

-----------------------------------------------------------------------------
\* The calls that change what a search may return.

Commit(d) ==
    /\ ~Locked
    /\ db' = d
    /\ UNCHANGED <<index, restoring>>

Confirm(p, m) ==
    /\ task[p].at = "idle"
    /\ m \in db.candidate
    /\ LET d == [db EXCEPT !.candidate = @ \ {m},
                           !.active = (@ \ {Replaces[m]}) \cup {m}]
       IN  /\ Commit(d)
           /\ task' = [Watching(d) EXCEPT ![p].at = "embed", ![p].memory = m]
    /\ UNCHANGED spent

Change(d) ==
    /\ spent.changes < MaxChanges /\ MayUpset
    /\ Commit(d)
    /\ task' = Watching(d)
    /\ spent' = [spent EXCEPT !.changes = @ + 1]

Forget(m) ==
    /\ m \in db.active \cap Forgettable
    /\ Change([db EXCEPT !.active = @ \ {m}])

Archive(m) ==
    /\ m \in (db.active \ db.archived) \cap Archivable
    /\ Change([db EXCEPT !.archived = @ \cup {m}])

-----------------------------------------------------------------------------
\* index_memory, after the commit that made the memory active.

\* The provider answers and the flush takes the write lock.
Embed(p) ==
    /\ task[p].at = "embed"
    /\ ~Locked
    /\ Goes(p, "upsert")
    /\ UNCHANGED <<db, index, restoring, spent>>

\* The entry is committed to the index file before the row is to the database.
Upsert(p) ==
    /\ task[p].at = "upsert"
    /\ conn[p] \in {"unopened", "open"}
    /\ conn' = [conn EXCEPT ![p] = "open"]
    /\ present' = TRUE
    /\ file' = file \cup {task[p].memory}
    /\ task' = Disturbing(p, [task EXCEPT ![p].at = "state"])
    /\ UNCHANGED <<db, held, parted, restoring, spent>>

\* _mark_unavailable: the connection is given up, the row is written all the same.
UpsertFails(p) ==
    /\ task[p].at = "upsert"
    /\ conn' = [conn EXCEPT ![p] = "closed"]
    /\ Goes(p, "state")
    /\ UNCHANGED <<db, present, file, held, parted, restoring, spent>>

CommitVector(p) ==
    /\ task[p].at = "state"
    /\ db' = [db EXCEPT !.vectors = @ \cup {task[p].memory}]
    /\ task' = Disturbing(p, [task EXCEPT ![p] = Idle])
    /\ UNCHANGED <<index, restoring, spent>>

-----------------------------------------------------------------------------
\* A search: the baseline, which ends with "rows", the channels, the pipeline.

\* What is ranked first is kept when there are more than k.
Nearest(k, entries) ==
    IF Cardinality(entries) <= k THEN {entries}
    ELSE {found \in SUBSET entries : Cardinality(found) = k}

\* The words are looked up first.
Search(p) ==
    /\ task[p].at = "idle"
    /\ spent.searches < MaxSearches
    /\ \E limit \in Limits : \E found \in Nearest(WordPool[limit], Worded \cap Current(db)) :
          task' = [task EXCEPT ![p] =
             [Idle EXCEPT !.at = "expect", !.limit = limit, !.text = found,
                          !.seen = Current(db), !.kept = Current(db)]]
    /\ spent' = [spent EXCEPT !.searches = @ + 1]
    /\ UNCHANGED <<db, index, restoring>>

\* ProviderError: the words have to do.
EmbedFails(p) ==
    /\ task[p].at \in {"embed", "expect"}
    /\ task' = IF task[p].at = "embed" THEN [task EXCEPT ![p] = Idle]
                                       ELSE [task EXCEPT ![p].at = "rows"]
    /\ UNCHANGED <<db, index, restoring, spent>>

\* _semantic_search opens the index at its first use and counts the vectors.
Expect(p) ==
    /\ task[p].at = "expect"
    /\ conn[p] # "closed"
    /\ IF conn[p] = "unopened"
       THEN conn' = [conn EXCEPT ![p] = "open"] /\ present' = TRUE
       ELSE UNCHANGED <<conn, present>>
    /\ task' = [task EXCEPT ![p].at = "count", ![p].expected = db.vectors,
                            ![p].alone = \A q \in Process \ {p} : ~Unfinished(q)]
    /\ UNCHANGED <<db, file, held, parted, restoring, spent>>

\* Mutant: an index that has entries is taken as it is.
StaleIfEmpty(entries, expected) == entries = {} /\ expected # {}

\* indexed_count != expected
Stale(entries, expected) == Cardinality(entries) # Cardinality(expected)

Count(p) ==
    /\ task[p].at = "count"
    /\ Readable(p)
    /\ Goes(p, IF Stale(Content(p), task[p].expected) THEN "clear" ELSE "scan")
    /\ UNCHANGED <<db, index, restoring, spent>>

\* _rebuild_namespace: two commits of the index around a SELECT of the database.
Clear(p) ==
    /\ task[p].at = "clear"
    /\ conn[p] = "open"
    /\ file' = {}
    /\ parted' = FALSE
    /\ task' = Disturbing(p, [task EXCEPT ![p].at = "load"])
    /\ UNCHANGED <<db, present, conn, held, restoring, spent>>

Load(p) ==
    /\ task[p].at = "load"
    /\ task' = [task EXCEPT ![p].at = "fill", ![p].loaded = db.vectors]
    /\ UNCHANGED <<db, index, restoring, spent>>

Fill(p) ==
    /\ task[p].at = "fill"
    /\ conn[p] = "open"
    /\ file' = file \cup task[p].loaded
    /\ task' = Disturbing(p, [task EXCEPT ![p].at = "scan", ![p].loaded = {}])
    /\ UNCHANGED <<db, present, conn, held, parted, restoring, spent>>

\* min(limit, max(1, expected)), where limit is the pool of the request's limit.
Limit(pool, expected) ==
    LET counted == IF expected = {} THEN 1 ELSE Cardinality(expected)
    IN  IF pool <= counted THEN pool ELSE counted

Scan(p) ==
    /\ task[p].at = "scan"
    /\ Readable(p)
    /\ \E found \in Nearest(Limit(VectorPool[task[p].limit], task[p].expected), Content(p)) :
          task' = [task EXCEPT ![p].at = "rows", ![p].mode = "ann", ![p].semantic = found,
                               ![p].trusted = (conn[p] = "open" /\ ~parted)]
    /\ UNCHANGED <<db, index, restoring, spent>>

\* The index cannot be opened, or an operation on it fails, which a write to a
\* file that was removed always does: _mark_unavailable, for as long as the
\* process lives.
Break(p) ==
    /\ \/ task[p].at \in {"count", "clear", "fill", "scan"}
       \/ task[p].at = "expect" /\ conn[p] \in {"unopened", "closed"}
    /\ conn' = [conn EXCEPT ![p] = "closed"]
    /\ task' = [task EXCEPT ![p].at = "exact"]
    /\ UNCHANGED <<db, present, file, held, parted, restoring, spent>>

\* ExactVectorIndex reads the rows themselves, and is asked for as many of them
\* as the index would be.
Exact(p) ==
    /\ task[p].at = "exact"
    /\ \E found \in Nearest(VectorPool[task[p].limit], db.vectors) :
          task' = [task EXCEPT ![p].at = "rows", ![p].mode = "exact",
                               ![p].expected = db.vectors, ![p].semantic = found]
    /\ UNCHANGED <<db, index, restoring, spent>>

\* Mutant: what was found is loaded by its id.
AdmittedById(found) == found \ db.archived

\* The statement that loads the rows judges status and archive once more, as
\* the index knows neither, and so does the graph channel.
Admitted(found) == found \cap Current(db)

Rows(p) ==
    /\ task[p].at = "rows"
    /\ LET ranked == Admitted(task[p].text \cup task[p].semantic)
       IN  \E page \in Nearest(task[p].limit, ranked) :
              task' = [task EXCEPT ![p].at = "channels", ![p].semantic = {},
                                   ![p].items = page, ![p].cut = (page # ranked)]
    /\ UNCHANGED <<db, index, restoring, spent>>

Channels(p) ==
    /\ task[p].at = "channels"
    /\ task' = [task EXCEPT ![p].at = "govern", ![p].items = @ \cup Admitted(Related)]
    /\ UNCHANGED <<db, index, restoring, spent>>

\* The third session leaves out what has been archived by now.
Govern(p) ==
    /\ task[p].at = "govern"
    /\ task' = [task EXCEPT ![p].at = "record", ![p].items = @ \ db.archived]
    /\ UNCHANGED <<db, index, restoring, spent>>

\* The run is recorded and the answer given.
Record(p) ==
    /\ task[p].at = "record"
    /\ ~Locked
    /\ task' = [task EXCEPT ![p] = Idle]
    /\ UNCHANGED <<db, index, restoring, spent>>

-----------------------------------------------------------------------------
\* Failures and restores.

\* A call ends with an exception, or its process dies and starts again.  An
\* entry written to the index stays there, its row does not.
Crash(p, restarts) ==
    /\ spent.crashes < MaxCrashes /\ MayUpset
    /\ task[p].at # "idle" \/ restarts
    /\ parted' = (parted \/ (task[p].at = "state" /\ conn[p] = "open"))
    /\ IF restarts THEN /\ conn' = [conn EXCEPT ![p] = "unopened"]
                        /\ held' = [held EXCEPT ![p] = {}]
                   ELSE UNCHANGED <<conn, held>>
    /\ task' = [task EXCEPT ![p] = Idle]
    /\ spent' = [spent EXCEPT !.crashes = @ + 1]
    /\ UNCHANGED <<db, present, file, restoring>>

\* Mutant: the connections are thought to follow the file.
DetachedNobody == conn

\* _invalidate_ann_cache unlinks the index; who has it open keeps reading it.
Detached == [p \in Process |-> IF conn[p] = "open" THEN "moved" ELSE conn[p]]

Invalidate ==
    /\ ~restoring
    /\ spent.restores < MaxRestores /\ MayUpset
    /\ restoring' = TRUE
    /\ present' = FALSE
    /\ file' = {}
    /\ conn' = Detached
    /\ held' = [p \in Process |-> IF conn[p] = "open" THEN file ELSE held[p]]
    /\ parted' = FALSE
    /\ spent' = [spent EXCEPT !.restores = @ + 1]
    /\ UNCHANGED <<db, task>>

\* The database is replaced by the backup of before the first confirm.  What
\* happens to the sessions it is taken from is in BackupService.
Replace ==
    /\ restoring
    /\ \A p \in Process : task[p].at \in {"idle", "embed"}
    /\ restoring' = FALSE
    /\ db' = Empty
    /\ parted' = present
    /\ UNCHANGED <<present, file, conn, held, task, spent>>

Init ==
    /\ db = Empty
    /\ present = FALSE
    /\ file = {}
    /\ conn = [p \in Process |-> "unopened"]
    /\ held = [p \in Process |-> {}]
    /\ task = [p \in Process |-> Idle]
    /\ parted = FALSE
    /\ restoring = FALSE
    /\ spent = [searches |-> 0, changes |-> 0, crashes |-> 0, restores |-> 0]

Next ==
    \/ \E m \in Memory :
          \/ \E p \in Process : Confirm(p, m)
          \/ Forget(m) \/ Archive(m)
    \/ \E p \in Process :
          \/ Embed(p) \/ Upsert(p) \/ UpsertFails(p) \/ CommitVector(p)
          \/ Search(p) \/ EmbedFails(p) \/ Expect(p) \/ Count(p)
          \/ Clear(p) \/ Load(p) \/ Fill(p) \/ Scan(p) \/ Break(p) \/ Exact(p)
          \/ Rows(p) \/ Channels(p) \/ Govern(p) \/ Record(p)
          \/ \E restarts \in BOOLEAN : Crash(p, restarts)
    \/ Invalidate \/ Replace

Spec == Init /\ [][Next]_vars

-----------------------------------------------------------------------------

\* Every memory a search answers was active and not archived at one moment of
\* the search: the index still has what was superseded or forgotten, and the
\* words and the index are read before the rows are.
AnswerWasCurrent ==
    \A p \in Process : task[p].at = "record" => task[p].items \subseteq task[p].seen

\* What a search has found and no limit has cut.
Unlimited(t) == ~t.cut /\ Cardinality(t.expected) <= VectorPool[t.limit]

\* What stays current from the first read of a search to its answer is in the
\* answer if the words found it, provided that there were no more candidates
\* than the limit; and also if it had a vector when the vectors were counted,
\* provided that these were no more than are asked for - unless another
\* process was writing to the index meanwhile, or the index was not the
\* database's: removed by a restore and still open, or with an entry whose row
\* was lost and not refilled since.
AnswerIsComplete ==
    \A p \in Process :
        LET t == task[p]
        IN  t.at = "record" =>
               /\ ~t.cut => t.text \cap t.kept \subseteq t.items
               /\ (t.mode # "fts" /\ Unlimited(t) /\ t.alone /\ t.trusted)
                     => t.expected \cap t.kept \subseteq t.items

\* What docs/DEVELOPMENT_PROBLEMS_RETROSPECTIVE.md (C14) says: restore and
\* import always invalidate the index and have it built anew, so that a search
\* which nobody disturbs misses no vector because of one.  Does not hold.
RestoreRebuildsIndex ==
    \A p \in Process :
        LET t == task[p]
        IN  (t.at = "record" /\ t.mode = "ann" /\ Unlimited(t) /\ t.alone)
               => t.expected \cap t.kept \subseteq t.items
=============================================================================
