--------------------------- MODULE BackupService ---------------------------
(***************************************************************************)
(* backup/service.py over the files of one SQLite database in WAL mode:    *)
(* create_backup, restore, export_jsonl and import_jsonl, run by one       *)
(* operator (the CLI) while other processes hold connections and commit.   *)
(*                                                                         *)
(* A connection goes on with the database file and the WAL it opened, also *)
(* when they are unlinked or replaced: what it commits there nobody else   *)
(* reads.  Validation of an archive (format, hash, schema) is a step that  *)
(* succeeds or refuses; the operator may fail or be killed between any two *)
(* steps, a peer may die.                                                  *)
(***************************************************************************)
EXTENDS Naturals, Sequences, FiniteSets, SequencesExt, FiniteSetsExt

CONSTANTS
    Peer,             \* other processes, one pooled connection each
    MaxCommits,       \* bounds
    MaxOps,
    NULL

ASSUME BoundsAssumption == MaxCommits \in Nat /\ MaxOps \in Nat

VARIABLES
    file,             \* what the file at database_path holds
    wal,              \* the database after each commit in database_path-wal
    conn,             \* by peer: which files its connection has open
    archive,          \* on disk: the backups, each under its own name, and
                      \* the last export
    op,               \* the operation under way
    ops, commits,     \* how many there have been
    late,             \* commits made beside a restore, or through files that
                      \* are no longer at the path (not stored)
    marks             \* what went on that a property has to know (not stored)

vars == <<file, wal, conn, archive, op, ops, commits, late, marks>>

-----------------------------------------------------------------------------
\* What a database says: memories, one claim each under the same name, and
\* the rows of claim_versions.  The n-th commit either learns memory n or
\* gives a claim its next version; either way it writes version row n.

Commits == 1 .. MaxCommits

Version == [id: Commits, claim: Commits, number: Commits,
            status: {"accepted", "stale"}, open: BOOLEAN]

Data == [memories: SUBSET Commits,
         claims: SUBSET [id: Commits, status: {"accepted", "stale"}],
         versions: SUBSET Version]

Empty == [memories |-> {}, claims |-> {}, versions |-> {}]

RowOf(rows, id)       == CHOOSE r \in rows : r.id = id
VersionsOf(d, c)      == {v \in d.versions : v.claim = c}
OpenOf(d, c)          == {v \in VersionsOf(d, c) : v.open}
Highest(versions)     == {v \in versions : \A w \in versions : w.number <= v.number}
Upsert(rows, written) == {r \in rows : \A w \in written : w.id # r.id} \cup written
Included(d)           == {v.id : v \in d.versions}

\* Mutant: versions are numbered from 0.
LearnAtZero(d, n) ==
    [memories |-> d.memories \cup {n},
     claims   |-> d.claims \cup {[id |-> n, status |-> "accepted"]},
     versions |-> d.versions \cup
        {[id |-> n, claim |-> n, number |-> 0, status |-> "accepted", open |-> TRUE]}]

\* propose and confirm: a memory, its claim, version 1.
Learn(d, n) ==
    [memories |-> d.memories \cup {n},
     claims   |-> d.claims \cup {[id |-> n, status |-> "accepted"]},
     versions |-> d.versions \cup
        {[id |-> n, claim |-> n, number |-> 1, status |-> "accepted", open |-> TRUE]}]

\* transition: the open version of highest number is closed, the row gets
\* its status, the next version is opened.
Revise(d, c, n) ==
    LET status == IF RowOf(d.claims, c).status = "stale" THEN "accepted" ELSE "stale"
        closed == {[v EXCEPT !.open = FALSE] : v \in Highest(OpenOf(d, c))}
        next   == [id |-> n, claim |-> c, status |-> status, open |-> TRUE,
                   number |-> 1 + Max({v.number : v \in VersionsOf(d, c)})]
    IN  [memories |-> d.memories,
         claims   |-> Upsert(d.claims, {[id |-> c, status |-> status]}),
         versions |-> Upsert(d.versions, closed \cup {next})]

\* Every claim has one open version, its last, and its row says the same.
Coherent(d) ==
    \A c \in d.claims :
        /\ OpenOf(d, c.id) = Highest(VersionsOf(d, c.id))
        /\ \A v \in OpenOf(d, c.id) : v.status = c.status
        /\ OpenOf(d, c.id) # {}

\* What the schema enforces: foreign keys and uq_claim_version_number.
Intact(d) ==
    /\ \A c \in d.claims : c.id \in d.memories
    /\ \A v \in d.versions : \E c \in d.claims : c.id = v.claim
    /\ \A v, w \in d.versions :
          v.claim = w.claim /\ v.number = w.number => v.id = w.id

\* Mutant: the rows of an import are new rows.
MergeAnew(d, e) ==
    [memories |-> d.memories \cup e.memories,
     claims   |-> Upsert(e.claims, d.claims),
     versions |-> Upsert(d.versions, e.versions)]

\* import_jsonl: every record is merged over the row of its primary key.
Merge(d, e) ==
    [memories |-> d.memories \cup e.memories,
     claims   |-> Upsert(d.claims, e.claims),
     versions |-> Upsert(d.versions, e.versions)]

-----------------------------------------------------------------------------
\* Files and connections.

\* What a connection has open: nothing; the files at the path; the file at
\* the path with a WAL that was unlinked, empty or not; a replaced file.
Files == {"none", "here", "oldWal", "oldFrames", "oldFile"}

View == IF wal = << >> THEN file ELSE Last(wal)

\* restore, after its archive is validated: how far it has come.
Restoring == {"safe", "checkpointed", "copied", "bare", "replaced", "failed",
              "failedBare", "reverted"}
\* how a call of restore ended, and
Outcomes  == {"restored", "rolledBack", "lostBoth", "raised", "killed"}
\* the tables an export has read.
Exporting == {"exportedMemories", "exportedClaims"}

Idle == [at |-> "idle", data |-> Empty, before |-> Empty, rollback |-> Empty,
         replaced |-> FALSE, alone |-> TRUE]

NotAlone == [op EXCEPT !.alone = FALSE]

Ended == op.at \in {"idle"} \cup Outcomes

\* What SQLite makes of the frames of another database, or of a file that
\* was written under it, is not modelled: such a database is used no more.
Corrupt == {"torn", "stale"} \cap marks # {}

Open(p) ==
    /\ conn[p] = "none" /\ ~Corrupt
    /\ conn' = [conn EXCEPT ![p] = "here"]
    /\ marks' = IF op.at \in {"bare", "failedBare"} THEN marks \cup {"gap"} ELSE marks
    /\ UNCHANGED <<file, wal, archive, op, ops, commits, late>>

\* A transaction of a peer, in the WAL it has open.
Commit(p) ==
    LET n == commits + 1
    IN  /\ conn[p] # "none" /\ commits < MaxCommits /\ ~Corrupt
        /\ commits' = n
        /\ IF conn[p] = "here"
           THEN /\ \E data \in {Learn(View, n)} \cup {Revise(View, r.id, n) : r \in View.claims} :
                      wal' = Append(wal, data)
                /\ UNCHANGED conn
           ELSE /\ conn' = [q \in Peer |-> IF conn[q] = "oldWal" /\ conn[p] # "oldFile"
                                          THEN "oldFrames" ELSE conn[q]]
                /\ UNCHANGED wal
        /\ late' = IF op.at \in Restoring \/ conn[p] # "here" THEN late \cup {n} ELSE late
        /\ op' = IF Ended THEN Idle ELSE NotAlone
        /\ UNCHANGED <<file, archive, ops, marks>>

\* The last connection to a database file copies its WAL into it, a WAL that
\* was unlinked too.
Close(p) ==
    LET last == /\ op.at \notin {"safe"} \cup Exporting
                /\ \A q \in Peer \ {p} : conn[q] \in {"none", "oldFile"}
    IN  /\ conn[p] # "none"
        /\ conn' = [conn EXCEPT ![p] = "none"]
        /\ IF last /\ conn[p] = "here" THEN file' = View /\ wal' = << >>
           ELSE UNCHANGED <<file, wal>>
        /\ marks' = IF last /\ conn[p] = "oldFrames" THEN marks \cup {"stale"} ELSE marks
        /\ UNCHANGED <<archive, op, ops, commits, late>>

\* A peer dies: its frames stay in the WAL.
Crash(p) ==
    /\ conn[p] # "none"
    /\ conn' = [conn EXCEPT ![p] = "none"]
    /\ UNCHANGED <<file, wal, archive, op, ops, commits, late, marks>>

-----------------------------------------------------------------------------
\* create_backup, alone and as the first step of restore: the sqlite backup
\* API copies one snapshot, WAL included.

Begin ==
    /\ Ended /\ ~Corrupt
    /\ ops < MaxOps
    /\ ops' = ops + 1

\* Mutant: the database file is copied.
SnapshotOfFile == file

Snapshot == View

CreateBackup ==
    /\ Begin
    /\ archive' = [archive EXCEPT !.backups = @ \cup {Snapshot}]
    /\ op' = Idle
    /\ UNCHANGED <<file, wal, conn, commits, late, marks>>

\* restore: the archive is validated in a staging directory (or refused,
\* nothing done), the safety copy is made.
Safeguard ==
    /\ Begin
    /\ \E data \in archive.backups :
          op' = [Idle EXCEPT !.at = "safe", !.data = data, !.before = View]
    /\ archive' = [archive EXCEPT !.backups = @ \cup {Snapshot}]
    /\ UNCHANGED <<file, wal, conn, commits, late, marks>>

\* checkpoint and close.  With another connection in a transaction the
\* checkpoint stops at a prefix of the WAL; its answer is not read.
Checkpoint ==
    /\ op.at = "safe"
    /\ \/ /\ file' = View /\ wal' = << >>
          /\ op' = [op EXCEPT !.at = "checkpointed"]
       \/ /\ \E q \in Peer : conn[q] = "here"
          /\ \E k \in 0 .. Len(wal) - 1 : file' = IF k = 0 THEN file ELSE wal[k]
          /\ op' = [NotAlone EXCEPT !.at = "checkpointed"]
          /\ UNCHANGED wal
    /\ UNCHANGED <<conn, archive, ops, commits, late, marks>>

\* The rollback copy is of the database file.
CopyRollback ==
    /\ op.at = "checkpointed"
    /\ op' = [op EXCEPT !.at = "copied", !.rollback = file]
    /\ UNCHANGED <<file, wal, conn, archive, ops, commits, late, marks>>

\* Mutant: the sidecars stay.
KeepSidecars(from, to) ==
    /\ op.at = from
    /\ op' = [op EXCEPT !.at = to]
    /\ UNCHANGED <<file, wal, conn, archive, ops, commits, late, marks>>

\* _remove_database_sidecars.
RemoveSidecars(from, to) ==
    /\ op.at = from
    /\ op' = [op EXCEPT !.at = to]
    /\ wal' = << >>
    /\ conn' = [q \in Peer |-> IF conn[q] # "here" THEN conn[q]
                              ELSE IF wal = << >> THEN "oldWal" ELSE "oldFrames"]
    /\ UNCHANGED <<file, archive, ops, commits, late, marks>>

\* os.replace: another file at database_path.  A WAL beside it, with frames
\* or with a writer, is now taken for its own.
Replace(from, to, data) ==
    /\ op.at = from
    /\ op' = [op EXCEPT !.at = to, !.replaced = TRUE]
    /\ file' = data
    /\ conn' = [q \in Peer |-> IF conn[q] = "none" THEN "none" ELSE "oldFile"]
    /\ marks' = IF wal # << >> \/ \E q \in Peer : conn[q] = "here"
                THEN marks \cup {"torn"} ELSE marks
    /\ UNCHANGED <<wal, archive, ops, commits, late>>

End(how) ==
    /\ op' = [op EXCEPT !.at = how]
    /\ UNCHANGED <<file, wal, conn, archive, ops, commits, late, marks>>

\* initialize of the restored database.
Initialize == op.at = "replaced" /\ End("restored")

\* An exception in any step from the copy on: close, then the handler.
Fail == op.at \in {"checkpointed", "copied", "bare", "replaced"} /\ End("failed")

\* Mutant: the handler only initializes.
RevertForgotten == op.at = "failedBare" /\ End("reverted")

\* Only a replaced database is reverted; the rollback file is moved, which
\* may fail again and leave the restored file, its copy deleted.
Revert == Replace("failedBare", "reverted", op.rollback)

RevertFails == op.at = "failedBare" /\ End("raised")

\* The handler initializes whichever database is at the path.
Reinitialize ==
    /\ op.at = "reverted" \/ (op.at = "failed" /\ ~op.replaced)
    /\ End("rolledBack") \/ End("lostBoth")

Kill == op.at \in Restoring /\ End("killed")

Restore ==
    \/ Safeguard \/ Checkpoint \/ CopyRollback
    \/ RemoveSidecars("copied", "bare")
    \/ Replace("bare", "replaced", op.data)
    \/ Initialize \/ Fail
    \/ op.replaced /\ RemoveSidecars("failed", "failedBare")
    \/ Revert \/ RevertFails \/ Reinitialize \/ Kill

-----------------------------------------------------------------------------
\* export_jsonl and import_jsonl.

\* _write_jsonl_records: one select after the other, and no transaction.
ExportMemories ==
    /\ Begin
    /\ op' = [Idle EXCEPT !.at = "exportedMemories", !.data.memories = View.memories]
    /\ UNCHANGED <<file, wal, conn, archive, commits, late, marks>>

ExportClaims ==
    /\ op.at = "exportedMemories"
    /\ op' = [op EXCEPT !.at = "exportedClaims", !.data.claims = View.claims]
    /\ UNCHANGED <<file, wal, conn, archive, ops, commits, late, marks>>

VersionRows(d) == d.versions

ExportVersions ==
    /\ op.at = "exportedClaims"
    /\ archive' = [archive EXCEPT
           !.export = [data |-> [op.data EXCEPT !.versions = VersionRows(View)],
                       alone |-> op.alone]]
    /\ op' = Idle
    /\ UNCHANGED <<file, wal, conn, ops, commits, late, marks>>

ExportFails ==
    /\ op.at \in Exporting
    /\ op' = Idle
    /\ UNCHANGED <<file, wal, conn, archive, ops, commits, late, marks>>

\* The database has versions of an archived claim that the archive has not.
GoesBack(d, e) ==
    \E v \in d.versions : v.id \notin Included(e) /\ \E c \in e.claims : c.id = v.claim

\* One transaction, refused whole when a constraint fails.
ImportJsonl ==
    /\ Begin
    /\ archive.export # NULL
    /\ LET e == archive.export.data
           d == Merge(View, e)
       IN  IF ~Intact(d) THEN UNCHANGED <<file, wal, marks>>
           ELSE /\ marks' = IF GoesBack(View, e) \/ ~archive.export.alone
                            THEN marks \cup {"merge"} ELSE marks
                /\ IF \E q \in Peer : conn[q] = "here"
                   THEN wal' = Append(wal, d) /\ UNCHANGED file
                   ELSE file' = d /\ wal' = << >>
    /\ op' = Idle
    /\ UNCHANGED <<conn, archive, commits, late>>

-----------------------------------------------------------------------------
\* A new database, and its first backup.
Init ==
    /\ file = Empty /\ wal = << >>
    /\ conn = [p \in Peer |-> "none"]
    /\ archive = [backups |-> {Empty}, export |-> NULL]
    /\ op = Idle /\ ops = 0 /\ commits = 0
    /\ late = {} /\ marks = {}

Next ==
    \/ \E p \in Peer : Open(p) \/ Commit(p) \/ Close(p) \/ Crash(p)
    \/ CreateBackup \/ Restore
    \/ ExportMemories \/ ExportClaims \/ ExportVersions \/ ExportFails
    \/ ImportJsonl

Spec == Init /\ [][Next]_vars

-----------------------------------------------------------------------------
\* Files, archives and staged data are databases, and an operation is at one
\* of its steps.
TypeOK ==
    /\ file \in Data /\ wal \in Seq(Data)
    /\ conn \in [Peer -> Files]
    /\ archive.backups \subseteq Data
    /\ archive.export \in {NULL} \cup [data: Data, alone: BOOLEAN]
    /\ op \in [at: {"idle"} \cup Restoring \cup Outcomes \cup Exporting,
               data: Data, before: Data, rollback: Data,
               replaced: BOOLEAN, alone: BOOLEAN]
    /\ ops \in 0 .. MaxOps /\ commits \in 0 .. MaxCommits
    /\ late \subseteq Commits /\ marks \subseteq {"gap", "torn", "stale", "merge"}

\* No process has connected in the moment without a WAL and none has
\* written a WAL that was unlinked over the database.
OneWal == {"gap", "stale"} \cap marks = {}

\* However a call of restore ends, by success, by an error at any step or by
\* a kill, the database at the path is the archived one or the one there was
\* before, whole; it is the archived one when the call returns and the
\* earlier one when it says the database was rolled back.  This is promised
\* to an operator who is alone: no commit and no transaction that holds
\* the checkpoint up.
RestoreIsAtomic ==
    OneWal /\ op.at \in Outcomes /\ op.alone =>
        /\ View \in {op.data, op.before}
        /\ op.at = "restored" => View = op.data
        /\ op.at = "rolledBack" => View = op.before

\* No commit disappears for good: what the database no longer has is in one
\* of the backups, the safety copy of the restore that discarded it among
\* them, unless the commit was made beside a restore or by a connection
\* that had kept the files of an earlier one.
DiscardedIsSafe ==
    OneWal =>
        \A n \in 1 .. commits :
            n \in late \cup Included(View) \cup UNION {Included(d) : d \in archive.backups}

\* A database never gets the WAL of another one beside it, unless a process
\* connected in the moment between the removal of the sidecars and the
\* replacement of the file.
TornOnlyByGap == "torn" \in marks => "gap" \in marks

\* In the database, in every backup and in every export that had no commit
\* between its reads a claim has one open version, its last, that agrees
\* with its row; so also after any sequence of backups, restores and imports
\* in which no import took an older archive over newer versions.
HistoriesStayWhole ==
    marks = {} =>
        /\ Coherent(View)
        /\ \A d \in archive.backups : Coherent(d)
        /\ archive.export # NULL /\ archive.export.alone =>
              Coherent(archive.export.data) /\ Intact(archive.export.data)

\* "Old versions only close transaction_to, their content is not changed in
\* place": an import opens no version that was closed.
ImportReopensNothing ==
    [][ImportJsonl /\ archive.export.alone =>
         \A v \in View.versions : ~v.open =>
            \A w \in View'.versions : w.id = v.id => ~w.open]_vars
=============================================================================
