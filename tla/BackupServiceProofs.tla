------------------------ MODULE BackupServiceProofs ------------------------
(***************************************************************************)
(* What restore promises, for every number of peers, commits and calls:    *)
(* it is atomic, it discards nothing that is not in a backup, and it sets  *)
(* no database beside the WAL of another.  And what export and import do   *)
(* to the histories: no row is ever used for two versions, every claim     *)
(* keeps a highest version, and, while no archive was merged over later    *)
(* versions, that is its one open version and says what its row says.      *)
(***************************************************************************)
EXTENDS BackupService, SequenceTheorems, TLAPS

-----------------------------------------------------------------------------
\* The inductive invariant.

Shapes ==
    /\ conn \in [Peer -> Files]
    /\ op = [at |-> op.at, data |-> op.data, before |-> op.before,
             rollback |-> op.rollback, replaced |-> op.replaced, alone |-> op.alone]
    /\ archive = [backups |-> archive.backups, export |-> archive.export]
    /\ commits \in Nat
    /\ \E S : wal \in Seq(S)

\* Until a process connects in the moment without a WAL there is none, and
\* no connection to the files at the path.
NoWal ==
    op.at \in {"bare", "failedBare"} /\ "gap" \notin marks =>
        wal = << >> /\ \A q \in Peer : conn[q] # "here"

\* Where an undisturbed restore has brought the files.
Untouched == file = op.before /\ wal = << >>
Staged    == file = op.data /\ wal = << >> /\ op.rollback = op.before

Progress ==
    OneWal /\ op.alone =>
        /\ op.at = "safe" => View = op.before /\ ~op.replaced
        /\ op.at = "checkpointed" => Untouched /\ ~op.replaced
        /\ op.at \in {"copied", "bare"} =>
              Untouched /\ ~op.replaced /\ op.rollback = op.before
        /\ op.at = "replaced" => Staged /\ op.replaced
        /\ op.at = "failed" => IF op.replaced THEN Staged ELSE Untouched
        /\ op.at = "failedBare" => Staged
        /\ op.at = "reverted" => Untouched

\* While restore works, every commit there was is in a backup: the commits it
\* found are in its safety copy, the others are late.
Backed == late \cup UNION {Included(d) : d \in archive.backups}
Kept ==
    OneWal =>
        /\ 1 .. commits \subseteq Backed \cup Included(View)
        /\ op.at \in Restoring => 1 .. commits \subseteq Backed

Inv == Shapes /\ NoWal /\ TornOnlyByGap /\ Progress /\ RestoreIsAtomic /\ Kept

-----------------------------------------------------------------------------
\* Closing the last connection moves the WAL into the file and changes
\* nothing that is read.
LEMMA CloseReads ==
    ASSUME NEW p \in Peer, Close(p)
    PROVE  /\ View' = View
           /\ wal = << >> => wal' = << >> /\ file' = file
<1> DEFINE moved == conn[p] = "here" /\ op.at \notin {"safe"} \cup Exporting
                    /\ \A q \in Peer \ {p} : conn[q] \in {"none", "oldFile"}
<1>1. CASE moved
  <2>1. file' = View /\ wal' = << >>  BY <1>1 DEF Close
  <2> QED  BY <2>1 DEF View
<1>2. CASE ~moved
  <2>1. file' = file /\ wal' = wal  BY <1>2 DEF Close
  <2> QED  BY <2>1 DEF View
<1> QED  BY <1>1, <1>2

\* What is appended to the WAL is what is read.
LEMMA AppendReads ==
    ASSUME \E S : wal \in Seq(S), NEW data, wal' = Append(wal, data)
    PROVE  (\E S : wal' \in Seq(S)) /\ View' = data
<1>1. PICK S : wal \in Seq(S)  OBVIOUS
<1>2. wal \in Seq(S \cup {data})  BY <1>1
<1>3. /\ wal' \in Seq(S \cup {data}) /\ Len(wal') = Len(wal) + 1
      /\ wal'[Len(wal')] = data /\ wal' # << >>
  BY <1>2, AppendProperties
<1> QED  BY <1>3 DEF View, Last

\* Rows that are written over others keep their names.
LEMMA UpsertKeepsIds ==
    ASSUME NEW rows, NEW written
    PROVE  {r.id : r \in rows} \cup {r.id : r \in written}
              = {r.id : r \in Upsert(rows, written)}
BY DEF Upsert

\* A commit adds its row to those the database has, and takes none away.
LEMMA LearnIncludes ==
    ASSUME NEW d, NEW n
    PROVE  Included(Learn(d, n)) = Included(d) \cup {n}
<1> DEFINE row == [id |-> n, claim |-> n, number |-> 1, status |-> "accepted",
                   open |-> TRUE]
<1>1. Learn(d, n).versions = d.versions \cup {row} /\ row.id = n
  BY DEF Learn
<1> HIDE DEF row
<1> QED  BY <1>1 DEF Included

LEMMA ReviseIncludes ==
    ASSUME NEW d, NEW c, NEW n
    PROVE  Included(d) \cup {n} \subseteq Included(Revise(d, c, n))
<1> DEFINE status == IF RowOf(d.claims, c).status = "stale" THEN "accepted" ELSE "stale"
           closed == {[v EXCEPT !.open = FALSE] : v \in Highest(OpenOf(d, c))}
           number == 1 + Max({v.number : v \in VersionsOf(d, c)})
           next   == [id |-> n, claim |-> c, status |-> status, open |-> TRUE,
                      number |-> number]
<1>1. Revise(d, c, n).versions = Upsert(d.versions, closed \cup {next})
  <2> HIDE DEF status, closed, number
  <2> QED  BY DEF Revise, status, closed, number
<1>2. next.id = n
  <2> HIDE DEF status, number
  <2> QED  OBVIOUS
<1> HIDE DEF closed, next
<1>3. {r.id : r \in d.versions} \cup {r.id : r \in closed \cup {next}}
        = {r.id : r \in Upsert(d.versions, closed \cup {next})}
  BY UpsertKeepsIds
<1> QED  BY <1>1, <1>2, <1>3 DEF Included

\* An import takes no row away.
LEMMA MergeIncludes ==
    ASSUME NEW d, NEW e
    PROVE  Included(d) \subseteq Included(Merge(d, e))
BY UpsertKeepsIds DEF Merge, Included

-----------------------------------------------------------------------------
\* The steps.

LEMMA InitInv == Init => Inv
<1>1. << >> \in Seq({})  OBVIOUS
<1> QED
  BY <1>1 DEF Init, Inv, Shapes, NoWal, TornOnlyByGap, Progress, RestoreIsAtomic, Kept,
         Idle, Files, Outcomes, Restoring, Empty, View, Included

\* A step that leaves what is read and what is stored alone.
LEMMA StutterKeeps ==
    ASSUME Inv, View' = View, wal = << >> => wal' = << >> /\ file' = file,
           conn' \in [Peer -> Files], \A q \in Peer : conn'[q] = "here" => conn[q] = "here",
           UNCHANGED <<archive, op, commits, late>>, \E S : wal' \in Seq(S),
           marks' = marks \/ marks' = marks \cup {"stale"}
    PROVE  Inv'
<1> USE DEF Inv
<1>1. OneWal' => OneWal /\ marks' = marks
  BY DEF OneWal
<1>2. Shapes'  BY DEF Shapes
<1>3. NoWal'  BY DEF NoWal
<1>4. TornOnlyByGap'  BY DEF TornOnlyByGap
<1>5. Progress'  BY <1>1 DEF Progress, Untouched, Staged
<1>6. RestoreIsAtomic'  BY <1>1 DEF RestoreIsAtomic
<1>7. Kept'  BY <1>1 DEF Kept, Backed
<1> QED  BY <1>2, <1>3, <1>4, <1>5, <1>6, <1>7

LEMMA OpenKeeps ==
    ASSUME Inv, NEW p \in Peer, Open(p)  PROVE Inv'
<1> USE DEF Inv, Open
<1>1. View' = View  BY DEF View
<1>2. OneWal' => OneWal  BY DEF OneWal
<1>3. Shapes'  BY DEF Shapes, Files
<1>4. NoWal'  BY DEF NoWal
<1>5. TornOnlyByGap'  BY DEF TornOnlyByGap
<1>6. Progress'  BY <1>1, <1>2 DEF Progress, Untouched, Staged
<1>7. RestoreIsAtomic'  BY <1>1, <1>2 DEF RestoreIsAtomic
<1>8. Kept'  BY <1>1, <1>2 DEF Kept, Backed
<1> QED  BY <1>3, <1>4, <1>5, <1>6, <1>7, <1>8

LEMMA CloseKeeps ==
    ASSUME Inv, NEW p \in Peer, Close(p)  PROVE Inv'
<1>1. conn' \in [Peer -> Files] /\ \A q \in Peer : conn'[q] = "here" => conn[q] = "here"
  BY DEF Inv, Shapes, Close, Files
<1>2. UNCHANGED <<archive, op, commits, late>>
      /\ (marks' = marks \/ marks' = marks \cup {"stale"})
  BY DEF Close
<1>3. \E S : wal' \in Seq(S)
  <2>1. wal' = << >> \/ wal' = wal  BY DEF Close
  <2>2. << >> \in Seq({})  OBVIOUS
  <2> QED  BY <2>1, <2>2 DEF Inv, Shapes
<1> QED  BY <1>1, <1>2, <1>3, CloseReads, StutterKeeps

LEMMA CrashKeeps ==
    ASSUME Inv, NEW p \in Peer, Crash(p)  PROVE Inv'
<1>1. View' = View /\ file' = file /\ wal' = wal  BY DEF Crash, View
<1>2. conn' \in [Peer -> Files] /\ \A q \in Peer : conn'[q] = "here" => conn[q] = "here"
  BY DEF Inv, Shapes, Crash, Files
<1>3. \E S : wal' \in Seq(S)  BY <1>1 DEF Inv, Shapes
<1> QED  BY <1>1, <1>2, <1>3, StutterKeeps DEF Crash

LEMMA CommitKeeps ==
    ASSUME Inv, NEW p \in Peer, Commit(p)  PROVE Inv'
<1> USE DEF Inv
<1>1. OneWal' = OneWal  BY DEF OneWal, Commit
<1>2. /\ op'.at = IF op.at \in {"idle"} \cup Outcomes THEN "idle" ELSE op.at
      /\ op'.at = "idle" \/ ~op'.alone
  BY DEF Commit, Shapes, Ended, Idle, NotAlone
<1>3. Shapes'
  <2>1. conn' \in [Peer -> Files]  BY DEF Shapes, Commit, Files
  <2>2. \E S : wal' \in Seq(S)
    BY AppendReads DEF Shapes, Commit
  <2>3. op' = [at |-> op'.at, data |-> op'.data, before |-> op'.before,
               rollback |-> op'.rollback, replaced |-> op'.replaced, alone |-> op'.alone]
    BY DEF Shapes, Commit, Ended, Idle, NotAlone
  <2>4. archive' = archive /\ commits' \in Nat
    BY DEF Shapes, Commit
  <2>5. archive = [backups |-> archive.backups, export |-> archive.export]
    BY DEF Shapes
  <2> QED  BY <2>1, <2>2, <2>3, <2>4, <2>5 DEF Shapes
<1>4. NoWal'
  BY <1>2 DEF NoWal, Commit, Shapes, Outcomes
<1>5. TornOnlyByGap'  BY DEF TornOnlyByGap, Commit
<1>6. Progress'  BY <1>2 DEF Progress
<1>7. RestoreIsAtomic'  BY <1>2 DEF RestoreIsAtomic, Outcomes
<1>8. Kept'
  <2>1. commits' = commits + 1 /\ 1 .. commits' = (1 .. commits) \cup {commits'}
    BY DEF Commit, Shapes
  <2>2. CASE conn[p] = "here"
    <3>1. PICK data \in {Learn(View, commits + 1)} \cup
                        {Revise(View, r.id, commits + 1) : r \in View.claims} :
              wal' = Append(wal, data)
      BY <2>2 DEF Commit
    <3>2. Included(View) \cup {commits'} \subseteq Included(data)
      BY <2>1, LearnIncludes, ReviseIncludes
    <3>3. View' = data
      BY <3>1, AppendReads DEF Shapes
    <3>4. op'.at \in Restoring => op.at \in Restoring /\ commits' \in late'
      BY <1>2, <2>1 DEF Commit, Restoring, Outcomes
    <3>5. Backed \subseteq Backed' /\ late' \subseteq Backed'
      BY DEF Backed, Commit
    <3> QED  BY <1>1, <2>1, <3>2, <3>3, <3>4, <3>5 DEF Kept
  <2>3. CASE conn[p] # "here"
    <3>1. View' = View  BY <2>3 DEF Commit, View
    <3>2. Backed \cup {commits'} \subseteq Backed'
      BY <2>1, <2>3 DEF Backed, Commit
    <3>3. op'.at \in Restoring => op.at \in Restoring
      BY <1>2 DEF Restoring, Outcomes
    <3> QED  BY <1>1, <2>1, <3>1, <3>2, <3>3 DEF Kept
  <2> QED  BY <2>2, <2>3
<1> QED  BY <1>3, <1>4, <1>5, <1>6, <1>7, <1>8

\* A call that only adds to the archives, or reads.
LEMMA ArchiveKeeps ==
    ASSUME Inv, UNCHANGED <<file, wal, conn, commits, late, marks>>,
           op' = [at |-> op'.at, data |-> op'.data, before |-> op'.before,
                  rollback |-> op'.rollback, replaced |-> op'.replaced, alone |-> op'.alone],
           archive' = [backups |-> archive'.backups, export |-> archive'.export],
           archive.backups \subseteq archive'.backups,
           op'.at \in {"idle"} \cup Exporting
    PROVE  Inv'
<1> USE DEF Inv
<1>1. View' = View /\ OneWal' = OneWal  BY DEF View, OneWal
<1>2. op'.at \notin Restoring /\ op'.at \notin Outcomes
  BY DEF Exporting, Restoring, Outcomes
<1>3. Shapes'  BY DEF Shapes
<1>4. NoWal' /\ TornOnlyByGap'  BY DEF NoWal, TornOnlyByGap, Exporting
<1>5. Progress' /\ RestoreIsAtomic'
  BY <1>2 DEF Progress, RestoreIsAtomic, Exporting
<1>6. Kept'
  <2>1. Backed \subseteq Backed'  BY DEF Backed
  <2> QED  BY <1>1, <1>2, <2>1 DEF Kept
<1> QED  BY <1>3, <1>4, <1>5, <1>6

LEMMA CreateBackupKeeps ==
    ASSUME Inv, CreateBackup  PROVE Inv'
BY ArchiveKeeps DEF CreateBackup, Inv, Shapes, Idle

LEMMA ExportKeeps ==
    ASSUME Inv, ExportMemories \/ ExportClaims \/ ExportVersions \/ ExportFails
    PROVE  Inv'
<1>1. CASE ExportMemories
  <2>1. op'.at = "exportedMemories" /\ archive' = archive
        /\ op' = [at |-> op'.at, data |-> op'.data, before |-> op'.before,
                  rollback |-> op'.rollback, replaced |-> op'.replaced, alone |-> op'.alone]
    BY <1>1 DEF ExportMemories, Idle
  <2> QED  BY <1>1, <2>1, ArchiveKeeps DEF ExportMemories, Exporting, Inv, Shapes
<1>2. CASE ExportClaims
  <2>1. op'.at = "exportedClaims" /\ archive' = archive
        /\ op' = [at |-> op'.at, data |-> op'.data, before |-> op'.before,
                  rollback |-> op'.rollback, replaced |-> op'.replaced, alone |-> op'.alone]
    BY <1>2 DEF ExportClaims, Inv, Shapes
  <2> QED  BY <1>2, <2>1, ArchiveKeeps DEF ExportClaims, Exporting, Inv, Shapes
<1>3. CASE ExportVersions
  <2>1. archive' = [backups |-> archive'.backups, export |-> archive'.export]
        /\ archive'.backups = archive.backups
    BY <1>3 DEF ExportVersions, Inv, Shapes
  <2> QED  BY <1>3, <2>1, ArchiveKeeps DEF ExportVersions, Idle
<1>4. CASE ExportFails
  BY <1>4, ArchiveKeeps DEF ExportFails, Idle, Inv, Shapes
<1> QED  BY <1>1, <1>2, <1>3, <1>4

LEMMA ImportKeeps ==
    ASSUME Inv, ImportJsonl  PROVE Inv'
<1> USE DEF Inv
<1> DEFINE merged == Merge(View, archive.export.data)
<1>1. /\ op' = Idle /\ UNCHANGED <<conn, archive, commits, late>>
      /\ OneWal' = OneWal /\ (marks' = marks \/ marks' = marks \cup {"merge"})
  BY DEF ImportJsonl, OneWal
<1>2. (\E S : wal' \in Seq(S)) /\ (View' = View \/ View' = merged)
  <2> HIDE DEF merged
  <2>1. CASE UNCHANGED <<file, wal>>
    BY <2>1 DEF Shapes, View
  <2>2. CASE wal' = Append(wal, merged)
    BY <2>2, AppendReads DEF Shapes
  <2>3. CASE file' = merged /\ wal' = << >>
    <3>1. << >> \in Seq({})  OBVIOUS
    <3> QED  BY <2>3, <3>1 DEF View
  <2> QED  BY <2>1, <2>2, <2>3 DEF ImportJsonl, merged
<1>3. Included(View) \subseteq Included(View')
  BY <1>2, MergeIncludes
<1>4. Shapes'  BY <1>1, <1>2 DEF Shapes, Idle
<1>5. NoWal' /\ TornOnlyByGap'  BY <1>1 DEF NoWal, TornOnlyByGap, Idle
<1>6. Progress' /\ RestoreIsAtomic'  BY <1>1 DEF Progress, RestoreIsAtomic, Idle, Outcomes
<1>7. Kept'  BY <1>1, <1>3 DEF Kept, Backed, Idle, Restoring
<1> QED  BY <1>4, <1>5, <1>6, <1>7

\* The safety copy has what the database has.
LEMMA SafeguardKeeps ==
    ASSUME Inv, Safeguard  PROVE Inv'
<1> USE DEF Inv
<1>1. /\ UNCHANGED <<file, wal, conn, commits, late, marks>>
      /\ View' = View /\ OneWal' = OneWal
  BY DEF Safeguard, View, OneWal
<1>2. /\ op' = [at |-> "safe", data |-> op'.data, before |-> View, rollback |-> Empty,
                replaced |-> FALSE, alone |-> TRUE]
      /\ archive' = [backups |-> archive.backups \cup {View}, export |-> archive.export]
  BY DEF Safeguard, Idle, Snapshot, Shapes
<1>3. Shapes'  BY <1>1, <1>2 DEF Shapes
<1>4. NoWal' /\ TornOnlyByGap'  BY <1>1, <1>2 DEF NoWal, TornOnlyByGap
<1>5. Progress' /\ RestoreIsAtomic'
  BY <1>1, <1>2 DEF Progress, RestoreIsAtomic, Outcomes
<1>6. Kept'
  <2>1. Backed \cup Included(View) \subseteq Backed'  BY <1>1, <1>2 DEF Backed
  <2> QED  BY <1>1, <2>1 DEF Kept
<1> QED  BY <1>3, <1>4, <1>5, <1>6

LEMMA CheckpointKeeps ==
    ASSUME Inv, Checkpoint  PROVE Inv'
<1> USE DEF Inv
<1>1. /\ UNCHANGED <<conn, archive, commits, late, marks>> /\ OneWal' = OneWal
      /\ op.at = "safe"
  BY DEF Checkpoint, OneWal
<1>2. CASE file' = View /\ wal' = << >> /\ op' = [op EXCEPT !.at = "checkpointed"]
  <2>1. op' = [at |-> "checkpointed", data |-> op.data, before |-> op.before,
               rollback |-> op.rollback, replaced |-> op.replaced, alone |-> op.alone]
    BY <1>2 DEF Shapes
  <2>2. << >> \in Seq({}) /\ View' = View  BY <1>2 DEF View
  <2>3. Shapes'  BY <1>1, <1>2, <2>1, <2>2 DEF Shapes
  <2>4. NoWal' /\ TornOnlyByGap'  BY <1>1, <2>1 DEF NoWal, TornOnlyByGap
  <2>5. Progress' /\ RestoreIsAtomic'
    BY <1>1, <1>2, <2>1 DEF Progress, RestoreIsAtomic, Outcomes, Untouched
  <2>6. Kept'  BY <1>1, <2>1, <2>2 DEF Kept, Backed, Restoring
  <2> QED  BY <2>3, <2>4, <2>5, <2>6
<1>3. CASE wal' = wal /\ op' = [NotAlone EXCEPT !.at = "checkpointed"]
  <2>1. op' = [at |-> "checkpointed", data |-> op.data, before |-> op.before,
               rollback |-> op.rollback, replaced |-> op.replaced, alone |-> FALSE]
    BY <1>3 DEF Shapes, NotAlone
  <2>3. Shapes'  BY <1>1, <1>3, <2>1 DEF Shapes
  <2>4. NoWal' /\ TornOnlyByGap'  BY <1>1, <2>1 DEF NoWal, TornOnlyByGap
  <2>5. Progress' /\ RestoreIsAtomic'  BY <2>1 DEF Progress, RestoreIsAtomic
  <2>6. Kept'  BY <1>1, <2>1 DEF Kept, Backed, Restoring
  <2> QED  BY <2>3, <2>4, <2>5, <2>6
<1> QED  BY <1>2, <1>3 DEF Checkpoint

LEMMA CopyRollbackKeeps ==
    ASSUME Inv, CopyRollback  PROVE Inv'
<1> USE DEF Inv
<1>1. /\ UNCHANGED <<file, wal, conn, archive, commits, late, marks>>
      /\ View' = View /\ OneWal' = OneWal /\ op.at = "checkpointed"
  BY DEF CopyRollback, View, OneWal
<1>2. op' = [at |-> "copied", data |-> op.data, before |-> op.before,
             rollback |-> file, replaced |-> op.replaced, alone |-> op.alone]
  BY DEF CopyRollback, Shapes
<1>3. Shapes'  BY <1>1, <1>2 DEF Shapes
<1>4. NoWal' /\ TornOnlyByGap'  BY <1>1, <1>2 DEF NoWal, TornOnlyByGap
<1>5. Progress' /\ RestoreIsAtomic'
  BY <1>1, <1>2 DEF Progress, RestoreIsAtomic, Outcomes, Untouched
<1>6. Kept'  BY <1>1, <1>2 DEF Kept, Backed, Restoring
<1> QED  BY <1>3, <1>4, <1>5, <1>6

LEMMA RemoveSidecarsKeeps ==
    ASSUME Inv, NEW from, NEW to, RemoveSidecars(from, to),
           \/ from = "copied" /\ to = "bare"
           \/ op.replaced /\ from = "failed" /\ to = "failedBare"
    PROVE  Inv'
<1> USE DEF Inv
<1>1. /\ UNCHANGED <<file, archive, commits, late, marks>> /\ OneWal' = OneWal
      /\ wal' = << >> /\ op.at = from /\ << >> \in Seq({})
  BY DEF RemoveSidecars, OneWal
<1>2. op' = [at |-> to, data |-> op.data, before |-> op.before,
             rollback |-> op.rollback, replaced |-> op.replaced, alone |-> op.alone]
  BY DEF RemoveSidecars, Shapes
<1>3. conn' \in [Peer -> Files] /\ \A q \in Peer : conn'[q] # "here"
  BY DEF RemoveSidecars, Shapes, Files
<1>4. Shapes'  BY <1>1, <1>2, <1>3 DEF Shapes
<1>5. NoWal' /\ TornOnlyByGap'  BY <1>1, <1>3 DEF NoWal, TornOnlyByGap
<1>6. Progress' /\ RestoreIsAtomic'
  BY <1>1, <1>2 DEF Progress, RestoreIsAtomic, Outcomes, Untouched, Staged
<1>7. Kept'  BY <1>1, <1>2 DEF Kept, Backed, Restoring
<1> QED  BY <1>4, <1>5, <1>6, <1>7

LEMMA ReplaceKeeps ==
    ASSUME Inv, NEW from, NEW to, NEW data, Replace(from, to, data),
           <<from, to, data>> = <<"bare", "replaced", op.data>>
              \/ <<from, to, data>> = <<"failedBare", "reverted", op.rollback>>
    PROVE  Inv'
<1> USE DEF Inv
<1>1. /\ UNCHANGED <<wal, archive, commits, late>>
      /\ file' = data /\ op.at = from
      /\ marks' = marks \/ marks' = marks \cup {"torn"}
      /\ OneWal' = OneWal
  BY DEF Replace, OneWal
<1>2. op' = [at |-> to, data |-> op.data, before |-> op.before,
             rollback |-> op.rollback, replaced |-> TRUE, alone |-> op.alone]
  BY DEF Replace, Shapes
<1>3. conn' \in [Peer -> Files]
  BY DEF Replace, Shapes, Files
<1>4. Shapes'  BY <1>1, <1>2, <1>3 DEF Shapes
<1>5. NoWal'  BY <1>2 DEF NoWal
<1>6. TornOnlyByGap'
  <2>1. "gap" \notin marks => marks' = marks  BY DEF Replace, NoWal
  <2> QED  BY <1>1, <2>1 DEF TornOnlyByGap
<1>7. Progress' /\ RestoreIsAtomic'
  BY <1>1, <1>2 DEF Progress, RestoreIsAtomic, Outcomes, Untouched, Staged
<1>8. Kept'  BY <1>1, <1>2 DEF Kept, Backed, Restoring
<1> QED  BY <1>4, <1>5, <1>6, <1>7, <1>8

\* Steps that only say how far restore has come.
LEMMA EndKeeps ==
    ASSUME Inv, NEW how, End(how),
           \/ op.at = "replaced" /\ how = "restored"
           \/ op.at \in {"checkpointed", "copied", "bare", "replaced"} /\ how = "failed"
           \/ op.at = "failedBare" /\ how = "raised"
           \/ /\ op.at = "reverted" \/ (op.at = "failed" /\ ~op.replaced)
              /\ how \in {"rolledBack", "lostBoth"}
           \/ op.at \in Restoring /\ how = "killed"
    PROVE  Inv'
<1> USE DEF Inv
<1>1. /\ UNCHANGED <<file, wal, conn, archive, commits, late, marks>>
      /\ View' = View /\ OneWal' = OneWal
  BY DEF End, View, OneWal
<1>2. op' = [at |-> how, data |-> op.data, before |-> op.before,
             rollback |-> op.rollback, replaced |-> op.replaced, alone |-> op.alone]
  BY DEF End, Shapes
<1>3. Shapes'  BY <1>1, <1>2 DEF Shapes
<1>4. NoWal' /\ TornOnlyByGap'
  <2>1. how \notin {"bare", "failedBare"}  OBVIOUS
  <2> QED  BY <1>1, <1>2, <2>1 DEF NoWal, TornOnlyByGap
<1>5. Progress'
  BY <1>1, <1>2 DEF Progress, Untouched, Staged
<1>6. RestoreIsAtomic'
  BY <1>1, <1>2 DEF Progress, RestoreIsAtomic, Outcomes, Restoring, Untouched, Staged, View
<1>7. Kept'  BY <1>1, <1>2 DEF Kept, Backed, Restoring
<1> QED  BY <1>3, <1>4, <1>5, <1>6, <1>7

LEMMA RestoreKeeps ==
    ASSUME Inv, Restore  PROVE Inv'
<1>1. CASE Initialize  BY <1>1, EndKeeps DEF Initialize
<1>2. CASE Fail  BY <1>2, EndKeeps DEF Fail
<1>3. CASE RevertFails  BY <1>3, EndKeeps DEF RevertFails
<1>4. CASE Reinitialize  BY <1>4, EndKeeps DEF Reinitialize
<1>5. CASE Kill  BY <1>5, EndKeeps DEF Kill
<1>6. CASE Revert  BY <1>6, ReplaceKeeps DEF Revert
<1>7. CASE Replace("bare", "replaced", op.data)  BY <1>7, ReplaceKeeps
<1>8. CASE RemoveSidecars("copied", "bare")
  BY <1>8, RemoveSidecarsKeeps
<1>9. CASE op.replaced /\ RemoveSidecars("failed", "failedBare")
  BY <1>9, RemoveSidecarsKeeps
<1> QED
  BY <1>1, <1>2, <1>3, <1>4, <1>5, <1>6, <1>7, <1>8, <1>9,
     SafeguardKeeps, CheckpointKeeps, CopyRollbackKeeps DEF Restore

LEMMA NextKeeps == Inv /\ [Next]_vars => Inv'
<1> SUFFICES ASSUME Inv, [Next]_vars PROVE Inv'
  OBVIOUS
<1>1. CASE UNCHANGED vars
  <2>1. View' = View  BY <1>1 DEF vars, View
  <2> QED
    BY <1>1, <2>1, StutterKeeps DEF vars, Inv, Shapes
<1>2. CASE Next
  BY <1>2, OpenKeeps, CommitKeeps, CloseKeeps, CrashKeeps, CreateBackupKeeps,
     RestoreKeeps, ExportKeeps, ImportKeeps DEF Next
<1> QED  BY <1>1, <1>2

LEMMA Invariant == Spec => []Inv
BY InitInv, NextKeeps, PTL DEF Spec

-----------------------------------------------------------------------------
\* However restore ends, the database is the archived one or the earlier one.
THEOREM RestoreAlwaysAtomic == Spec => []RestoreIsAtomic
<1>1. Inv => RestoreIsAtomic  BY DEF Inv
<1> QED  BY <1>1, Invariant, PTL

\* A restore discards only what a backup has.
THEOREM DiscardedAlwaysSafe == Spec => []DiscardedIsSafe
<1>1. Inv => DiscardedIsSafe  BY DEF Inv, Kept, Backed, DiscardedIsSafe
<1> QED  BY <1>1, Invariant, PTL

\* A database gets no foreign WAL but by a connection made without one.
THEOREM TornAlwaysByGap == Spec => []TornOnlyByGap
<1>1. Inv => TornOnlyByGap  BY DEF Inv
<1> QED  BY <1>1, Invariant, PTL
-----------------------------------------------------------------------------
\* Histories.  What holds of a database in itself: its rows are of commits
\* there have been, a version has no higher number than its row, and the
\* versions of a claim have a highest.
Sane(d, n) ==
    /\ d \in [memories: SUBSET (1 .. n),
              claims: SUBSET [id: 1 .. n, status: {"accepted", "stale"}],
              versions: SUBSET [id: 1 .. n, claim: 1 .. n, number: 1 .. n,
                                status: {"accepted", "stale"}, open: BOOLEAN]]
    /\ \A v \in d.versions : v.number <= v.id

Topped(d) == \A v \in d.versions : Highest(VersionsOf(d, v.claim)) # {}

\* No two databases use one row for different versions.
SameRows(d, e) ==
    \A v \in d.versions, w \in e.versions :
        v.id = w.id => v.claim = w.claim /\ v.number = w.number

\* Every claim of d has a version in e.
Covered(d, e) == \A c \in d.claims : VersionsOf(e, c.id) # {}

\* Every database there is: in the files, in a backup, or held by restore; and
\* what is exported, table by table, or was.
Databases ==
    {Empty, file, op.before, op.rollback} \cup archive.backups \cup {wal[k] : k \in 1 .. Len(wal)}
    \cup (IF op.at \in Exporting THEN {} ELSE {op.data})

Stores ==
    Databases \cup {op.data}
    \cup (IF archive.export = NULL THEN {} ELSE {archive.export.data})

Good(d) == Covered(d, d) /\ Intact(d)

Numbered ==
    /\ \A d \in Stores : Sane(d, commits) /\ Topped(d)
    /\ \A d, e \in Stores : SameRows(d, e)
    /\ \A d \in Databases : Good(d)

\* What an export has read so far is what the database says, or a part of
\* it that nobody will call whole.
Reading ==
    op.at \in Exporting =>
        /\ op.data.versions = {} /\ Covered(op.data, View)
        /\ op.at = "exportedMemories" => op.data.claims = {}
        /\ op.alone => /\ op.data.memories = View.memories
                       /\ op.at = "exportedClaims" => op.data.claims = View.claims

Exported ==
    archive.export # NULL =>
        /\ Covered(archive.export.data, archive.export.data)
        /\ archive.export.alone => Intact(archive.export.data)

Agreed ==
    marks = {} =>
        /\ \A d \in Databases : Coherent(d)
        /\ archive.export # NULL /\ archive.export.alone => Coherent(archive.export.data)

Steps == {"idle"} \cup Restoring \cup Outcomes \cup Exporting

Counted ==
    /\ commits \in 0 .. MaxCommits /\ ops \in 0 .. MaxOps /\ late \subseteq 1 .. commits
    /\ marks \subseteq {"gap", "torn", "stale", "merge"}

HistoryInv ==
    /\ Counted
    /\ op \in [at: Steps, data: Data, before: Data, rollback: Data,
               replaced: BOOLEAN, alone: BOOLEAN]
    /\ archive.export \in {NULL} \cup [data: Data, alone: BOOLEAN]
    /\ wal \in Seq(Data)
    /\ Numbered /\ Reading /\ Exported /\ Agreed

-----------------------------------------------------------------------------
\* The rows a commit writes.

SameVersion(v, w) == v.id = w.id /\ v.claim = w.claim /\ v.number = w.number

\* e is d with a version more: the others stay what they are, those of the
\* same claim but for being open, and the row of the claim goes with it.
Adds(d, e, n, next) ==
    /\ e \in [memories: SUBSET (1 .. n),
              claims: SUBSET [id: 1 .. n, status: {"accepted", "stale"}],
              versions: SUBSET [id: 1 .. n, claim: 1 .. n, number: 1 .. n,
                                status: {"accepted", "stale"}, open: BOOLEAN]]
    /\ next \in e.versions /\ next.id = n /\ next.number <= n /\ next.open
    /\ \A w \in VersionsOf(d, next.claim) : w.number < next.number
    /\ \A v \in e.versions :
          v = next \/ \E w \in d.versions : /\ SameVersion(v, w)
                                            /\ v.claim # next.claim => v = w
    /\ \A w \in d.versions :
          /\ \E v \in e.versions : SameVersion(v, w)
          /\ w.claim # next.claim => w \in e.versions
    /\ d.memories \subseteq e.memories
    /\ \A r \in e.claims : IF r.id = next.claim THEN r.status = next.status /\ r.id \in e.memories
                           ELSE r \in d.claims
    /\ \E r \in e.claims : r.id = next.claim
    /\ \A r \in d.claims : \E s \in e.claims : s.id = r.id
    /\ Coherent(d) => \A v \in VersionsOf(e, next.claim) : v.open => v = next

\* More commits leave a database sane.
LEMMA SaneGrows ==
    ASSUME NEW d, NEW m \in Nat, NEW n \in Nat, m <= n, Sane(d, m)
    PROVE  Sane(d, n)
<1>1. 1 .. m \subseteq 1 .. n  OBVIOUS
<1> QED  BY <1>1 DEF Sane

\* What is true of a database in itself stays true with a version more.
LEMMA AddsFits ==
    ASSUME NEW n \in Nat \ {0}, NEW d, Sane(d, n - 1), Topped(d), Good(d), SameRows(d, d),
           NEW e, NEW next, Adds(d, e, n, next)
    PROVE  /\ Sane(e, n) /\ Topped(e) /\ Good(e) /\ SameRows(e, e)
           /\ Coherent(d) => Coherent(e)
<1>0. next \in e.versions /\ next.id = n
      /\ \A v \in e.versions : v.id \in Nat /\ v.number \in Nat
      /\ \A w \in d.versions : w.id \in Nat /\ w.id < n /\ w.number \in Nat /\ w.number <= w.id
  BY DEF Adds, Sane
<1>1. \A v \in e.versions :
         v = next \/ \E w \in d.versions : /\ SameVersion(v, w)
                                           /\ v.claim # next.claim => v = w
  BY DEF Adds
<1>2. \A w \in d.versions :
         /\ \E v \in e.versions : SameVersion(v, w)
         /\ w.claim # next.claim => w \in e.versions
  BY DEF Adds
<1>3. \A w \in d.versions : w.claim = next.claim => w.number < next.number
  BY DEF Adds, VersionsOf
<1>4. \A v \in e.versions : v.claim = next.claim =>
         v.number <= next.number /\ (v # next => v.number < next.number)
  BY <1>0, <1>1, <1>3 DEF SameVersion
<1>5. Sane(e, n)
  <2>1. \A v \in e.versions : v.number <= v.id
    BY <1>0, <1>1 DEF SameVersion, Adds
  <2> QED  BY <2>1 DEF Sane, Adds
<1>6. SameRows(e, e)
  <2> SUFFICES ASSUME NEW v \in e.versions, NEW w \in e.versions, v.id = w.id
               PROVE  v.claim = w.claim /\ v.number = w.number
    BY DEF SameRows
  <2>1. CASE v = next \/ w = next
    BY <2>1, <1>0, <1>1 DEF SameVersion
  <2>2. CASE v # next /\ w # next
    <3>1. PICK x \in d.versions : SameVersion(v, x)  BY <2>2, <1>1
    <3>2. PICK y \in d.versions : SameVersion(w, y)  BY <2>2, <1>1
    <3>3. x.claim = y.claim /\ x.number = y.number
      BY <3>1, <3>2 DEF SameRows, SameVersion
    <3> QED  BY <3>1, <3>2, <3>3 DEF SameVersion
  <2> QED  BY <2>1, <2>2
<1>7. Topped(e)
  <2> SUFFICES ASSUME NEW v \in e.versions
               PROVE  \E g \in e.versions : /\ g.claim = v.claim
                                            /\ \A w \in e.versions :
                                                 w.claim = v.claim => w.number <= g.number
    BY DEF Topped, Highest, VersionsOf
  <2>1. CASE v.claim = next.claim
    BY <2>1, <1>0, <1>4
  <2>2. CASE v.claim # next.claim
    <3>1. v \in d.versions  BY <2>2, <1>1
    <3>2. PICK g \in d.versions : g.claim = v.claim
                /\ \A w \in d.versions : w.claim = v.claim => w.number <= g.number
      BY <3>1 DEF Topped, Highest, VersionsOf
    <3>3. g \in e.versions  BY <2>2, <3>2, <1>2
    <3>4. \A w \in e.versions : w.claim = v.claim => w \in d.versions
      BY <2>2, <1>1
    <3> QED  BY <3>2, <3>3, <3>4
  <2> QED  BY <2>1, <2>2
<1>8. Covered(e, e)
  <2> SUFFICES ASSUME NEW r \in e.claims PROVE \E v \in e.versions : v.claim = r.id
    BY DEF Covered, VersionsOf
  <2>1. CASE r.id = next.claim  BY <2>1, <1>0
  <2>2. CASE r.id # next.claim
    <3>1. r \in d.claims  BY <2>2 DEF Adds
    <3>2. PICK w \in d.versions : w.claim = r.id
      BY <3>1 DEF Good, Covered, VersionsOf
    <3> QED  BY <2>2, <3>2, <1>2
  <2> QED  BY <2>1, <2>2
<1>9. Intact(e)
  <2>1. \A r \in e.claims : r.id \in e.memories
    BY DEF Good, Intact, Adds
  <2>2. \A v \in e.versions : \E r \in e.claims : r.id = v.claim
    <3> SUFFICES ASSUME NEW v \in e.versions, v.claim # next.claim
                 PROVE  \E r \in e.claims : r.id = v.claim
      BY DEF Adds
    <3>1. v \in d.versions  BY <1>1
    <3>2. PICK r \in d.claims : r.id = v.claim
      BY <3>1 DEF Good, Intact
    <3> QED  BY <3>2 DEF Adds
  <2>3. ASSUME NEW v \in e.versions, NEW w \in e.versions,
               v.claim = w.claim, v.number = w.number
        PROVE  v.id = w.id
    <3>1. CASE v = next \/ w = next
      BY <2>3, <3>1, <1>0, <1>4
    <3>2. CASE v # next /\ w # next
      <4>1. PICK x \in d.versions : SameVersion(v, x)  BY <3>2, <1>1
      <4>2. PICK y \in d.versions : SameVersion(w, y)  BY <3>2, <1>1
      <4>3. x.id = y.id
        BY <2>3, <4>1, <4>2 DEF Good, Intact, SameVersion
      <4> QED  BY <4>1, <4>2, <4>3 DEF SameVersion
    <3> QED  BY <3>1, <3>2
  <2> QED  BY <2>1, <2>2, <2>3 DEF Intact
<1>10. Coherent(d) => Coherent(e)
  <2> SUFFICES ASSUME Coherent(d), NEW r \in e.claims
               PROVE  /\ OpenOf(e, r.id) = Highest(VersionsOf(e, r.id))
                      /\ \A v \in OpenOf(e, r.id) : v.status = r.status
                      /\ OpenOf(e, r.id) # {}
    BY DEF Coherent
  <2>1. CASE r.id = next.claim
    <3>1. next \in VersionsOf(e, r.id) /\ next.open
          /\ \A v \in VersionsOf(e, r.id) : v.open => v = next
      BY <2>1 DEF Adds, VersionsOf
    <3>2. OpenOf(e, r.id) = {next}  BY <3>1 DEF OpenOf
    <3>3. \A v \in VersionsOf(e, r.id) :
             v.number \in Nat /\ v.number <= next.number
             /\ (v # next => v.number < next.number)
      BY <2>1, <1>0, <1>4 DEF VersionsOf
    <3>4. Highest(VersionsOf(e, r.id)) = {next}
      <4>1. next \in Highest(VersionsOf(e, r.id))  BY <3>1, <3>3 DEF Highest
      <4>2. \A v \in Highest(VersionsOf(e, r.id)) : v = next
        BY <3>1, <3>3 DEF Highest
      <4> QED  BY <4>1, <4>2
    <3>5. r.status = next.status  BY <2>1 DEF Adds
    <3> QED  BY <3>2, <3>4, <3>5
  <2>2. CASE r.id # next.claim
    <3>1. r \in d.claims  BY <2>2 DEF Adds
    <3>2. VersionsOf(e, r.id) = VersionsOf(d, r.id)
      BY <2>2, <1>1, <1>2 DEF VersionsOf
    <3> QED  BY <3>1, <3>2 DEF Coherent, OpenOf
  <2> QED  BY <2>1, <2>2
<1> QED  BY <1>5, <1>6, <1>7, <1>8, <1>9, <1>10 DEF Good

\* No other database has the row that is added.
LEMMA AddsAgrees ==
    ASSUME NEW n \in Nat \ {0}, NEW d, NEW e, NEW next, Adds(d, e, n, next),
           NEW x, Sane(x, n - 1), SameRows(d, x)
    PROVE  SameRows(e, x) /\ SameRows(x, e)
<1> SUFFICES ASSUME NEW v \in e.versions, NEW w \in x.versions, v.id = w.id
             PROVE  v.claim = w.claim /\ v.number = w.number
  BY DEF SameRows
<1>1. w.id < n  BY DEF Sane
<1>2. v # next  BY <1>1 DEF Adds
<1>3. PICK y \in d.versions : SameVersion(v, y)  BY <1>2 DEF Adds
<1> QED  BY <1>3 DEF SameVersion, SameRows

\* propose and confirm add version 1 of a new claim.
LEMMA LearnAdds ==
    ASSUME NEW n \in Nat \ {0}, NEW d, Sane(d, n - 1)
    PROVE  \E next : Adds(d, Learn(d, n), n, next)
<1> DEFINE next == [id |-> n, claim |-> n, number |-> 1, status |-> "accepted", open |-> TRUE]
           row == [id |-> n, status |-> "accepted"]
           e == Learn(d, n)
<1>1. e = [memories |-> d.memories \cup {n},
           claims |-> d.claims \cup {row},
           versions |-> d.versions \cup {next}]
  BY DEF Learn
<1>2. /\ n \in 1 .. n /\ 1 \in 1 .. n /\ 1 .. n - 1 \subseteq 1 .. n
      /\ \A v \in d.versions : v.claim # n
      /\ \A r \in d.claims : r.id # n
  BY DEF Sane
<1>3. e \in [memories: SUBSET (1 .. n),
             claims: SUBSET [id: 1 .. n, status: {"accepted", "stale"}],
             versions: SUBSET [id: 1 .. n, claim: 1 .. n, number: 1 .. n,
                               status: {"accepted", "stale"}, open: BOOLEAN]]
  <2>1. d.memories \cup {n} \subseteq 1 .. n  BY <1>2 DEF Sane
  <2>2. d.claims \cup {row} \subseteq [id: 1 .. n, status: {"accepted", "stale"}]
    BY <1>2 DEF Sane
  <2>3. next \in [id: 1 .. n, claim: 1 .. n, number: 1 .. n,
                  status: {"accepted", "stale"}, open: BOOLEAN]
    BY <1>2
  <2>4. \A v \in d.versions : v \in [id: 1 .. n, claim: 1 .. n, number: 1 .. n,
                                     status: {"accepted", "stale"}, open: BOOLEAN]
    <3> SUFFICES ASSUME NEW v \in d.versions
                 PROVE  v \in [id: 1 .. n, claim: 1 .. n, number: 1 .. n,
                               status: {"accepted", "stale"}, open: BOOLEAN]
      OBVIOUS
    <3>1. v \in [id: 1 .. n - 1, claim: 1 .. n - 1, number: 1 .. n - 1,
                 status: {"accepted", "stale"}, open: BOOLEAN]
      BY DEF Sane
    <3> HIDE DEF next
    <3> QED  BY <1>2, <3>1
  <2> HIDE DEF next, e, row
  <2>5. d.versions \cup {next} \subseteq
           [id: 1 .. n, claim: 1 .. n, number: 1 .. n,
            status: {"accepted", "stale"}, open: BOOLEAN]
    BY <2>3, <2>4
  <2> QED  BY <1>1, <2>1, <2>2, <2>5
<1>4. /\ next.id = n /\ next.claim = n /\ next.number = 1 /\ next.status = "accepted"
      /\ next.open /\ row.id = n /\ row.status = "accepted"
  OBVIOUS
<1> HIDE DEF next, row
<1>5. e.memories = d.memories \cup {n}
      /\ e.claims = d.claims \cup {row}
      /\ e.versions = d.versions \cup {next}
  BY <1>1
<1> HIDE DEF e
<1>6. Adds(d, e, n, next)
  <2>1. next \in e.versions /\ next.number <= n  BY <1>4, <1>5
  <2>2. \A w \in d.versions : w.claim # next.claim
    BY <1>2, <1>4
  <2>3. \A v \in e.versions : v = next \/ v \in d.versions  BY <1>5
  <2>4. d.versions \subseteq e.versions /\ d.claims \subseteq e.claims
        /\ d.memories \subseteq e.memories  BY <1>5
  <2>5. \A r \in e.claims : IF r.id = next.claim THEN r.status = next.status /\ r.id \in e.memories
                            ELSE r \in d.claims
    <3> SUFFICES ASSUME NEW r \in e.claims
                 PROVE  IF r.id = next.claim THEN r.status = next.status /\ r.id \in e.memories
                        ELSE r \in d.claims
      OBVIOUS
    <3>1. CASE r = row  BY <3>1, <1>4, <1>5
    <3>2. CASE r \in d.claims  BY <3>2, <1>2, <1>4
    <3> QED  BY <3>1, <3>2, <1>5
  <2>6. \E r \in e.claims : r.id = next.claim  BY <1>4, <1>5
  <2>7. \A v \in VersionsOf(e, next.claim) : v.open => v = next
    BY <2>2, <2>3 DEF VersionsOf
  <2>8. \A w \in VersionsOf(d, next.claim) : w.number < next.number
    BY <2>2 DEF VersionsOf
  <2> QED
    BY <1>3, <1>4, <2>1, <2>2, <2>3, <2>4, <2>5, <2>6, <2>7, <2>8 DEF Adds, SameVersion
<1> QED  BY <1>6 DEF e

\* The highest number there is, where there is one.
LEMMA MaxIsHighest ==
    ASSUME NEW V, \A v \in V : v.number \in Nat, NEW h \in Highest(V)
    PROVE  Max({v.number : v \in V}) = h.number
<1> DEFINE S == {v.number : v \in V}
<1>1. h.number \in S /\ \A y \in S : y \in Nat /\ h.number >= y
  BY DEF Highest
<1> HIDE DEF S
<1>2. Max(S) \in S /\ \A y \in S : Max(S) >= y
  BY <1>1 DEF Max
<1>3. Max(S) = h.number
  BY <1>1, <1>2
<1> QED  BY <1>3 DEF S

\* A version with another value for whether it is open.
LEMMA RowWithOpen ==
    ASSUME NEW m, NEW open,
           NEW v \in [id: 1 .. m, claim: 1 .. m, number: 1 .. m,
                      status: {"accepted", "stale"}, open: BOOLEAN]
    PROVE  [v EXCEPT !.open = open] = [id |-> v.id, claim |-> v.claim, number |-> v.number,
                                       status |-> v.status, open |-> open]
OBVIOUS

\* transition closes the open version and adds the next: its number is above
\* every number of the claim, as those have a highest.
LEMMA ReviseAdds ==
    ASSUME NEW n \in Nat \ {0}, NEW d, Sane(d, n - 1), Topped(d), Good(d), SameRows(d, d),
           NEW r \in d.claims
    PROVE  \E next : Adds(d, Revise(d, r.id, n), n, next)
<1> DEFINE c == r.id
           status == IF RowOf(d.claims, c).status = "stale" THEN "accepted" ELSE "stale"
           closed == {[v EXCEPT !.open = FALSE] : v \in Highest(OpenOf(d, c))}
           number == 1 + Max({v.number : v \in VersionsOf(d, c)})
           next   == [id |-> n, claim |-> c, status |-> status, open |-> TRUE,
                      number |-> number]
           row    == [id |-> c, status |-> status]
           e      == Revise(d, c, n)
<1>1. e = [memories |-> d.memories,
           claims |-> Upsert(d.claims, {row}),
           versions |-> Upsert(d.versions, closed \cup {next})]
  <2> HIDE DEF status, closed, number
  <2> QED  BY DEF Revise, status, closed, number
<1>2. next.id = n /\ next.claim = c /\ next.number = number /\ next.status = status /\ next.open
      /\ row.id = c /\ row.status = status
  <2> HIDE DEF status, number, c
  <2> QED  OBVIOUS
<1>3. status \in {"accepted", "stale"}  OBVIOUS
<1>4. /\ \A v \in d.versions :
            v \in [id: 1 .. n - 1, claim: 1 .. n - 1, number: 1 .. n - 1,
                   status: {"accepted", "stale"}, open: BOOLEAN] /\ v.number <= v.id
      /\ c \in 1 .. n - 1 /\ c \in d.memories
  BY DEF Sane, Good, Intact
<1>5. /\ number \in 1 .. n
      /\ \A v \in VersionsOf(d, c) : v.number < number
  <2>1. PICK h \in Highest(VersionsOf(d, c)) : TRUE
    BY DEF Good, Covered, Topped, VersionsOf
  <2>2. \A v \in VersionsOf(d, c) : v.number \in 1 .. n - 1
    BY <1>4 DEF VersionsOf
  <2>3. number = 1 + h.number
    BY <2>2, MaxIsHighest
  <2>4. h.number \in 1 .. n - 1 /\ \A v \in VersionsOf(d, c) : v.number <= h.number
    BY <2>2 DEF Highest
  <2> HIDE DEF number
  <2> QED  BY <2>2, <2>3, <2>4
<1>6. \A x \in closed : \E v \in d.versions :
         /\ v \in Highest(OpenOf(d, c)) /\ v.claim = c
         /\ x = [id |-> v.id, claim |-> c, number |-> v.number, status |-> v.status,
                 open |-> FALSE]
  <2> SUFFICES ASSUME NEW v \in Highest(OpenOf(d, c))
               PROVE  /\ v \in d.versions /\ v.claim = c
                      /\ [v EXCEPT !.open = FALSE]
                           = [id |-> v.id, claim |-> c, number |-> v.number,
                              status |-> v.status, open |-> FALSE]
    OBVIOUS
  <2>1. v \in d.versions /\ v.claim = c  BY DEF Highest, OpenOf, VersionsOf
  <2>2. v \in [id: 1 .. n - 1, claim: 1 .. n - 1, number: 1 .. n - 1,
               status: {"accepted", "stale"}, open: BOOLEAN]
    BY <1>4, <2>1
  <2>3. \A open : [v EXCEPT !.open = open]
                     = [id |-> v.id, claim |-> v.claim, number |-> v.number,
                        status |-> v.status, open |-> open]
    BY <2>2, RowWithOpen
  <2>4. [v EXCEPT !.open = FALSE] = [id |-> v.id, claim |-> c, number |-> v.number,
                                     status |-> v.status, open |-> FALSE]
    BY <2>1, <2>3, Zenon
  <2> QED  BY <2>1, <2>4, Zenon
<1>7. \A v \in Highest(OpenOf(d, c)) : \E x \in closed : x = [v EXCEPT !.open = FALSE]
  OBVIOUS
<1> HIDE DEF status, number, next, row, closed
<1>8. /\ e.memories = d.memories
      /\ e.claims = Upsert(d.claims, {row})
      /\ e.versions = Upsert(d.versions, closed \cup {next})
  BY <1>1
<1> HIDE DEF e
<1>9. \A v \in e.versions :
         \/ v = next
         \/ v \in closed
         \/ v \in d.versions /\ \A x \in closed \cup {next} : x.id # v.id
  BY <1>8 DEF Upsert
<1>10. \A x \in closed : x \in e.versions  BY <1>8 DEF Upsert
<1>11. \A w \in d.versions :
          \/ w \in e.versions
          \/ \E x \in closed : x \in e.versions /\ SameVersion(x, w) /\ w.claim = c
  <2> SUFFICES ASSUME NEW w \in d.versions, w \notin e.versions
               PROVE  \E x \in closed : x \in e.versions /\ SameVersion(x, w) /\ w.claim = c
    OBVIOUS
  <2>1. w.id # next.id  BY <1>2, <1>4
  <2>2. PICK x \in closed : x.id = w.id  BY <1>8, <2>1 DEF Upsert
  <2>3. PICK v \in d.versions : v.claim = c
            /\ x = [id |-> v.id, claim |-> c, number |-> v.number, status |-> v.status,
                    open |-> FALSE]
    BY <1>6
  <2>4. w.claim = c /\ w.number = v.number
    BY <2>2, <2>3 DEF SameRows
  <2> QED  BY <1>10, <2>2, <2>3, <2>4 DEF SameVersion
<1>12. Adds(d, e, n, next)
  <2>1. e \in [memories: SUBSET (1 .. n),
               claims: SUBSET [id: 1 .. n, status: {"accepted", "stale"}],
               versions: SUBSET [id: 1 .. n, claim: 1 .. n, number: 1 .. n,
                                 status: {"accepted", "stale"}, open: BOOLEAN]]
    <3>0. 1 .. n - 1 \subseteq 1 .. n /\ n \in 1 .. n  OBVIOUS
    <3>1. d.memories \subseteq 1 .. n  BY <3>0 DEF Sane
    <3>2. row \in [id: 1 .. n, status: {"accepted", "stale"}]
      BY <3>0, <1>3, <1>4 DEF row
    <3>3. e.claims \subseteq [id: 1 .. n, status: {"accepted", "stale"}]
      BY <3>0, <3>2, <1>8 DEF Sane, Upsert
    <3>4. next \in [id: 1 .. n, claim: 1 .. n, number: 1 .. n,
                    status: {"accepted", "stale"}, open: BOOLEAN]
      BY <3>0, <1>3, <1>4, <1>5 DEF next
    <3>5. \A x \in closed : x \in [id: 1 .. n, claim: 1 .. n, number: 1 .. n,
                                   status: {"accepted", "stale"}, open: BOOLEAN]
      <4> SUFFICES ASSUME NEW x \in closed
                   PROVE  x \in [id: 1 .. n, claim: 1 .. n, number: 1 .. n,
                                 status: {"accepted", "stale"}, open: BOOLEAN]
        OBVIOUS
      <4>1. PICK v \in d.versions : v.claim = c
              /\ x = [id |-> v.id, claim |-> c, number |-> v.number, status |-> v.status,
                      open |-> FALSE]
        BY <1>6
      <4> QED  BY <3>0, <4>1, <1>4
    <3>6. \A v \in d.versions : v \in [id: 1 .. n, claim: 1 .. n, number: 1 .. n,
                                       status: {"accepted", "stale"}, open: BOOLEAN]
      BY <3>0, <1>4
    <3>7. e.versions \subseteq [id: 1 .. n, claim: 1 .. n, number: 1 .. n,
                                status: {"accepted", "stale"}, open: BOOLEAN]
      BY <3>4, <3>5, <3>6, <1>9
    <3>8. e = [memories |-> e.memories, claims |-> e.claims, versions |-> e.versions]
      BY <1>1 DEF e
    <3> QED  BY <3>1, <3>3, <3>7, <3>8, <1>8
  <2>2. next \in e.versions /\ next.number <= n  BY <1>2, <1>5, <1>8 DEF Upsert
  <2>3. \A w \in VersionsOf(d, next.claim) : w.number < next.number  BY <1>2, <1>5
  <2>4. \A v \in e.versions :
          v = next \/ \E w \in d.versions : /\ SameVersion(v, w)
                                            /\ v.claim # next.claim => v = w
    <3> SUFFICES ASSUME NEW v \in closed
                 PROVE  \E w \in d.versions : /\ SameVersion(v, w)
                                              /\ v.claim # next.claim => v = w
      BY <1>9 DEF SameVersion
    <3> QED  BY <1>2, <1>6 DEF SameVersion
  <2>5. \A w \in d.versions :
          /\ \E v \in e.versions : SameVersion(v, w)
          /\ w.claim # next.claim => w \in e.versions
    BY <1>2, <1>11 DEF SameVersion
  <2>6. \A s \in e.claims : IF s.id = next.claim THEN s.status = next.status /\ s.id \in e.memories
                            ELSE s \in d.claims
    BY <1>2, <1>4, <1>8 DEF Upsert
  <2>7. \E s \in e.claims : s.id = next.claim  BY <1>2, <1>8 DEF Upsert
  <2>8. \A s \in d.claims : \E x \in e.claims : x.id = s.id  BY <1>8, <1>2 DEF Upsert
  <2>9. ASSUME Coherent(d), NEW v \in VersionsOf(e, next.claim), v.open  PROVE v = next
    <3>1. v \notin closed  BY <2>9, <1>6
    <3>2. SUFFICES ASSUME v # next PROVE FALSE  OBVIOUS
    <3>3. v \in d.versions /\ \A x \in closed : x.id # v.id
      BY <3>1, <3>2, <2>9, <1>9 DEF VersionsOf
    <3>4. v \in OpenOf(d, c) /\ OpenOf(d, c) = Highest(VersionsOf(d, c))
      BY <3>3, <2>9, <1>2 DEF OpenOf, VersionsOf, Coherent
    <3>5. v \in Highest(OpenOf(d, c))
      BY <3>4 DEF Highest, OpenOf
    <3>6. PICK x \in closed : x = [v EXCEPT !.open = FALSE]  BY <3>5, <1>7
    <3>7. x.id = v.id  BY <3>3, <3>6, <1>4
    <3> QED  BY <3>3, <3>7
  <2> QED  BY <1>2, <1>8, <2>1, <2>2, <2>3, <2>4, <2>5, <2>6, <2>7, <2>8, <2>9 DEF Adds
<1> QED  BY <1>12 DEF e

-----------------------------------------------------------------------------
\* The rows an import merges.

\* A version of the merged database is of the archive, or of the database and
\* not in the archive.
LEMMA MergedVersions ==
    ASSUME NEW d, NEW e
    PROVE  /\ \A v : v \in Merge(d, e).versions
                 <=> v \in e.versions \/ (v \in d.versions /\ v.id \notin Included(e))
           /\ \A r : r \in Merge(d, e).claims
                 <=> r \in e.claims \/ (r \in d.claims /\ \A s \in e.claims : s.id # r.id)
           /\ Merge(d, e).memories = d.memories \cup e.memories
BY DEF Merge, Upsert, Included

\* import_jsonl keeps what is true of a database in itself, whatever archive
\* is merged over it: rows under one name are one version of one claim.
LEMMA MergeFits ==
    ASSUME NEW n, NEW d, NEW e, Sane(d, n), Sane(e, n), n \in Nat, Topped(d), Topped(e),
           SameRows(d, d), SameRows(e, e), SameRows(d, e), SameRows(e, d),
           Good(d), Covered(e, e), Intact(Merge(d, e))
    PROVE  /\ Sane(Merge(d, e), n) /\ Topped(Merge(d, e)) /\ Good(Merge(d, e))
           /\ \A x : SameRows(d, x) /\ SameRows(e, x) => SameRows(Merge(d, e), x)
           /\ \A x : SameRows(x, d) /\ SameRows(x, e) => SameRows(x, Merge(d, e))
<1> DEFINE f == Merge(d, e)
<1>1. /\ \A v : v \in f.versions
            <=> v \in e.versions \/ (v \in d.versions /\ v.id \notin Included(e))
      /\ \A r : r \in f.claims
            <=> r \in e.claims \/ (r \in d.claims /\ \A s \in e.claims : s.id # r.id)
      /\ f.memories = d.memories \cup e.memories
      /\ f = [memories |-> f.memories, claims |-> f.claims, versions |-> f.versions]
  BY MergedVersions DEF Merge
<1> HIDE DEF f
<1>2. \A v \in f.versions : v \in d.versions \/ v \in e.versions  BY <1>1
<1>3. \A v \in d.versions \cup e.versions : v.number \in Nat /\ v.number <= v.id
  BY DEF Sane
<1>4. \A v \in d.versions : \E w \in f.versions : w.claim = v.claim /\ w.number = v.number
  <2> SUFFICES ASSUME NEW v \in d.versions
               PROVE  \E w \in f.versions : w.claim = v.claim /\ w.number = v.number
    OBVIOUS
  <2>1. CASE v.id \notin Included(e)  BY <2>1, <1>1
  <2>2. CASE v.id \in Included(e)
    <3>1. PICK w \in e.versions : w.id = v.id  BY <2>2 DEF Included
    <3>2. w.claim = v.claim /\ w.number = v.number  BY <3>1 DEF SameRows
    <3> QED  BY <3>2, <1>1
  <2> QED  BY <2>1, <2>2
<1>5. Sane(f, n)
  <2>1. f.versions \subseteq [id: 1 .. n, claim: 1 .. n, number: 1 .. n,
                              status: {"accepted", "stale"}, open: BOOLEAN]
    BY <1>2 DEF Sane
  <2>2. f.claims \subseteq [id: 1 .. n, status: {"accepted", "stale"}]
    BY <1>1 DEF Sane
  <2>3. f.memories \subseteq 1 .. n  BY <1>1 DEF Sane
  <2>4. \A v \in f.versions : v.number <= v.id  BY <1>2, <1>3
  <2>5. f \in [memories: SUBSET (1 .. n),
               claims: SUBSET [id: 1 .. n, status: {"accepted", "stale"}],
               versions: SUBSET [id: 1 .. n, claim: 1 .. n, number: 1 .. n,
                                 status: {"accepted", "stale"}, open: BOOLEAN]]
    BY <1>1, <2>1, <2>2, <2>3
  <2> QED  BY <2>4, <2>5 DEF Sane
<1>6. Topped(f)
  <2> SUFFICES ASSUME NEW v \in f.versions
               PROVE  \E g \in f.versions : /\ g.claim = v.claim
                                            /\ \A w \in f.versions :
                                                 w.claim = v.claim => w.number <= g.number
    BY DEF Topped, Highest, VersionsOf
  <2>1. \A x \in {d, e} : \A w \in x.versions : w.claim = v.claim =>
           \E g \in x.versions : /\ g.claim = v.claim
                                 /\ \A y \in x.versions :
                                      y.claim = v.claim => y.number <= g.number
    BY DEF Topped, Highest, VersionsOf
  <2>2. CASE \A w \in d.versions : w.claim # v.claim
    BY <2>1, <2>2, <1>1, <1>2
  <2>3. CASE \A w \in e.versions : w.claim # v.claim
    <3>1. PICK g \in d.versions : /\ g.claim = v.claim
                                  /\ \A y \in d.versions :
                                       y.claim = v.claim => y.number <= g.number
      BY <2>1, <2>3, <1>2
    <3>2. PICK h \in f.versions : h.claim = g.claim /\ h.number = g.number  BY <1>4
    <3> QED  BY <2>3, <3>1, <3>2, <1>2
  <2>4. ASSUME NEW a \in d.versions, a.claim = v.claim,
               NEW b \in e.versions, b.claim = v.claim
        PROVE  \E g \in f.versions : /\ g.claim = v.claim
                                     /\ \A w \in f.versions :
                                          w.claim = v.claim => w.number <= g.number
    <3>1. PICK g \in d.versions : /\ g.claim = v.claim
                                  /\ \A y \in d.versions :
                                       y.claim = v.claim => y.number <= g.number
      BY <2>1, <2>4
    <3>2. PICK h \in e.versions : /\ h.claim = v.claim
                                  /\ \A y \in e.versions :
                                       y.claim = v.claim => y.number <= h.number
      BY <2>1, <2>4
    <3>3. PICK k \in f.versions : k.claim = g.claim /\ k.number = g.number  BY <1>4
    <3>4. h \in f.versions  BY <1>1
    <3>5. g.number \in Nat /\ h.number \in Nat
          /\ \A y \in f.versions : y.number \in Nat
      BY <1>2, <1>3
    <3>6. CASE g.number <= h.number  BY <3>1, <3>2, <3>4, <3>5, <3>6, <1>2
    <3>7. CASE h.number <= g.number  BY <3>1, <3>2, <3>3, <3>5, <3>7, <1>2
    <3> QED  BY <3>5, <3>6, <3>7
  <2> QED  BY <2>2, <2>3, <2>4
<1>7. Covered(f, f)
  <2> SUFFICES ASSUME NEW r \in f.claims PROVE \E v \in f.versions : v.claim = r.id
    BY DEF Covered, VersionsOf
  <2>1. CASE r \in e.claims
    <3>1. PICK v \in e.versions : v.claim = r.id  BY <2>1 DEF Covered, VersionsOf
    <3> QED  BY <3>1, <1>1
  <2>2. CASE r \in d.claims
    <3>1. PICK v \in d.versions : v.claim = r.id  BY <2>2 DEF Good, Covered, VersionsOf
    <3> QED  BY <3>1, <1>4
  <2> QED  BY <2>1, <2>2, <1>1
<1>8. \A x : SameRows(d, x) /\ SameRows(e, x) => SameRows(f, x)
  BY <1>2 DEF SameRows
<1>9. \A x : SameRows(x, d) /\ SameRows(x, e) => SameRows(x, f)
  BY <1>2 DEF SameRows
<1> QED  BY <1>5, <1>6, <1>7, <1>8, <1>9 DEF Good, f

\* An import of an archive that has every version there is of its claims.
LEMMA MergeCoheres ==
    ASSUME NEW d, NEW e, SameRows(d, e), Coherent(d), Coherent(e), Intact(e),
           ~GoesBack(d, e)
    PROVE  Coherent(Merge(d, e))
<1> DEFINE f == Merge(d, e)
<1>1. /\ \A v : v \in f.versions
            <=> v \in e.versions \/ (v \in d.versions /\ v.id \notin Included(e))
      /\ \A r : r \in f.claims
            <=> r \in e.claims \/ (r \in d.claims /\ \A s \in e.claims : s.id # r.id)
  BY MergedVersions
<1> HIDE DEF f
<1> SUFFICES ASSUME NEW r \in f.claims
             PROVE  \E x \in {d, e} : r \in x.claims /\ VersionsOf(f, r.id) = VersionsOf(x, r.id)
  BY DEF Coherent, OpenOf, f
<1>2. CASE r \in e.claims
  <2>1. \A v \in d.versions : v.claim = r.id => v.id \in Included(e)
    BY <1>2 DEF GoesBack
  <2>2. VersionsOf(f, r.id) = VersionsOf(e, r.id)
    BY <2>1, <1>1 DEF VersionsOf
  <2> QED  BY <1>2, <2>2
<1>3. CASE r \in d.claims /\ \A s \in e.claims : s.id # r.id
  <2>1. \A v \in e.versions : v.claim # r.id
    BY <1>3 DEF Intact
  <2>2. \A v \in d.versions : v.claim = r.id => v.id \notin Included(e)
    BY <2>1 DEF Included, SameRows
  <2>3. VersionsOf(f, r.id) = VersionsOf(d, r.id)
    BY <2>1, <2>2, <1>1 DEF VersionsOf
  <2> QED  BY <1>3, <2>3
<1> QED  BY <1>1, <1>2, <1>3

-----------------------------------------------------------------------------
\* The steps and the histories.

LEMMA SaneIsData ==
    ASSUME NEW d, NEW n \in Nat, n <= MaxCommits, Sane(d, n)
    PROVE  d \in Data
<1>1. 1 .. n \subseteq Commits  BY BoundsAssumption DEF Commits
<1>2. Version = [id: Commits, claim: Commits, number: Commits,
                 status: {"accepted", "stale"}, open: BOOLEAN]
  BY DEF Version
<1>3. d.versions \subseteq Version
  <2> SUFFICES ASSUME NEW v \in d.versions PROVE v \in Version  OBVIOUS
  <2>1. v \in [id: 1 .. n, claim: 1 .. n, number: 1 .. n,
               status: {"accepted", "stale"}, open: BOOLEAN]
    BY DEF Sane
  <2> QED  BY <1>1, <1>2, <2>1
<1>4. d.claims \subseteq [id: Commits, status: {"accepted", "stale"}]
  BY <1>1 DEF Sane
<1>5. d.memories \subseteq Commits  BY <1>1 DEF Sane
<1>6. d = [memories |-> d.memories, claims |-> d.claims, versions |-> d.versions]
  BY DEF Sane
<1> QED  BY <1>3, <1>4, <1>5, <1>6 DEF Data

\* A new database.
LEMMA EmptyFits ==
    /\ \A n \in Nat : Sane(Empty, n)
    /\ Topped(Empty) /\ Good(Empty) /\ Coherent(Empty)
    /\ \A x : SameRows(Empty, x) /\ SameRows(x, Empty)
BY DEF Empty, Sane, Topped, Good, Covered, Intact, Coherent, SameRows

\* What is read at the path is the file or the end of its WAL.
LEMMA ViewIsStored ==
    ASSUME wal \in Seq(Data)
    PROVE  View \in Databases /\ View \in Stores
<1>1. wal # << >> => Len(wal) \in 1 .. Len(wal)  OBVIOUS
<1>2. View \in Databases  BY <1>1 DEF View, Databases, Last
<1> QED  BY <1>2 DEF Stores

\* With d every store is one there was.
LEMMA Carry ==
    ASSUME Numbered, commits \in Nat, commits' \in Nat, commits <= commits',
           NEW d, Sane(d, commits'), Topped(d),
           \A x \in Stores \cup {d} : SameRows(d, x) /\ SameRows(x, d),
           Stores' \subseteq Stores \cup {d},
           \A x \in Databases' : x \in Databases \/ Good(x)
    PROVE  Numbered'
<1>1. \A x \in Stores : Sane(x, commits')
  BY SaneGrows DEF Numbered
<1>2. \A x \in Stores' : Sane(x, commits') /\ Topped(x)
  BY <1>1 DEF Numbered
<1>3. \A x, y \in Stores' : SameRows(x, y)
  BY DEF Numbered
<1>4. \A x \in Databases' : Good(x)
  BY DEF Numbered
<1> QED  BY <1>2, <1>3, <1>4 DEF Numbered

\* A step that moves databases and may write one, d.
Fresh(d, n, whole) ==
    /\ Sane(d, n) /\ Topped(d) /\ Good(d)
    /\ \A x \in Stores \cup {d} : SameRows(d, x) /\ SameRows(x, d)
    /\ whole => Coherent(d)

\* Each place holds one of the databases.
From(S, f, o, a) ==
    /\ f \in S /\ o.before \in S /\ o.rollback \in S
    /\ a.backups \subseteq S
    /\ o.at \notin Exporting => o.data \in S

Shaped(o) ==
    /\ o.at \in Steps /\ o.replaced \in BOOLEAN /\ o.alone \in BOOLEAN
    /\ o = [at |-> o.at, data |-> o.data, before |-> o.before, rollback |-> o.rollback,
            replaced |-> o.replaced, alone |-> o.alone]

\* The record of an operation, put together and taken apart.
LEMMA OperationType ==
    ASSUME NEW o, Shaped(o), o.data \in Data, o.before \in Data, o.rollback \in Data
    PROVE  o \in [at: Steps, data: Data, before: Data, rollback: Data,
                  replaced: BOOLEAN, alone: BOOLEAN]
<1> USE DEF Shaped
<1> HIDE DEF Steps, Data
<1> QED  OBVIOUS

LEMMA OperationShape ==
    ASSUME HistoryInv
    PROVE  Shaped(op)
BY DEF HistoryInv, Shaped

\* A step that writes one database at most.
LEMMA Flow ==
    ASSUME HistoryInv, NEW d, Fresh(d, commits', marks' = {}),
           From(Databases \cup {d}, file', op', archive'),
           Counted', commits <= commits', marks \subseteq marks',
           Shaped(op'), op'.at \in Exporting => op'.data = op.data,
           archive'.export = archive.export,
           wal' = wal \/ wal' = << >> \/ wal' = Append(wal, d),
           Reading'
    PROVE  HistoryInv'
<1>1. /\ commits \in Nat /\ commits' \in Nat /\ commits' <= MaxCommits
      /\ Numbered /\ Agreed /\ Exported /\ wal \in Seq(Data)
      /\ MaxCommits \in Nat
  BY BoundsAssumption DEF HistoryInv, Counted
<1>2. /\ Sane(d, commits') /\ Topped(d) /\ Good(d)
      /\ \A x \in Stores \cup {d} : SameRows(d, x) /\ SameRows(x, d)
      /\ marks' = {} => Coherent(d)
  BY DEF Fresh
<1>3. d \in Data  BY <1>1, <1>2, SaneIsData
<1>4. wal' \in Seq(Data) /\ \A k \in 1 .. Len(wal') : wal'[k] \in Databases \cup {d}
  <2>0. \A k \in 1 .. Len(wal) : wal[k] \in Databases  BY DEF Databases
  <2>1. CASE wal' = wal  BY <2>0, <2>1, <1>1
  <2>2. CASE wal' = << >>  BY <2>2
  <2>3. CASE wal' = Append(wal, d)
    <3>1. /\ wal' \in Seq(Data) /\ Len(wal') = Len(wal) + 1 /\ Len(wal) \in Nat
          /\ wal'[Len(wal) + 1] = d
          /\ \A k \in 1 .. Len(wal) : wal'[k] = wal[k]
      BY <1>1, <1>3, <2>3, AppendProperties
    <3> QED  BY <2>0, <3>1
  <2> QED  BY <2>1, <2>2, <2>3
<1>5. Databases' \subseteq Databases \cup {d}
  <2>1. Empty' = Empty /\ Empty \in Databases  BY DEF Databases, Empty
  <2> QED  BY <1>4, <2>1 DEF Databases, From
<1>6. Stores' \subseteq Stores \cup {d}
  <2>1. op'.data \in Stores \cup {d}  BY DEF From, Stores
  <2> QED  BY <1>5, <2>1 DEF Stores
<1>7. Numbered'
  <2>1. \A x \in Databases' : x \in Databases \/ Good(x)  BY <1>2, <1>5
  <2> HIDE DEF Databases, Stores
  <2> QED  BY <1>1, <1>2, <1>6, <2>1, Carry
<1>8. \A x \in Stores' : x \in Data
  BY <1>1, <1>7, SaneIsData DEF Numbered
<1>9. op' \in [at: Steps, data: Data, before: Data, rollback: Data,
               replaced: BOOLEAN, alone: BOOLEAN]
  <2>1. op'.data \in Data /\ op'.before \in Data /\ op'.rollback \in Data
    BY <1>8 DEF Stores, Databases
  <2> QED  BY <2>1, OperationType
<1>10. Exported'  BY <1>1 DEF Exported
<1>11. Agreed'
  <2> SUFFICES ASSUME marks' = {} PROVE Agreed'  BY DEF Agreed
  <2>1. marks = {}  OBVIOUS
  <2>2. \A x \in Databases' : Coherent(x)  BY <1>1, <1>2, <1>5, <2>1 DEF Agreed
  <2> QED  BY <1>1, <2>1, <2>2 DEF Agreed
<1> QED  BY <1>1, <1>4, <1>7, <1>9, <1>10, <1>11 DEF HistoryInv

\* A step that writes none.
LEMMA Moves ==
    ASSUME HistoryInv, From(Databases, file', op', archive'),
           Counted', commits <= commits', marks \subseteq marks',
           Shaped(op'), op'.at \in Exporting => op'.data = op.data,
           archive'.export = archive.export,
           wal' = wal \/ wal' = << >>,
           Reading'
    PROVE  HistoryInv'
<1>1. Fresh(Empty, commits', marks' = {})
  <2>1. commits' \in Nat  BY DEF Counted
  <2> QED  BY <2>1, EmptyFits DEF Fresh
<1>2. From(Databases \cup {Empty}, file', op', archive')  BY DEF From
<1> QED  BY <1>1, <1>2, Flow

\* A step of another process leaves an export where it is.
LEMMA ReadsOn ==
    ASSUME Reading, View' = View, op' = op  PROVE Reading'
BY DEF Reading

LEMMA ReadsNothing ==
    ASSUME op'.at \notin Exporting  PROVE Reading'
BY DEF Reading

LEMMA PlacesAreStored ==
    /\ From(Databases, file, op, archive)
    /\ \A k \in 1 .. Len(wal) : wal[k] \in Databases
    /\ Empty \in Databases
BY DEF From, Databases

\* A step that commits nothing and begins one call at most.
LEMMA CountsKept ==
    ASSUME Counted, commits' = commits, late' = late,
           ops' = ops \/ (ops' = ops + 1 /\ ops < MaxOps),
           marks \subseteq marks', marks' \subseteq marks \cup {"gap", "torn", "stale", "merge"}
    PROVE  Counted' /\ commits <= commits' /\ marks \subseteq marks'
<1>1. ops' \in 0 .. MaxOps  BY BoundsAssumption DEF Counted
<1>2. commits \in Nat /\ commits' = commits  BY DEF Counted
<1>3. marks \subseteq marks' /\ marks' \subseteq {"gap", "torn", "stale", "merge"}
  BY DEF Counted
<1> QED  BY <1>1, <1>2, <1>3 DEF Counted

\* Open, close and crash: the last close may move the WAL into the file.
LEMMA OpenHistory ==
    ASSUME HistoryInv, NEW p \in Peer, Open(p)  PROVE HistoryInv'
<1>1. UNCHANGED <<file, wal, archive, op, ops, commits, late>>
      /\ marks \subseteq marks' /\ marks' \subseteq marks \cup {"gap", "torn", "stale", "merge"}
  BY DEF Open
<1>2. View' = View  BY <1>1 DEF View
<1>3. Reading'  BY <1>1, <1>2, ReadsOn DEF HistoryInv
<1>4. Counted' /\ commits <= commits' /\ marks \subseteq marks'
  BY <1>1, CountsKept DEF HistoryInv
<1>5. Shaped(op')  BY <1>1, OperationShape
<1>6. From(Databases, file', op', archive')  BY <1>1, PlacesAreStored
<1> QED  BY <1>1, <1>3, <1>4, <1>5, <1>6, Moves

LEMMA CloseHistory ==
    ASSUME HistoryInv, NEW p \in Peer, Close(p) \/ Crash(p)  PROVE HistoryInv'
<1>1. UNCHANGED <<archive, op, ops, commits, late>>
      /\ marks \subseteq marks' /\ marks' \subseteq marks \cup {"gap", "torn", "stale", "merge"}
  BY DEF Close, Crash
<1>2. UNCHANGED <<file, wal>> \/ (file' = View /\ wal' = << >>)
  BY DEF Close, Crash
<1>3. View' = View  BY <1>2 DEF View
<1>4. Reading'  BY <1>1, <1>3, ReadsOn DEF HistoryInv
<1>5. Counted' /\ commits <= commits' /\ marks \subseteq marks'
  BY <1>1, CountsKept DEF HistoryInv
<1>6. Shaped(op')  BY <1>1, OperationShape
<1>7. View \in Databases  BY ViewIsStored DEF HistoryInv
<1>8. From(Databases, file', op', archive')
  BY <1>1, <1>2, <1>7, PlacesAreStored DEF From
<1> QED  BY <1>1, <1>2, <1>4, <1>5, <1>6, <1>8, Moves

\* What a commit writes.
LEMMA CommitWrites ==
    ASSUME HistoryInv, NEW n, n = commits + 1,
           NEW d \in {Learn(View, n)} \cup {Revise(View, r.id, n) : r \in View.claims}
    PROVE  /\ \A whole \in BOOLEAN : (whole => marks = {}) => Fresh(d, n, whole)
           /\ \A x : Covered(x, View) => Covered(x, d)
<1>1. View \in Databases /\ View \in Stores
  BY ViewIsStored DEF HistoryInv
<1>2. n \in Nat \ {0} /\ n - 1 = commits /\ commits \in Nat
  BY DEF HistoryInv, Counted
<1>3. Sane(View, n - 1) /\ Topped(View) /\ Good(View) /\ SameRows(View, View)
  BY <1>1, <1>2 DEF HistoryInv, Numbered
<1>4. \E next : Adds(View, d, n, next)
  <2>1. CASE d = Learn(View, n)  BY <2>1, <1>2, <1>3, LearnAdds
  <2>2. ASSUME NEW r \in View.claims, d = Revise(View, r.id, n)
        PROVE  \E next : Adds(View, d, n, next)
    BY <2>2, <1>2, <1>3, ReviseAdds
  <2> QED  BY <2>1, <2>2
<1>5. PICK next : Adds(View, d, n, next)  BY <1>4
<1>6. /\ Sane(d, n) /\ Topped(d) /\ Good(d) /\ SameRows(d, d)
      /\ Coherent(View) => Coherent(d)
  BY <1>2, <1>3, <1>5, AddsFits
<1>7. \A x \in Stores : SameRows(d, x) /\ SameRows(x, d)
  <2> SUFFICES ASSUME NEW x \in Stores PROVE SameRows(d, x) /\ SameRows(x, d)  OBVIOUS
  <2>1. Sane(x, n - 1) /\ SameRows(View, x)
    BY <1>1, <1>2 DEF HistoryInv, Numbered
  <2> QED  BY <2>1, <1>2, <1>5, AddsAgrees
<1>8. marks = {} => Coherent(View)  BY <1>1 DEF HistoryInv, Agreed
<1>9. \A x : Covered(x, View) => Covered(x, d)
  <2> SUFFICES ASSUME NEW v \in View.versions PROVE VersionsOf(d, v.claim) # {}
    BY DEF Covered, VersionsOf
  <2> QED  BY <1>5 DEF Adds, SameVersion, VersionsOf
<1>10. ASSUME NEW whole \in BOOLEAN, whole => marks = {}  PROVE Fresh(d, n, whole)
  BY <1>6, <1>7, <1>8, <1>10 DEF Fresh
<1> QED  BY <1>9, <1>10

LEMMA CommitHistory ==
    ASSUME HistoryInv, NEW p \in Peer, Commit(p)  PROVE HistoryInv'
<1>1. /\ commits' = commits + 1 /\ commits < MaxCommits
      /\ UNCHANGED <<file, archive, ops, marks>>
      /\ late' = late \/ late' = late \cup {commits'}
      /\ op' = Idle \/ (~Ended /\ op' = NotAlone)
  BY DEF Commit
<1>2. commits \in Nat /\ commits' \in 1 .. MaxCommits
      /\ 1 .. commits' = (1 .. commits) \cup {commits'}
  BY <1>1, BoundsAssumption DEF HistoryInv, Counted
<1>3. Counted' /\ commits <= commits' /\ marks \subseteq marks'
  <2>1. commits <= commits' /\ marks \subseteq marks'  BY <1>1, <1>2
  <2>2. late' \subseteq 1 .. commits'  BY <1>1, <1>2 DEF HistoryInv, Counted
  <2>3. commits' \in 0 .. MaxCommits  BY <1>2
  <2> QED  BY <1>1, <2>1, <2>2, <2>3 DEF HistoryInv, Counted
<1>4. Shaped(op)  BY OperationShape
<1>5. /\ Shaped(op')
      /\ op'.at \in Exporting => op'.data = op.data /\ op.at = op'.at /\ ~op'.alone
      /\ op'.before \in {op.before, Empty} /\ op'.rollback \in {op.rollback, Empty}
      /\ op'.data = Empty \/ (op'.data = op.data /\ op'.at = op.at)
  <2>1. CASE op' = Idle
    BY <2>1 DEF Shaped, Idle, Steps, Exporting
  <2>2. CASE op' = NotAlone
    <3>1. op' = [at |-> op.at, data |-> op.data, before |-> op.before,
                 rollback |-> op.rollback, replaced |-> op.replaced, alone |-> FALSE]
      BY <2>2, <1>4 DEF NotAlone, Shaped
    <3> QED  BY <3>1, <1>4 DEF Shaped
  <2> QED  BY <1>1, <2>1, <2>2
<1>6. From(Databases, file', op', archive')
  BY <1>1, <1>5, PlacesAreStored DEF From
<1>7. CASE conn[p] = "here"
  <2>1. PICK d \in {Learn(View, commits')} \cup {Revise(View, r.id, commits') : r \in View.claims} :
            wal' = Append(wal, d)
    BY <1>1, <1>7 DEF Commit
  <2>2. Fresh(d, commits', marks' = {}) /\ \A x : Covered(x, View) => Covered(x, d)
    BY <1>1, CommitWrites
  <2>3. View' = d
    <3>1. \E S : wal \in Seq(S)  BY DEF HistoryInv
    <3> QED  BY <2>1, <3>1, AppendReads
  <2>4. Reading'
    BY <1>5, <2>2, <2>3 DEF HistoryInv, Reading, Covered
  <2>5. From(Databases \cup {d}, file', op', archive')  BY <1>6 DEF From
  <2> QED  BY <1>1, <1>3, <1>5, <2>1, <2>2, <2>4, <2>5, Flow
<1>8. CASE conn[p] # "here"
  <2>1. wal' = wal /\ View' = View  BY <1>1, <1>8 DEF Commit, View
  <2>2. Reading'  BY <1>5, <2>1 DEF HistoryInv, Reading, Covered
  <2> QED  BY <1>1, <1>3, <1>5, <1>6, <2>1, <2>2, Moves
<1> QED  BY <1>7, <1>8

\* A backup is a copy of what the database says; so is what restore works with.
LEMMA BackupHistory ==
    ASSUME HistoryInv, Shapes, CreateBackup \/ Safeguard  PROVE HistoryInv'
<1>1. /\ UNCHANGED <<file, wal, conn, commits, late, marks>>
      /\ ops' = ops + 1 /\ ops < MaxOps
      /\ archive' = [archive EXCEPT !.backups = @ \cup {Snapshot}]
  BY DEF CreateBackup, Safeguard, Begin
<1>2. /\ archive'.backups = archive.backups \cup {View}
      /\ archive'.export = archive.export
  BY <1>1 DEF Shapes, Snapshot
<1>3. View \in Databases /\ Empty \in Databases
  BY ViewIsStored, PlacesAreStored DEF HistoryInv
<1>4. op' = Idle \/ (\E data \in archive.backups :
                        op' = [Idle EXCEPT !.at = "safe", !.data = data, !.before = View])
  BY DEF CreateBackup, Safeguard
<1>5. /\ Shaped(op') /\ op'.at \notin Exporting
      /\ op'.data \in Databases /\ op'.before \in Databases /\ op'.rollback \in Databases
  <2>1. CASE op' = Idle
    BY <2>1, <1>3 DEF Shaped, Idle, Steps, Exporting
  <2>2. ASSUME NEW data \in archive.backups,
               op' = [Idle EXCEPT !.at = "safe", !.data = data, !.before = View]
        PROVE  /\ Shaped(op') /\ op'.at \notin Exporting
               /\ op'.data \in Databases /\ op'.before \in Databases
               /\ op'.rollback \in Databases
    <3>1. op' = [at |-> "safe", data |-> data, before |-> View, rollback |-> Empty,
                 replaced |-> FALSE, alone |-> TRUE]
      BY <2>2 DEF Idle
    <3>2. data \in Databases  BY DEF Databases
    <3> QED  BY <3>1, <3>2, <1>3 DEF Shaped, Steps, Restoring, Exporting
  <2> QED  BY <1>4, <2>1, <2>2
<1>6. Reading'  BY <1>5, ReadsNothing
<1>7. Counted' /\ commits <= commits' /\ marks \subseteq marks'
  BY <1>1, CountsKept DEF HistoryInv
<1>8. From(Databases, file', op', archive')
  BY <1>1, <1>2, <1>3, <1>5, PlacesAreStored DEF From
<1> QED  BY <1>1, <1>2, <1>5, <1>6, <1>7, <1>8, Moves

\* A step of restore goes on with the databases there are.
LEMMA StepHistory ==
    ASSUME HistoryInv, UNCHANGED <<archive, ops, commits, late>>,
           marks' = marks \/ marks' = marks \cup {"torn"},
           op.at \in Restoring, NEW at \in Restoring \cup Outcomes,
           NEW rollback \in Databases, NEW replaced \in BOOLEAN, NEW alone \in BOOLEAN,
           op' = [at |-> at, data |-> op.data, before |-> op.before,
                  rollback |-> rollback, replaced |-> replaced, alone |-> alone],
           file' \in Databases, wal' = wal \/ wal' = << >>
    PROVE  HistoryInv'
<1>1. op.at \notin Exporting /\ at \notin Exporting
  BY DEF Restoring, Outcomes, Exporting
<1>2. /\ Shaped(op') /\ op'.at = at /\ op'.data = op.data /\ op'.before = op.before
      /\ op'.rollback = rollback
  BY DEF Shaped, Steps
<1>3. Reading'  BY <1>1, <1>2, ReadsNothing
<1>4. Counted' /\ commits <= commits' /\ marks \subseteq marks'
  BY CountsKept DEF HistoryInv
<1>5. From(Databases, file', op', archive')
  BY <1>1, <1>2, PlacesAreStored DEF From
<1> QED  BY <1>1, <1>2, <1>3, <1>4, <1>5, Moves

LEMMA RestoreHistory ==
    ASSUME HistoryInv, Shapes, Restore  PROVE HistoryInv'
<1>0. /\ From(Databases, file, op, archive) /\ View \in Databases
      /\ \A k \in 1 .. Len(wal) : wal[k] \in Databases
  BY ViewIsStored, PlacesAreStored DEF HistoryInv
<1>a. /\ op = [at |-> op.at, data |-> op.data, before |-> op.before, rollback |-> op.rollback,
               replaced |-> op.replaced, alone |-> op.alone]
      /\ op.replaced \in BOOLEAN /\ op.alone \in BOOLEAN
      /\ file \in Databases /\ op.rollback \in Databases
      /\ op.at \notin Exporting => op.data \in Databases
  BY <1>0, OperationShape DEF Shaped, From
<1>1. CASE Safeguard  BY <1>1, BackupHistory
<1>2. CASE Checkpoint
  <2>1. file' \in Databases
    BY <1>0, <1>a, <1>2 DEF Checkpoint
  <2>2. wal' = wal \/ wal' = << >>  BY <1>2 DEF Checkpoint
  <2>3. op.at = "safe" /\ UNCHANGED <<archive, ops, commits, late, marks>>
    BY <1>2 DEF Checkpoint
  <2>4. \E alone \in BOOLEAN :
           op' = [at |-> "checkpointed", data |-> op.data, before |-> op.before,
                  rollback |-> op.rollback, replaced |-> op.replaced, alone |-> alone]
    <3>1. CASE op' = [op EXCEPT !.at = "checkpointed"]  BY <3>1, <1>a
    <3>2. CASE op' = [NotAlone EXCEPT !.at = "checkpointed"]
      <4>1. op' = [at |-> "checkpointed", data |-> op.data, before |-> op.before,
                   rollback |-> op.rollback, replaced |-> op.replaced, alone |-> FALSE]
        BY <3>2, <1>a DEF NotAlone
      <4> QED  BY <4>1
    <3> QED  BY <1>2, <3>1, <3>2 DEF Checkpoint
  <2>5. "checkpointed" \in Restoring \cup Outcomes /\ op.at \in Restoring
    BY <2>3 DEF Restoring
  <2> QED  BY <1>a, <2>1, <2>2, <2>3, <2>4, <2>5, StepHistory
<1>3. CASE CopyRollback
  <2>1. op' = [at |-> "copied", data |-> op.data, before |-> op.before, rollback |-> file,
               replaced |-> op.replaced, alone |-> op.alone]
    BY <1>3, <1>a DEF CopyRollback
  <2>2. op.at \in Restoring /\ "copied" \in Restoring \cup Outcomes
        /\ UNCHANGED <<file, wal, archive, ops, commits, late, marks>>
    BY <1>3 DEF CopyRollback, Restoring
  <2> QED  BY <1>a, <2>1, <2>2, StepHistory
<1>4. ASSUME NEW from, NEW to, RemoveSidecars(from, to),
             from \in {"copied", "failed"}, to \in {"bare", "failedBare"}
      PROVE  HistoryInv'
  <2>1. op' = [at |-> to, data |-> op.data, before |-> op.before, rollback |-> op.rollback,
               replaced |-> op.replaced, alone |-> op.alone]
    BY <1>4, <1>a DEF RemoveSidecars
  <2>2. op.at \in Restoring /\ to \in Restoring \cup Outcomes /\ wal' = << >>
        /\ UNCHANGED <<file, archive, ops, commits, late, marks>>
    BY <1>4 DEF RemoveSidecars, Restoring
  <2> QED  BY <1>a, <2>1, <2>2, StepHistory
<1>5. ASSUME NEW from, NEW to, NEW data, Replace(from, to, data),
             from \in {"bare", "failedBare"}, to \in {"replaced", "reverted"},
             data \in {op.data, op.rollback}
      PROVE  HistoryInv'
  <2>1. op' = [at |-> to, data |-> op.data, before |-> op.before, rollback |-> op.rollback,
               replaced |-> TRUE, alone |-> op.alone]
    BY <1>5, <1>a DEF Replace
  <2>2. op.at \in Restoring /\ to \in Restoring \cup Outcomes /\ file' = data
        /\ UNCHANGED <<wal, archive, ops, commits, late>>
        /\ (marks' = marks \/ marks' = marks \cup {"torn"})
    BY <1>5 DEF Replace, Restoring
  <2>3. op.at \notin Exporting  BY <2>2 DEF Restoring, Exporting
  <2> QED  BY <1>a, <1>5, <2>1, <2>2, <2>3, StepHistory
<1>6. ASSUME NEW how, End(how), op.at \in Restoring, how \in Restoring \cup Outcomes
      PROVE  HistoryInv'
  <2>1. op' = [at |-> how, data |-> op.data, before |-> op.before, rollback |-> op.rollback,
               replaced |-> op.replaced, alone |-> op.alone]
    BY <1>6, <1>a DEF End
  <2>2. UNCHANGED <<file, wal, archive, ops, commits, late, marks>>
    BY <1>6 DEF End
  <2> QED  BY <1>a, <1>6, <2>1, <2>2, StepHistory
<1>7. CASE Initialize \/ Fail \/ RevertFails \/ Reinitialize \/ Kill
  BY <1>6, <1>7 DEF Initialize, Fail, RevertFails, Reinitialize, Kill, Restoring, Outcomes
<1>8. CASE Revert \/ Replace("bare", "replaced", op.data)
  BY <1>5, <1>8 DEF Revert
<1> QED  BY <1>1, <1>2, <1>3, <1>4, <1>7, <1>8 DEF Restore

\* What an export has read of the database: some of its tables.
LEMMA PartFits ==
    ASSUME HistoryInv, NEW x,
           x = [memories |-> x.memories, claims |-> x.claims, versions |-> x.versions],
           x.memories \subseteq 1 .. commits,
           x.claims \subseteq [id: 1 .. commits, status: {"accepted", "stale"}],
           x.versions = {} \/ x.versions = View.versions
    PROVE  /\ Sane(x, commits) /\ Topped(x)
           /\ \A y \in Stores \cup {x} : SameRows(x, y) /\ SameRows(y, x)
<1>1. View \in Stores  BY ViewIsStored DEF HistoryInv
<1>2. /\ Sane(View, commits) /\ Topped(View)
      /\ \A y \in Stores : SameRows(View, y) /\ SameRows(y, View)
  BY <1>1 DEF HistoryInv, Numbered
<1>3. x.versions \subseteq View.versions  OBVIOUS
<1>4. Sane(x, commits)  BY <1>2, <1>3 DEF Sane
<1>5. Topped(x)
  <2>1. CASE x.versions = {}  BY <2>1 DEF Topped
  <2>2. CASE x.versions = View.versions
    BY <1>2, <2>2 DEF Topped, VersionsOf
  <2> QED  BY <2>1, <2>2
<1>6. \A y \in Stores : SameRows(x, y) /\ SameRows(y, x)
  BY <1>2, <1>3 DEF SameRows
<1>7. SameRows(x, x)
  BY <1>1, <1>2, <1>3 DEF SameRows
<1> QED  BY <1>4, <1>5, <1>6, <1>7

\* A step of an export reads a table, the last one puts the archive on disk.
LEMMA ReadsTable ==
    ASSUME HistoryInv, UNCHANGED <<file, wal, commits, late, marks>>,
           ops' = ops \/ (ops' = ops + 1 /\ ops < MaxOps),
           archive'.backups = archive.backups,
           NEW x, x = [memories |-> x.memories, claims |-> x.claims, versions |-> x.versions],
           x.memories \subseteq 1 .. commits,
           x.claims \subseteq [id: 1 .. commits, status: {"accepted", "stale"}],
           x.versions = {} \/ x.versions = View.versions,
           Shaped(op'), op'.before \in {op.before, Empty}, op'.rollback \in {op.rollback, Empty},
           \/ /\ op'.at \in Exporting /\ op'.data = x
              /\ archive'.export = archive.export
           \/ /\ op'.at \notin Exporting /\ op'.data = Empty
              /\ archive'.export = [data |-> x, alone |-> archive'.export.alone]
              /\ archive'.export.alone \in BOOLEAN,
           Reading', Exported',
           marks = {} /\ archive'.export # NULL /\ archive'.export.alone
               => Coherent(archive'.export.data)
    PROVE  HistoryInv'
<1>1. /\ Sane(x, commits) /\ Topped(x)
      /\ \A y \in Stores \cup {x} : SameRows(x, y) /\ SameRows(y, x)
  BY PartFits
<1>2. /\ commits \in Nat /\ commits <= MaxCommits /\ MaxCommits \in Nat /\ Numbered
      /\ wal \in Seq(Data)
  BY BoundsAssumption DEF HistoryInv, Counted
<1>3. Databases' \subseteq Databases
  <2>1. Empty' = Empty  BY DEF Empty
  <2> QED  BY <2>1 DEF Databases
<1>4. Stores' \subseteq Stores \cup {x}
  <2>1. Empty \in Stores  BY DEF Stores, Databases
  <2> QED  BY <1>3, <2>1 DEF Stores
<1>5. Numbered'
  <2> HIDE DEF Databases, Stores
  <2> QED  BY <1>1, <1>2, <1>3, <1>4, Carry
<1>6. \A y \in Stores' : y \in Data
  BY <1>2, <1>5, SaneIsData DEF Numbered
<1>7. op' \in [at: Steps, data: Data, before: Data, rollback: Data,
               replaced: BOOLEAN, alone: BOOLEAN]
  <2>1. op'.data \in Data /\ op'.before \in Data /\ op'.rollback \in Data
    BY <1>6 DEF Stores, Databases
  <2> QED  BY <2>1, OperationType
<1>8. archive'.export \in {NULL} \cup [data: Data, alone: BOOLEAN]
  <2>1. x \in Data  BY <1>1, <1>2, SaneIsData
  <2>2. \A b \in BOOLEAN : [data |-> x, alone |-> b] \in [data: Data, alone: BOOLEAN]
    BY <2>1
  <2> QED  BY <2>2 DEF HistoryInv
<1>9. Counted'  BY CountsKept DEF HistoryInv
<1>10. Agreed'  BY <1>3 DEF HistoryInv, Agreed
<1> QED  BY <1>2, <1>5, <1>7, <1>8, <1>9, <1>10 DEF HistoryInv

\* An export beside commits has claims of one moment and versions of a later:
\* they have their versions, but are only called whole when nobody committed.
LEMMA ExportHistory ==
    ASSUME HistoryInv, Shapes, ExportMemories \/ ExportClaims \/ ExportVersions \/ ExportFails
    PROVE  HistoryInv'
<1>0. /\ Sane(View, commits) /\ Good(View) /\ commits \in Nat /\ Shaped(op)
      /\ marks = {} => Coherent(View)
      /\ View.memories \subseteq 1 .. commits
      /\ View.claims \subseteq [id: 1 .. commits, status: {"accepted", "stale"}]
  <2>1. View \in Databases /\ View \in Stores  BY ViewIsStored DEF HistoryInv
  <2>2. Sane(View, commits) /\ Good(View)  BY <2>1 DEF HistoryInv, Numbered
  <2>3. marks = {} => Coherent(View)  BY <2>1 DEF HistoryInv, Agreed
  <2> QED  BY <2>1, <2>2, <2>3, OperationShape DEF HistoryInv, Counted, Sane
<1>a. /\ Sane(op.data, commits) /\ Reading /\ Exported /\ Agreed
      /\ op.data = [memories |-> op.data.memories, claims |-> op.data.claims,
                    versions |-> op.data.versions]
      /\ op.data.memories \subseteq 1 .. commits
      /\ op.data.claims \subseteq [id: 1 .. commits, status: {"accepted", "stale"}]
  <2>1. op.data \in Stores  BY DEF Stores
  <2>2. Sane(op.data, commits)  BY <2>1 DEF HistoryInv, Numbered
  <2> QED  BY <2>2 DEF HistoryInv, Sane
<1>b. UNCHANGED <<file, wal>> => View' = View  BY DEF View
<1>1. CASE ExportMemories
  <2> DEFINE x == [memories |-> View.memories, claims |-> {}, versions |-> {}]
  <2>1. /\ UNCHANGED <<file, wal, archive, commits, late, marks>> /\ View' = View
        /\ ops' = ops + 1 /\ ops < MaxOps
    BY <1>1, <1>b DEF ExportMemories, Begin
  <2>2. op' = [at |-> "exportedMemories", data |-> x, before |-> Empty, rollback |-> Empty,
               replaced |-> FALSE, alone |-> TRUE]
    BY <1>1 DEF ExportMemories, Idle, Empty
  <2>3. /\ x.memories = View.memories /\ x.claims = {} /\ x.versions = {}
        /\ x = [memories |-> x.memories, claims |-> x.claims, versions |-> x.versions]
    OBVIOUS
  <2> HIDE DEF x
  <2>4. /\ Shaped(op') /\ op'.at = "exportedMemories" /\ op'.data = x
        /\ op'.before = Empty /\ op'.rollback = Empty /\ op'.at \in Exporting
    BY <2>2 DEF Shaped, Steps, Exporting
  <2>5. Reading'  BY <2>1, <2>3, <2>4 DEF Reading, Covered
  <2>6. Exported' /\ (marks = {} /\ archive'.export # NULL /\ archive'.export.alone
                        => Coherent(archive'.export.data))
    BY <2>1, <1>a DEF Exported, Agreed
  <2> QED  BY <1>0, <2>1, <2>3, <2>4, <2>5, <2>6, ReadsTable
<1>2. CASE ExportClaims
  <2> DEFINE x == [memories |-> op.data.memories, claims |-> View.claims, versions |-> {}]
  <2>1. /\ UNCHANGED <<file, wal, archive, ops, commits, late, marks>> /\ View' = View
        /\ op.at = "exportedMemories"
    BY <1>2, <1>b DEF ExportClaims
  <2>2. /\ op.data.versions = {} /\ (op.alone => op.data.memories = View.memories)
    BY <1>a, <2>1 DEF Reading, Exporting
  <2>3. op' = [at |-> "exportedClaims", data |-> x, before |-> op.before,
               rollback |-> op.rollback, replaced |-> op.replaced, alone |-> op.alone]
    <3>1. [op.data EXCEPT !.claims = View.claims] = x
      BY <1>a, <2>2
    <3>2. op' = [at |-> "exportedClaims", data |-> [op.data EXCEPT !.claims = View.claims],
                 before |-> op.before, rollback |-> op.rollback,
                 replaced |-> op.replaced, alone |-> op.alone]
      BY <1>0, <1>2 DEF ExportClaims, Shaped
    <3> HIDE DEF x
    <3> QED  BY <3>1, <3>2
  <2>4. /\ x.memories = op.data.memories /\ x.claims = View.claims /\ x.versions = {}
        /\ x = [memories |-> x.memories, claims |-> x.claims, versions |-> x.versions]
    OBVIOUS
  <2> HIDE DEF x
  <2>5. /\ Shaped(op') /\ op'.at = "exportedClaims" /\ op'.data = x /\ op'.alone = op.alone
        /\ op'.before = op.before /\ op'.rollback = op.rollback /\ op'.at \in Exporting
    BY <1>0, <2>3 DEF Shaped, Steps, Exporting
  <2>6. Reading'
    <3>1. Covered(x, View)  BY <1>0, <2>4 DEF Good, Covered
    <3> QED  BY <2>1, <2>2, <2>4, <2>5, <3>1 DEF Reading
  <2>7. Exported' /\ (marks = {} /\ archive'.export # NULL /\ archive'.export.alone
                        => Coherent(archive'.export.data))
    BY <2>1, <1>a DEF Exported, Agreed
  <2> QED  BY <1>0, <1>a, <2>1, <2>4, <2>5, <2>6, <2>7, ReadsTable
<1>3. CASE ExportVersions
  <2> DEFINE x == [memories |-> op.data.memories, claims |-> op.data.claims,
                   versions |-> View.versions]
  <2>1. /\ UNCHANGED <<file, wal, ops, commits, late, marks>> /\ View' = View
        /\ op.at = "exportedClaims" /\ op' = Idle
    BY <1>3, <1>b DEF ExportVersions
  <2>2. /\ Covered(op.data, View)
        /\ op.alone => op.data.memories = View.memories /\ op.data.claims = View.claims
    BY <1>a, <2>1 DEF Reading, Exporting
  <2>3. archive' = [backups |-> archive.backups, export |-> [data |-> x, alone |-> op.alone]]
    <3>1. [op.data EXCEPT !.versions = VersionRows(View)] = x
      BY <1>a DEF VersionRows
    <3>2. archive' = [backups |-> archive.backups,
                      export |-> [data |-> [op.data EXCEPT !.versions = VersionRows(View)],
                                  alone |-> op.alone]]
      BY <1>3 DEF ExportVersions, Shapes
    <3> HIDE DEF x
    <3> QED  BY <3>1, <3>2
  <2>4. /\ x.memories = op.data.memories /\ x.claims = op.data.claims
        /\ x.versions = View.versions
        /\ x = [memories |-> x.memories, claims |-> x.claims, versions |-> x.versions]
    OBVIOUS
  <2> HIDE DEF x
  <2>5. /\ archive'.backups = archive.backups
        /\ archive'.export = [data |-> x, alone |-> op.alone]
        /\ archive'.export.data = x /\ archive'.export.alone = op.alone
        /\ op.alone \in BOOLEAN
    BY <1>0, <2>3 DEF Shaped
  <2>6. /\ Shaped(op') /\ op'.at \notin Exporting /\ op'.data = Empty
        /\ op'.before = Empty /\ op'.rollback = Empty
    BY <2>1 DEF Shaped, Idle, Steps, Exporting
  <2>7. Reading'  BY <2>6, ReadsNothing
  <2>8. Covered(x, x)  BY <2>2, <2>4 DEF Covered, VersionsOf
  <2>9. op.alone => Intact(x) /\ (marks = {} => Coherent(x))
    BY <1>0, <2>2, <2>4 DEF Good, Intact, Coherent, OpenOf, VersionsOf
  <2>10. Exported'  BY <2>5, <2>8, <2>9 DEF Exported
  <2> QED  BY <1>a, <2>1, <2>4, <2>5, <2>6, <2>7, <2>9, <2>10, ReadsTable
<1>4. CASE ExportFails
  <2>1. UNCHANGED <<file, wal, archive, ops, commits, late, marks>> /\ op' = Idle
    BY <1>4 DEF ExportFails
  <2>2. /\ Shaped(op') /\ op'.at \notin Exporting /\ op'.data = Empty
        /\ op'.before = Empty /\ op'.rollback = Empty
    BY <2>1 DEF Shaped, Idle, Steps, Exporting
  <2>3. Reading'  BY <2>2, ReadsNothing
  <2>4. From(Databases, file', op', archive')
    BY <2>1, <2>2, PlacesAreStored DEF From
  <2>5. Counted' /\ commits <= commits' /\ marks \subseteq marks'
    BY <2>1, CountsKept DEF HistoryInv
  <2> QED  BY <2>1, <2>2, <2>3, <2>4, <2>5, Moves
<1> QED  BY <1>1, <1>2, <1>3, <1>4

\* An import that would break a constraint is rolled back; one of an older or
\* a torn archive leaves the mark "merge".
LEMMA ImportHistory ==
    ASSUME HistoryInv, ImportJsonl  PROVE HistoryInv'
<1> DEFINE e == archive.export.data
           f == Merge(View, e)
<1>1. /\ op' = Idle /\ UNCHANGED <<conn, archive, commits, late>>
      /\ ops' = ops + 1 /\ ops < MaxOps /\ archive.export # NULL
  BY DEF ImportJsonl, Begin
<1>2. \/ UNCHANGED <<file, wal, marks>>
      \/ /\ Intact(f)
         /\ \/ marks' = marks \cup {"merge"}
            \/ marks' = marks /\ ~GoesBack(View, e) /\ archive.export.alone
         /\ \/ wal' = Append(wal, f) /\ file' = file
            \/ file' = f /\ wal' = << >>
  BY DEF ImportJsonl
<1>3. /\ Shaped(op') /\ op'.at \notin Exporting /\ op'.data = Empty
      /\ op'.before = Empty /\ op'.rollback = Empty
  BY <1>1 DEF Shaped, Idle, Steps, Exporting
<1>4. Reading'  BY <1>3, ReadsNothing
<1>5. CASE UNCHANGED <<file, wal, marks>>
  <2>1. From(Databases, file', op', archive')
    BY <1>1, <1>3, <1>5, PlacesAreStored DEF From
  <2>2. Counted' /\ commits <= commits' /\ marks \subseteq marks'
    BY <1>1, <1>5, CountsKept DEF HistoryInv
  <2> QED  BY <1>1, <1>3, <1>4, <1>5, <2>1, <2>2, Moves
<1>6. ASSUME Intact(f),
             \/ marks' = marks \cup {"merge"}
             \/ marks' = marks /\ ~GoesBack(View, e) /\ archive.export.alone,
             \/ wal' = Append(wal, f) /\ file' = file
             \/ file' = f /\ wal' = << >>
      PROVE  HistoryInv'
  <2>1. View \in Databases /\ View \in Stores  BY ViewIsStored DEF HistoryInv
  <2>2. e \in Stores  BY <1>1 DEF Stores
  <2>3. /\ \A x \in {View, e} : Sane(x, commits) /\ Topped(x)
        /\ \A x \in {View, e}, y \in Stores : SameRows(x, y) /\ SameRows(y, x)
        /\ Good(View) /\ Covered(e, e) /\ commits \in Nat
    <3> HIDE DEF e
    <3>1. Covered(e, e)  BY <1>1 DEF HistoryInv, Exported, e
    <3> QED  BY <2>1, <2>2, <3>1 DEF HistoryInv, Numbered, Counted
  <2> HIDE DEF e
  <2>4. /\ Sane(f, commits) /\ Topped(f) /\ Good(f)
        /\ \A x : SameRows(View, x) /\ SameRows(e, x) => SameRows(f, x)
        /\ \A x : SameRows(x, View) /\ SameRows(x, e) => SameRows(x, f)
    BY <1>6, <2>1, <2>2, <2>3, MergeFits
  <2> HIDE DEF f
  <2>5. \A x \in Stores \cup {f} : SameRows(f, x) /\ SameRows(x, f)
    <3>1. \A x \in Stores : SameRows(f, x) /\ SameRows(x, f)
      BY <2>3, <2>4
    <3> QED  BY <2>1, <2>2, <2>4, <3>1
  <2>6. marks' = {} => Coherent(f)
    <3> SUFFICES ASSUME marks' = {} PROVE Coherent(f)  OBVIOUS
    <3>1. marks = {} /\ ~GoesBack(View, e) /\ archive.export.alone  BY <1>6
    <3>2. Coherent(View) /\ Coherent(e) /\ Intact(e)
      BY <1>1, <2>1, <3>1 DEF HistoryInv, Agreed, Exported, e
    <3> QED  BY <2>1, <2>2, <2>3, <3>1, <3>2, MergeCoheres DEF f
  <2>7. Fresh(f, commits', marks' = {})
    BY <1>1, <2>4, <2>5, <2>6 DEF Fresh
  <2>8. From(Databases \cup {f}, file', op', archive')
    BY <1>1, <1>3, <1>6, PlacesAreStored DEF From
  <2>9. Counted' /\ commits <= commits' /\ marks \subseteq marks'
    <3>1. marks \subseteq marks' /\ marks' \subseteq marks \cup {"gap", "torn", "stale", "merge"}
      BY <1>6
    <3> QED  BY <1>1, <3>1, CountsKept DEF HistoryInv
  <2>10. archive'.export = archive.export  BY <1>1
  <2> QED  BY <1>3, <1>4, <1>6, <2>7, <2>8, <2>9, <2>10, Flow
<1> QED  BY <1>2, <1>5, <1>6

LEMMA InitHistory == Init => HistoryInv
<1> SUFFICES ASSUME Init PROVE HistoryInv  OBVIOUS
<1>1. /\ file = Empty /\ wal = << >> /\ archive.backups = {Empty} /\ archive.export = NULL
      /\ op = Idle /\ op.at = "idle" /\ op.data = Empty /\ op.before = Empty
      /\ op.rollback = Empty /\ ops = 0 /\ commits = 0 /\ late = {} /\ marks = {}
  BY DEF Init, Idle
<1>2. Databases = {Empty} /\ Stores = {Empty}  BY <1>1 DEF Databases, Stores
<1>3. Numbered /\ Agreed  BY <1>1, <1>2, EmptyFits DEF Numbered, Agreed
<1>4. Reading /\ Exported  BY <1>1 DEF Reading, Exported, Exporting
<1>5. Counted  BY <1>1, BoundsAssumption DEF Counted
<1>6. Empty \in Data  BY DEF Empty, Data
<1>7. Shaped(op)  BY <1>1 DEF Shaped, Idle, Steps
<1>8. wal \in Seq(Data)  BY <1>1
<1>9. op \in [at: Steps, data: Data, before: Data, rollback: Data,
              replaced: BOOLEAN, alone: BOOLEAN]
  BY <1>1, <1>6, <1>7, OperationType
<1> QED  BY <1>1, <1>3, <1>4, <1>5, <1>8, <1>9 DEF HistoryInv

LEMMA NextHistory == Inv /\ HistoryInv /\ [Next]_vars => HistoryInv'
<1> SUFFICES ASSUME Inv, HistoryInv, [Next]_vars PROVE HistoryInv'
  OBVIOUS
<1>1. Shapes  BY DEF Inv
<1>2. CASE UNCHANGED vars
  <2>1. View' = View  BY <1>2 DEF vars, View
  <2>2. UNCHANGED <<file, wal, archive, op, ops, commits, late, marks>>
    BY <1>2 DEF vars
  <2>3. Reading'  BY <2>1, <2>2, ReadsOn DEF HistoryInv
  <2>4. Shaped(op')  BY <2>2, OperationShape
  <2>5. From(Databases, file', op', archive')  BY <2>2, PlacesAreStored
  <2>6. Counted' /\ commits <= commits' /\ marks \subseteq marks'
    BY <2>2, CountsKept DEF HistoryInv
  <2> QED  BY <2>2, <2>3, <2>4, <2>5, <2>6, Moves
<1>3. CASE Next
  BY <1>1, <1>3, OpenHistory, CommitHistory, CloseHistory, BackupHistory, RestoreHistory,
     ExportHistory, ImportHistory DEF Next
<1> QED  BY <1>2, <1>3

LEMMA HistoryInvariant == Spec => []HistoryInv
BY InitHistory, NextHistory, Invariant, PTL DEF Spec

-----------------------------------------------------------------------------
\* Files, archives and staged data are databases, whatever is restored, merged
\* or torn, and every operation is at one of its steps.
THEOREM BackupTypes == Spec => []TypeOK
<1>1. ASSUME Inv, HistoryInv PROVE TypeOK
  <2>1. /\ commits \in Nat /\ commits <= MaxCommits /\ MaxCommits \in Nat
    BY <1>1, BoundsAssumption DEF HistoryInv, Counted
  <2>2. \A d \in Stores : d \in Data
    BY <1>1, <2>1, SaneIsData DEF HistoryInv, Numbered
  <2>3. file \in Data /\ archive.backups \subseteq Data
    BY <2>2 DEF Stores, Databases
  <2>4. late \subseteq Commits
    BY <1>1, <2>1 DEF HistoryInv, Counted, Commits
  <2> QED  BY <1>1, <2>3, <2>4 DEF TypeOK, HistoryInv, Counted, Inv, Shapes, Steps
<1> QED  BY <1>1, Invariant, HistoryInvariant, PTL

\* In the database, in the backups and in an export made alone, every claim has
\* one open version, its last, that agrees with its row.
THEOREM HistoriesAlwaysWhole == Spec => []HistoriesStayWhole
<1>1. ASSUME HistoryInv PROVE HistoriesStayWhole
  <2>1. View \in Databases  BY <1>1, ViewIsStored DEF HistoryInv
  <2>2. archive.backups \subseteq Databases  BY DEF Databases
  <2> QED  BY <1>1, <2>1, <2>2 DEF HistoryInv, Agreed, Exported, HistoriesStayWhole
<1> QED  BY <1>1, HistoryInvariant, PTL
=============================================================================
