------------------------- MODULE MemoryHealthProofs -------------------------
(***************************************************************************)
(* For any processes, memories and calls: archives end by restore, the last *)
(* support stays and restore is the inverse of archive, each but for the   *)
(* overlap its statement names.  The invariant says that a row a call has  *)
(* loaded is the row of now unless somebody wrote it since (Loaded), that  *)
(* the support archive relied on is there unless somebody wrote it since   *)
(* (Relied), and that an archived row remembers what it was (Remembered).  *)
(***************************************************************************)
EXTENDS MemoryHealth, TLAPS

Live == {"hot", "warm", "cold"}

RowsOK ==
    /\ rows \in [Memory -> Row]
    /\ \A m \in Memory : rows[m].before # "archived"

TasksOK ==
    /\ task \in [Process -> Task]
    /\ \A p \in Process : DOMAIN task[p].loaded \subseteq task[p].memories

\* What is written is what the call was made for, and all of it was loaded.
Shape ==
    \A p \in Process :
        /\ task[p].at \in {"idle", "check"} => DOMAIN task[p].loaded = {}
        /\ task[p].at = "check" => task[p].op \in {"archive", "record"}
        /\ task[p].at = "write" => DOMAIN task[p].loaded = task[p].memories
        /\ task[p].op = "archive" => \E m \in Memory : task[p].memories = {m}
        /\ task[p].op = "none" => task[p].at = "idle"
        /\ \A m \in DOMAIN task[p].loaded : task[p].loaded[m].before # "archived"

Loaded ==
    \A p \in Process : \A m \in DOMAIN task[p].loaded \ task[p].since :
        task[p].loaded[m] = rows[m]

Relied ==
    \A p \in Process :
        (task[p].op = "archive" /\ task[p].at \in {"load", "write"}) =>
            \A m \in task[p].memories : \A i \in Supports[m] :
                \E k \in Memory \ {m} :
                    /\ i \in Supports[k]
                    /\ k \in task[p].since \/ rows[k].temperature # "archived"

WasOK == was \in [Memory -> Live \cup {NULL}]

Remembered ==
    \A m \in Memory :
        (was[m] # NULL /\ rows[m].temperature = "archived") => rows[m].before = was[m]

Inv == /\ RowsOK /\ TasksOK /\ Shape /\ Loaded /\ Relied /\ WasOK /\ Remembered
       /\ calls \in 0 .. MaxCalls

-----------------------------------------------------------------------------

LEMMA IdleType == Idle \in Task /\ DOMAIN Idle.loaded = {} /\ Idle.since = {}
<1>1. [m \in {} |-> Absent] \in [{} -> Row]
  BY DEF Absent, Row
<1>2. QED  BY <1>1 DEF Idle, Task

\* What is loaded is a function from some memories to rows.
LEMMA LoadedType ==
  ASSUME TasksOK, NEW p \in Process
  PROVE  \A m \in DOMAIN task[p].loaded : task[p].loaded[m] \in Row
<1>1. task[p].loaded \in UNION {[S -> Row] : S \in SUBSET Memory}
  BY DEF TasksOK, Task
<1>2. PICK F \in {[S -> Row] : S \in SUBSET Memory} : task[p].loaded \in F
  BY <1>1
<1>3. PICK S \in SUBSET Memory : F = [S -> Row]
  BY <1>2
<1>4. QED  BY <1>2, <1>3

LEMMA FlushedType ==
  ASSUME NEW row \in Row, NEW loaded \in Row, NEW made \in Row, NEW components \in BOOLEAN
  PROVE  Flushed(row, loaded, made, components) \in Row
BY DEF Flushed, Row

\* What a commit does to the rows and to the tasks of the others.
LEMMA CommitFacts ==
  ASSUME RowsOK, TasksOK, NEW p \in Process, NEW made, NEW components \in BOOLEAN,
         Commit(p, made, components)
  PROVE  /\ \A m \in Memory \ task[p].memories : rows'[m] = rows[m]
         /\ \A m \in task[p].memories :
               rows'[m] = Flushed(rows[m], task[p].loaded[m], made[m], components)
         /\ task' \in [Process -> Task]
         /\ task'[p] = Idle
         /\ \A q \in Process \ {p} :
               /\ task'[q].at = task[q].at /\ task'[q].op = task[q].op
               /\ task'[q].memories = task[q].memories
               /\ task'[q].loaded = task[q].loaded
               /\ task'[q].since = task[q].since \cup (task[p].memories \cap Read(task[q]))
<1>1. task[p].memories \subseteq Memory
  BY DEF TasksOK, Task
<1>2. \A q \in Process : Read(task[q]) \subseteq Memory
  BY DEF TasksOK, Task, Read
<1>3. \A q \in Process \ {p} :
          /\ task'[q] = [task[q] EXCEPT !.since = @ \cup (task[p].memories \cap Read(task[q]))]
          /\ task'[q] \in Task
  BY <1>1, <1>2, SMTT(30) DEF Commit, TasksOK, Task
<1>4. task'[p] = Idle
  BY DEF Commit
<1>5. task' = [q \in Process |-> task'[q]]
  BY DEF Commit
<1>6. task' \in [Process -> Task]
  BY <1>3, <1>4, <1>5, IdleType
<1>7. \A m \in Memory \ task[p].memories : rows'[m] = rows[m]
  BY DEF Commit
<1>8. \A m \in task[p].memories :
          rows'[m] = Flushed(rows[m], task[p].loaded[m], made[m], components)
  BY <1>1 DEF Commit
<1>9. \A q \in Process \ {p} :
          /\ task'[q].at = task[q].at /\ task'[q].op = task[q].op
          /\ task'[q].memories = task[q].memories
          /\ task'[q].loaded = task[q].loaded
          /\ task'[q].since = task[q].since \cup (task[p].memories \cap Read(task[q]))
  <2> TAKE q \in Process \ {p}
  <2>1. task[q] \in Task
    BY DEF TasksOK
  <2>2. task'[q] = [task[q] EXCEPT !.since = @ \cup (task[p].memories \cap Read(task[q]))]
    BY <1>3
  <2>3. QED  BY <2>1, <2>2 DEF Task
<1>10. QED  BY <1>4, <1>6, <1>7, <1>8, <1>9

\* A commit keeps what the calls under way rely on.
LEMMA CommitKeeps ==
  ASSUME RowsOK, TasksOK, Shape, Loaded, Relied,
         NEW p \in Process, NEW made, NEW components \in BOOLEAN,
         task[p].at = "write", made \in [task[p].memories -> Row],
         \A m \in task[p].memories : made[m].before # "archived",
         Commit(p, made, components)
  PROVE  RowsOK' /\ TasksOK' /\ Shape' /\ Loaded' /\ Relied'
<1>m. task[p].memories \subseteq Memory /\ DOMAIN task[p].loaded = task[p].memories
  BY DEF TasksOK, Task, Shape
<1>l. \A m \in task[p].memories : task[p].loaded[m] \in Row
  BY <1>m, LoadedType
<1>1. RowsOK'
  <2>1. \A m \in Memory : rows'[m] \in Row /\ rows'[m].before # "archived"
    <3> SUFFICES ASSUME NEW m \in Memory PROVE rows'[m] \in Row /\ rows'[m].before # "archived"
      OBVIOUS
    <3>1. CASE m \notin task[p].memories
      BY <3>1, CommitFacts DEF RowsOK
    <3>2. CASE m \in task[p].memories
      <4>1. rows[m] \in Row /\ made[m] \in Row /\ rows[m].before # "archived"
            /\ made[m].before # "archived"
        BY <3>2 DEF RowsOK
      <4>2. rows'[m] = Flushed(rows[m], task[p].loaded[m], made[m], components)
        BY <3>2, CommitFacts
      <4>3. Flushed(rows[m], task[p].loaded[m], made[m], components) \in Row
        BY <4>1, <1>l, <3>2, FlushedType
      <4>4. Flushed(rows[m], task[p].loaded[m], made[m], components).before # "archived"
        BY <4>1 DEF Flushed
      <4>5. QED  BY <4>2, <4>3, <4>4
    <3>3. QED  BY <3>1, <3>2
  <2>2. rows' = [m \in Memory |-> rows'[m]]
    BY DEF Commit
  <2>3. QED  BY <2>1, <2>2 DEF RowsOK
<1>2. TasksOK'
  BY CommitFacts, IdleType DEF TasksOK
<1>3. Shape'
  <2>1. ASSUME NEW q \in Process \ {p}
        PROVE  /\ task'[q].at = task[q].at /\ task'[q].op = task[q].op
               /\ task'[q].memories = task[q].memories
               /\ task'[q].loaded = task[q].loaded
    BY CommitFacts
  <2>2. task'[p] = Idle
    BY CommitFacts
  <2>3. QED  BY <2>1, <2>2, IdleType DEF Shape, Idle
<1>4. Loaded'
  <2> SUFFICES ASSUME NEW q \in Process, NEW m \in (DOMAIN task[q].loaded)' \ task'[q].since
               PROVE  task'[q].loaded[m] = rows'[m]
    BY DEF Loaded
  <2>1. q # p
    BY CommitFacts, IdleType
  <2>2. /\ task'[q].loaded = task[q].loaded
        /\ task'[q].since = task[q].since \cup (task[p].memories \cap Read(task[q]))
    BY <2>1, CommitFacts
  <2>3. m \in Memory
    BY <2>2 DEF TasksOK, Task
  <2>4. m \in Read(task[q])
    BY <2>2, <2>3 DEF Read
  <2>5. m \notin task[p].memories /\ m \notin task[q].since
    BY <2>2, <2>4
  <2>6. rows'[m] = rows[m]
    BY <2>3, <2>5, CommitFacts
  <2>7. task[q].loaded[m] = rows[m]
    BY <2>2, <2>5 DEF Loaded
  <2>8. QED  BY <2>2, <2>6, <2>7
<1>5. Relied'
  <2> SUFFICES ASSUME NEW q \in Process, task'[q].op = "archive",
                      task'[q].at \in {"load", "write"},
                      NEW m \in task'[q].memories, NEW i \in Supports[m]
               PROVE  \E k \in Memory \ {m} :
                         /\ i \in Supports[k]
                         /\ k \in task'[q].since \/ rows'[k].temperature # "archived"
    BY DEF Relied
  <2>1. q # p
    BY CommitFacts DEF Idle
  <2>2. /\ task'[q].at = task[q].at /\ task'[q].op = task[q].op
        /\ task'[q].memories = task[q].memories
        /\ task'[q].since = task[q].since \cup (task[p].memories \cap Read(task[q]))
    BY <2>1, CommitFacts
  <2>3. PICK k \in Memory \ {m} : /\ i \in Supports[k]
                                  /\ k \in task[q].since \/ rows[k].temperature # "archived"
    BY <2>2 DEF Relied
  <2>4. Read(task[q]) = Memory
    BY <2>2 DEF Read
  <2>5. CASE k \in task[p].memories
    BY <2>2, <2>3, <2>4, <2>5
  <2>6. CASE k \notin task[p].memories
    <3>1. rows'[k] = rows[k]
      BY <2>6, CommitFacts
    <3>2. QED  BY <2>2, <2>3, <3>1
  <2>7. QED  BY <2>5, <2>6
<1>6. QED  BY <1>1, <1>2, <1>3, <1>4, <1>5

-----------------------------------------------------------------------------
\* What each write makes of the rows it has loaded.

LEMMA WriteFacts ==
  ASSUME Inv, NEW p \in Process, task[p].at = "write"
  PROVE  /\ task[p].memories \subseteq Memory
         /\ DOMAIN task[p].loaded = task[p].memories
         /\ \A m \in task[p].memories :
               /\ task[p].loaded[m] \in Row
               /\ task[p].loaded[m].before # "archived"
               /\ m \notin task[p].since => task[p].loaded[m] = rows[m]
BY LoadedType DEF Inv, TasksOK, Task, Shape, Loaded

\* An archived row stays archived under a commit that would not change it.
LEMMA StaysArchived ==
  ASSUME Inv, NEW p \in Process, task[p].at = "write", ~Collides(p),
         NEW m \in task[p].memories, rows[m].temperature = "archived",
         NEW made \in Row, NEW components \in BOOLEAN,
         made.temperature = task[p].loaded[m].temperature \/ made.temperature = "archived"
  PROVE  Flushed(rows[m], task[p].loaded[m], made, components).temperature = "archived"
<1>1. task[p].loaded[m].temperature # "none"
  BY DEF Collides
<1>2. QED  BY <1>1 DEF Flushed

LEMMA MadeByArchive ==
  ASSUME NEW row \in Row, row.before # "archived"
  PROVE  /\ Archive(row) \in Row
         /\ Archive(row).temperature = "archived"
         /\ Archive(row).before # "archived"
         /\ row.temperature = "archived" => Archive(row).before = row.before
         /\ row.temperature = "none" => Archive(row).before = "warm"
         /\ row.temperature \in Live => Archive(row).before = row.temperature
<1>1. row.temperature \in Live \cup {"archived", "none"}
  BY DEF Row, Temperature, Live
<1>2. CASE row.temperature = "none"
  BY <1>2 DEF Archive, Row, Temperature, Live
<1>3. CASE row.temperature = "archived"
  BY <1>3 DEF Archive, Row, Temperature, Live
<1>4. CASE row.temperature \in Live
  BY <1>4 DEF Archive, Row, Temperature, Live
<1>5. QED  BY <1>1, <1>2, <1>3, <1>4

LEMMA MadeByRestore ==
  ASSUME NEW row \in Row, row.before # "archived"
  PROVE  /\ Restore(row) \in Row
         /\ Restore(row).before = row.before
         /\ Restore(row).temperature # "archived"
         /\ row.before # NULL => Restore(row).temperature = row.before
BY NullAssumption DEF Restore, Row, Temperature

LEMMA MadeByHeat ==
  ASSUME NEW row \in Row
  PROVE  /\ Heat(row) \in Row
         /\ Heat(row).before = row.before
         /\ row.temperature = "archived" => Heat(row) = row
         /\ row.temperature # "archived" => Heat(row).temperature = "hot"
BY DEF Heat, Row, Temperature

LEMMA MadeByEvaluate ==
  ASSUME NEW row \in Row, NEW found \in Live
  PROVE  /\ Evaluate(row, found) \in Row
         /\ Evaluate(row, found).before = NULL
         /\ row.temperature = "archived" => Evaluate(row, found).temperature = "archived"
BY DEF Evaluate, Row, Temperature, Live

-----------------------------------------------------------------------------
\* The invariant under the writes.

LEMMA ArchiveWriteKeeps ==
  ASSUME Inv, NEW p \in Process, ArchiveWrite(p)
  PROVE  Inv'
<1> DEFINE made == [m \in task[p].memories |-> Archive(task[p].loaded[m])]
<1>1. task[p].at = "write" /\ ~Collides(p) /\ Commit(p, made, FALSE)
  BY DEF ArchiveWrite, Writes
<1>2. \A m \in task[p].memories :
         made[m] \in Row /\ made[m].before # "archived" /\ made[m].temperature = "archived"
  BY <1>1, WriteFacts, MadeByArchive
<1>3. made \in [task[p].memories -> Row]
  BY <1>2
<1>c. \A m \in task[p].memories : made[m] = Archive(task[p].loaded[m])
  OBVIOUS
<1> HIDE DEF made
<1>4. RowsOK' /\ TasksOK' /\ Shape' /\ Loaded' /\ Relied'
  BY <1>1, <1>2, <1>3, CommitKeeps DEF Inv
<1>5. \A m \in Memory : /\ was'[m] \in Live \cup {NULL}
                        /\ (was'[m] # NULL /\ rows'[m].temperature = "archived")
                              => rows'[m].before = was'[m]
  <2> SUFFICES ASSUME NEW m \in Memory
               PROVE  /\ was'[m] \in Live \cup {NULL}
                      /\ (was'[m] # NULL /\ rows'[m].temperature = "archived")
                            => rows'[m].before = was'[m]
    OBVIOUS
  <2>0. /\ rows[m] \in Row /\ was[m] \in Live \cup {NULL}
        /\ was[m] # NULL /\ rows[m].temperature = "archived" => rows[m].before = was[m]
    BY DEF Inv, RowsOK, WasOK, Remembered
  <2>1. CASE m \notin task[p].memories
    <3>1. was'[m] = was[m]
      BY <2>1 DEF ArchiveWrite
    <3>2. rows'[m] = rows[m]
      BY <2>1, <1>1, CommitFacts DEF Inv
    <3>3. QED  BY <2>0, <3>1, <3>2
  <2>2. CASE m \in task[p].memories /\ m \in task[p].since
    <3>1. was'[m] = NULL
      BY <2>2 DEF ArchiveWrite
    <3>2. QED  BY <3>1
  <2>3. CASE m \in task[p].memories /\ m \notin task[p].since
    <3>1. task[p].loaded[m] = rows[m] /\ rows[m].before # "archived"
      BY <1>1, <2>3, WriteFacts
    <3>2. rows'[m] = Flushed(rows[m], rows[m], Archive(rows[m]), FALSE)
      BY <1>1, <1>c, <2>3, <3>1 DEF Commit
    <3>3. rows[m].temperature \in Live \cup {"archived", "none"}
      BY <2>0 DEF Row, Temperature, Live
    <3>4. CASE rows[m].temperature = "archived"
      <4>1. was'[m] = was[m]
        BY <2>3, <3>4 DEF ArchiveWrite, Before
      <4>2. rows'[m].before = rows[m].before
        BY <2>0, <3>1, <3>2, <3>4, MadeByArchive DEF Flushed
      <4>3. QED  BY <2>0, <3>4, <4>1, <4>2
    <3>5. CASE rows[m].temperature = "none"
      <4>1. was'[m] = "warm"
        BY <2>3, <3>5 DEF ArchiveWrite, Before
      <4>2. rows'[m].before = "warm"
        BY <2>0, <3>1, <3>2, <3>5, MadeByArchive DEF Flushed
      <4>3. QED  BY <4>1, <4>2 DEF Live
    <3>6. CASE rows[m].temperature \in Live
      <4>1. was'[m] = rows[m].temperature
        BY <2>3, <3>6 DEF ArchiveWrite, Before, Live
      <4>2. rows'[m].before = rows[m].temperature
        BY <2>0, <3>1, <3>2, <3>6, MadeByArchive DEF Flushed, Live
      <4>3. QED  BY <3>6, <4>1, <4>2
    <3>7. QED  BY <3>3, <3>4, <3>5, <3>6
  <2>4. QED  BY <2>1, <2>2, <2>3
<1>6. was' = [m \in Memory |-> was'[m]]
  BY DEF ArchiveWrite
<1>7. calls' = calls
  BY <1>1 DEF Commit
<1>8. QED  BY <1>4, <1>5, <1>6, <1>7 DEF Inv, WasOK, Remembered

LEMMA RestoreWriteKeeps ==
  ASSUME Inv, NEW p \in Process, RestoreWrite(p)
  PROVE  Inv'
<1> DEFINE made == [m \in task[p].memories |-> Restore(task[p].loaded[m])]
<1>1. task[p].at = "write" /\ ~Collides(p) /\ Commit(p, made, FALSE)
  BY DEF RestoreWrite, Writes
<1>2. \A m \in task[p].memories : made[m] \in Row /\ made[m].before # "archived"
  BY <1>1, WriteFacts, MadeByRestore
<1>3. made \in [task[p].memories -> Row]
  BY <1>2
<1> HIDE DEF made
<1>4. RowsOK' /\ TasksOK' /\ Shape' /\ Loaded' /\ Relied'
  BY <1>1, <1>2, <1>3, CommitKeeps DEF Inv
<1>5. \A m \in Memory :
         was'[m] = IF m \in task[p].memories THEN NULL ELSE was[m]
  BY DEF RestoreWrite
<1>6. \A m \in Memory \ task[p].memories : rows'[m] = rows[m]
  BY <1>1, CommitFacts DEF Inv
<1>7. was' = [m \in Memory |-> was'[m]] /\ calls' = calls
  BY <1>1 DEF RestoreWrite, Commit
<1>8. QED  BY <1>4, <1>5, <1>6, <1>7 DEF Inv, WasOK, Remembered

LEMMA RecordWriteKeeps ==
  ASSUME Inv, NEW p \in Process, RecordWrite(p)
  PROVE  Inv'
<1> DEFINE made == [m \in task[p].memories |-> Heat(task[p].loaded[m])]
<1>1. task[p].at = "write" /\ ~Collides(p) /\ Commit(p, made, FALSE)
  BY DEF RecordWrite, Writes
<1>2. \A m \in task[p].memories : made[m] \in Row /\ made[m].before # "archived"
  BY <1>1, WriteFacts, MadeByHeat
<1>3. made \in [task[p].memories -> Row]
  BY <1>2
<1>c. \A m \in task[p].memories : made[m] = Heat(task[p].loaded[m])
  OBVIOUS
<1> HIDE DEF made
<1>4. RowsOK' /\ TasksOK' /\ Shape' /\ Loaded' /\ Relied'
  BY <1>1, <1>2, <1>3, CommitKeeps DEF Inv
<1>5. \A m \in Memory : rows'[m].temperature = "archived"
         => rows[m].temperature = "archived" /\ rows'[m].before = rows[m].before
  <2> SUFFICES ASSUME NEW m \in Memory, rows'[m].temperature = "archived"
               PROVE  rows[m].temperature = "archived" /\ rows'[m].before = rows[m].before
    OBVIOUS
  <2>1. CASE m \notin task[p].memories
    BY <2>1, <1>1, CommitFacts DEF Inv
  <2>2. CASE m \in task[p].memories
    <3>1. task[p].loaded[m] \in Row
      BY <1>1, <2>2, WriteFacts
    <3>2. rows'[m] = Flushed(rows[m], task[p].loaded[m], made[m], FALSE)
      BY <1>1, <2>2 DEF Commit
    <3>3. made[m].temperature # "archived" \/ made[m] = task[p].loaded[m]
      BY <1>c, <2>2, <3>1, MadeByHeat
    <3>4. made[m].before = task[p].loaded[m].before
      BY <1>c, <2>2, <3>1, MadeByHeat
    <3>5. task[p].loaded[m].temperature # "none"
      BY <1>c, <2>2, <3>1, <3>2, MadeByHeat DEF Flushed
    <3>6. QED  BY <3>2, <3>3, <3>4, <3>5 DEF Flushed
  <2>3. QED  BY <2>1, <2>2
<1>6. was' = was /\ calls' = calls
  BY <1>1 DEF RecordWrite, Commit
<1>7. QED  BY <1>4, <1>5, <1>6 DEF Inv, WasOK, Remembered

LEMMA EvaluateWriteKeeps ==
  ASSUME Inv, NEW p \in Process, NEW found \in [Memory -> Live], EvaluateWrite(p, found)
  PROVE  Inv'
<1> DEFINE made == [m \in task[p].memories |-> Evaluate(task[p].loaded[m], found[m])]
<1>1. task[p].at = "write" /\ ~Collides(p) /\ Commit(p, made, TRUE)
  BY DEF EvaluateWrite, Writes
<1>2. \A m \in task[p].memories : made[m] \in Row /\ made[m].before # "archived"
  <2> SUFFICES ASSUME NEW m \in task[p].memories
               PROVE  made[m] \in Row /\ made[m].before # "archived"
    OBVIOUS
  <2>1. task[p].loaded[m] \in Row /\ found[m] \in Live
    BY <1>1, WriteFacts
  <2>2. QED  BY <2>1, MadeByEvaluate, NullAssumption DEF Temperature
<1>3. made \in [task[p].memories -> Row]
  BY <1>2
<1> HIDE DEF made
<1>4. RowsOK' /\ TasksOK' /\ Shape' /\ Loaded' /\ Relied'
  BY <1>1, <1>2, <1>3, CommitKeeps DEF Inv
<1>5. was' = [m \in Memory |-> NULL] /\ calls' = calls
  BY <1>1 DEF EvaluateWrite, Commit
<1>6. QED  BY <1>4, <1>5 DEF Inv, WasOK, Remembered

-----------------------------------------------------------------------------
\* The invariant under the reads, which change one task and nothing stored.

LEMMA ReadKeeps ==
  ASSUME Inv, NEW p \in Process, UNCHANGED <<rows, was>>, calls' \in 0 .. MaxCalls,
         NEW t \in Task, task' = [task EXCEPT ![p] = t],
         DOMAIN t.loaded \subseteq t.memories,
         t.at \in {"idle", "check"} => DOMAIN t.loaded = {},
         t.at = "check" => t.op \in {"archive", "record"},
         t.at = "write" => DOMAIN t.loaded = t.memories,
         t.op = "archive" => \E m \in Memory : t.memories = {m},
         t.op = "none" => t.at = "idle",
         \A m \in DOMAIN t.loaded : t.loaded[m].before # "archived",
         \A m \in DOMAIN t.loaded \ t.since : t.loaded[m] = rows[m],
         (t.op = "archive" /\ t.at \in {"load", "write"}) =>
            \A m \in t.memories : \A i \in Supports[m] :
                \E k \in Memory \ {m} :
                    /\ i \in Supports[k]
                    /\ k \in t.since \/ rows[k].temperature # "archived"
  PROVE  Inv'
<1>1. task'[p] = t /\ \A q \in Process \ {p} : task'[q] = task[q]
  BY DEF Inv, TasksOK
<1>2. RowsOK' /\ WasOK' /\ Remembered'
  BY DEF Inv, RowsOK, WasOK, Remembered
<1>3. TasksOK'
  BY <1>1 DEF Inv, TasksOK
<1>4. Shape'
  BY <1>1 DEF Inv, Shape
<1>5. Loaded'
  BY <1>1 DEF Inv, Loaded
<1>6. Relied'
  <2>1. ASSUME NEW q \in Process, task'[q].op = "archive", task'[q].at \in {"load", "write"},
               NEW m \in task'[q].memories, NEW i \in Supports[m]
        PROVE  \E k \in Memory \ {m} :
                  /\ i \in Supports[k]
                  /\ k \in task'[q].since \/ rows'[k].temperature # "archived"
    <3>1. CASE q = p
      BY <1>1, <2>1, <3>1
    <3>2. CASE q # p
      BY <1>1, <2>1, <3>2 DEF Inv, Relied
    <3>3. QED  BY <3>1, <3>2
  <2>2. QED  BY <2>1 DEF Relied
<1>7. QED  BY <1>2, <1>3, <1>4, <1>5, <1>6 DEF Inv

LEMMA BeginKeeps ==
  ASSUME Inv, NEW p \in Process, NEW call \in Call, Begin(p, call)
  PROVE  Inv'
<1> DEFINE t == [Idle EXCEPT !.at = IF call.op \in {"archive", "record"} THEN "check" ELSE "load",
                             !.op = call.op, !.memories = call.memories]
<1>1. /\ call.op \in {"archive", "restore", "record", "evaluate"}
      /\ call.memories \subseteq Memory
      /\ call.op = "archive" => \E m \in Memory : call.memories = {m}
  BY CallAssumption
<1>2. t \in Task /\ DOMAIN t.loaded = {} /\ t.since = {} /\ t.op = call.op
      /\ t.memories = call.memories
      /\ t.at = IF call.op \in {"archive", "record"} THEN "check" ELSE "load"
  BY <1>1, IdleType DEF Idle, Task
<1>3. task' = [task EXCEPT ![p] = t] /\ UNCHANGED <<rows, was>> /\ calls' \in 0 .. MaxCalls
  BY BoundAssumption DEF Begin, Inv
<1> HIDE DEF t
<1>4. QED  BY <1>1, <1>2, <1>3, ReadKeeps

LEMMA IdleKeeps ==
  ASSUME Inv, NEW p \in Process, task' = [task EXCEPT ![p] = Idle],
         UNCHANGED <<rows, was, calls>>
  PROVE  Inv'
<1>1. Idle.at = "idle" /\ Idle.op = "none"
  BY DEF Idle
<1>2. calls' \in 0 .. MaxCalls
  BY DEF Inv
<1>3. QED  BY <1>1, <1>2, IdleType, ReadKeeps

LEMMA CheckKeeps ==
  ASSUME Inv, NEW p \in Process, Check(p)
  PROVE  Inv'
<1>1. CASE \A m \in task[p].memories : TruthSafe(m)
  <2> DEFINE t == [task[p] EXCEPT !.at = "load"]
  <2>1. task[p] \in Task /\ task[p].at = "check" /\ task[p].op = "archive"
    BY DEF Check, Inv, TasksOK
  <2>2. /\ t \in Task /\ t.at = "load" /\ t.op = "archive" /\ t.memories = task[p].memories
        /\ t.loaded = task[p].loaded /\ t.since = task[p].since
    BY <2>1 DEF Task
  <2>3. task' = [task EXCEPT ![p] = t] /\ UNCHANGED <<rows, was>> /\ calls' \in 0 .. MaxCalls
    BY <1>1 DEF Check, Inv
  <2>4. DOMAIN task[p].loaded = {} /\ \E m \in Memory : task[p].memories = {m}
    BY <2>1 DEF Inv, Shape
  <2>5. \A m \in task[p].memories : \A i \in Supports[m] :
            \E k \in Memory \ {m} : i \in Supports[k] /\ rows[k].temperature # "archived"
    BY <1>1 DEF TruthSafe, Visible
  <2> HIDE DEF t
  <2>6. QED  BY <2>2, <2>3, <2>4, <2>5, ReadKeeps, ZenonT(60)
<1>2. CASE ~\A m \in task[p].memories : TruthSafe(m)
  BY <1>2, IdleKeeps DEF Check
<1>3. QED  BY <1>1, <1>2

LEMMA SelectKeeps ==
  ASSUME Inv, NEW p \in Process, Select(p)
  PROVE  Inv'
<1> DEFINE t == [task[p] EXCEPT !.at = "load", !.memories = @ \ Archived]
<1>1. task[p] \in Task /\ task[p].at = "check" /\ task[p].op = "record"
  BY DEF Select, Inv, TasksOK
<1>2. /\ t \in Task /\ t.at = "load" /\ t.op = "record"
      /\ t.loaded = task[p].loaded /\ t.since = task[p].since
  BY <1>1 DEF Task
<1>3. task' = [task EXCEPT ![p] = t] /\ UNCHANGED <<rows, was>> /\ calls' \in 0 .. MaxCalls
  BY DEF Select, Inv, TasksOK
<1>4. DOMAIN task[p].loaded = {}
  BY <1>1 DEF Inv, Shape
<1> HIDE DEF t
<1>5. QED  BY <1>2, <1>3, <1>4, ReadKeeps

LEMMA LoadKeeps ==
  ASSUME Inv, NEW p \in Process, NEW S \in SUBSET Memory, Load(p, S)
  PROVE  Inv'
<1> DEFINE D == S \cup DOMAIN task[p].loaded
           loaded == [m \in D |-> IF m \in S THEN rows[m] ELSE task[p].loaded[m]]
           t == [task[p] EXCEPT !.loaded = loaded,
                                !.at = IF DOMAIN loaded = task[p].memories
                                       THEN "write" ELSE "load"]
<1>1. task[p] \in Task /\ task[p].at = "load" /\ S \subseteq task[p].memories
      /\ DOMAIN task[p].loaded \subseteq task[p].memories /\ task[p].memories \subseteq Memory
  BY DEF Load, Inv, TasksOK, Task
<1>2. DOMAIN loaded = D /\ D \subseteq task[p].memories /\ D \in SUBSET Memory
  BY <1>1
<1>3. \A m \in D : loaded[m] \in Row
  BY <1>1, LoadedType DEF Inv, RowsOK
<1>4. loaded \in UNION {[X -> Row] : X \in SUBSET Memory}
  <2>1. loaded \in [D -> Row]
    BY <1>3
  <2>2. [D -> Row] \in {[X -> Row] : X \in SUBSET Memory}
    BY <1>2
  <2>3. QED  BY <2>1, <2>2
<1>5. \A m \in D : loaded[m].before # "archived"
  BY <1>1 DEF Inv, RowsOK, Shape
<1>6. \A m \in D \ task[p].since : loaded[m] = rows[m]
  BY <1>1 DEF Inv, Loaded
<1>7. task' = [task EXCEPT ![p] = t] /\ UNCHANGED <<rows, was>> /\ calls' \in 0 .. MaxCalls
  BY DEF Load, Inv, TasksOK
<1> HIDE DEF loaded
<1>8. /\ t \in Task /\ t.op = task[p].op /\ t.memories = task[p].memories
      /\ t.loaded = loaded /\ t.since = task[p].since
      /\ t.at = IF D = task[p].memories THEN "write" ELSE "load"
  BY <1>1, <1>2, <1>4 DEF Task
<1> HIDE DEF D, t
<1>9. task[p].op = "archive" =>
         /\ \E m \in Memory : task[p].memories = {m}
         /\ \A m \in task[p].memories : \A i \in Supports[m] :
               \E k \in Memory \ {m} :
                  /\ i \in Supports[k]
                  /\ k \in task[p].since \/ rows[k].temperature # "archived"
  BY <1>1 DEF Inv, Shape, Relied
<1>10. task[p].op # "none"
  BY <1>1 DEF Inv, Shape
<1>11. QED  BY <1>2, <1>5, <1>6, <1>7, <1>8, <1>9, <1>10, ReadKeeps, ZenonT(60)

-----------------------------------------------------------------------------

LEMMA InitInv == Init => Inv
<1> SUFFICES ASSUME Init PROVE Inv
  OBVIOUS
<1>1. RowsOK
  BY NullAssumption DEF Init, RowsOK, Absent, Row, Temperature
<1>2. TasksOK /\ Shape /\ Loaded /\ Relied
  BY IdleType DEF Init, TasksOK, Shape, Loaded, Relied, Idle
<1>3. WasOK /\ Remembered /\ calls \in 0 .. MaxCalls
  BY BoundAssumption DEF Init, WasOK, Remembered
<1>4. QED  BY <1>1, <1>2, <1>3 DEF Inv

LEMMA NextInv == Inv /\ [Next]_vars => Inv'
<1> SUFFICES ASSUME Inv, [Next]_vars PROVE Inv'
  OBVIOUS
<1>1. CASE UNCHANGED vars
  BY <1>1 DEF vars, Inv, RowsOK, TasksOK, Shape, Loaded, Relied, WasOK, Remembered
<1>2. ASSUME NEW p \in Process, NEW call \in Call, Begin(p, call) PROVE Inv'
  BY <1>2, BeginKeeps
<1>3. ASSUME NEW p \in Process, Check(p) \/ Select(p) PROVE Inv'
  BY <1>3, CheckKeeps, SelectKeeps
<1>4. ASSUME NEW p \in Process, NEW S \in SUBSET Memory, Load(p, S) PROVE Inv'
  BY <1>4, LoadKeeps
<1>5. ASSUME NEW p \in Process, ArchiveWrite(p) \/ RestoreWrite(p) \/ RecordWrite(p) PROVE Inv'
  BY <1>5, ArchiveWriteKeeps, RestoreWriteKeeps, RecordWriteKeeps
<1>6. ASSUME NEW p \in Process, NEW found \in [Memory -> Live], EvaluateWrite(p, found)
      PROVE  Inv'
  BY <1>6, EvaluateWriteKeeps
<1>7. ASSUME NEW p \in Process, Fails(p) PROVE Inv'
  BY <1>7, IdleKeeps DEF Fails
<1>8. QED  BY <1>1, <1>2, <1>3, <1>4, <1>5, <1>6, <1>7 DEF Next, Live

\* The invariant of every behaviour.
LEMMA InvAlways == Spec => []Inv
BY InitInv, NextInv, PTL DEF Spec

\* The type invariant: in particular no row remembers having been archived
\* before it was archived, whatever the order of archives and evaluations.
THEOREM HealthTypes == Spec => []TypeOK
<1>1. Inv => TypeOK
  BY DEF Inv, RowsOK, TasksOK, WasOK, TypeOK, Live
<1>2. QED  BY <1>1, InvAlways, PTL

-----------------------------------------------------------------------------
\* The action properties.

\* Only a restore, or a call that loaded the row before, changes an archived row.
LEMMA ArchiveEnds ==
  ASSUME Inv, NEW p \in Process, NEW made, NEW components \in BOOLEAN,
         task[p].at = "write", task[p].op # "restore", ~Collides(p),
         made \in [task[p].memories -> Row],
         Commit(p, made, components),
         \A m \in task[p].memories :
            task[p].loaded[m].temperature = "archived" => made[m].temperature = "archived",
         NEW m \in Archived, rows'[m].temperature # "archived"
  PROVE  m \in task[p].memories /\ m \in task[p].since
<1>1. m \in Memory /\ rows[m].temperature = "archived"
  BY DEF Archived
<1>2. m \in task[p].memories
  BY <1>1 DEF Commit
<1>3. m \in task[p].since
  <2> SUFFICES ASSUME m \notin task[p].since PROVE FALSE
    OBVIOUS
  <2>1. task[p].loaded[m] = rows[m]
    BY <1>2, WriteFacts
  <2>2. made[m].temperature = "archived"
    BY <1>1, <1>2, <2>1
  <2>3. Flushed(rows[m], task[p].loaded[m], made[m], components).temperature = "archived"
    BY <1>1, <1>2, <2>2, StaysArchived
  <2>4. rows'[m] = Flushed(rows[m], task[p].loaded[m], made[m], components)
    BY <1>1, <1>2 DEF Commit
  <2>5. QED  BY <2>3, <2>4
<1>4. QED  BY <1>2, <1>3

LEMMA ArchiveEndsStep ==
  ASSUME Inv, [Next]_vars, NEW m \in Archived, rows'[m].temperature # "archived"
  PROVE  \E p \in Process : /\ task[p].at = "write" /\ m \in task[p].memories
                            /\ task[p].op = "restore" \/ m \in task[p].since
<1>0. m \in Memory /\ rows[m].temperature = "archived" /\ rows' # rows
  BY DEF Archived
<1>1. ASSUME NEW p \in Process, ArchiveWrite(p)
      PROVE  task[p].at = "write" /\ m \in task[p].memories /\ m \in task[p].since
  <2> DEFINE made == [k \in task[p].memories |-> Archive(task[p].loaded[k])]
  <2>1. /\ task[p].at = "write" /\ task[p].op = "archive" /\ ~Collides(p)
        /\ Commit(p, made, FALSE)
    BY <1>1 DEF ArchiveWrite, Writes
  <2>2. \A k \in task[p].memories : made[k] \in Row /\ made[k].temperature = "archived"
    BY <2>1, WriteFacts, MadeByArchive
  <2>3. made \in [task[p].memories -> Row]
    BY <2>2
  <2> HIDE DEF made
  <2>4. QED  BY <2>1, <2>2, <2>3, ArchiveEnds
<1>2. ASSUME NEW p \in Process, RestoreWrite(p)
      PROVE  task[p].at = "write" /\ m \in task[p].memories /\ task[p].op = "restore"
  BY <1>0, <1>2 DEF RestoreWrite, Writes, Commit
<1>3. ASSUME NEW p \in Process, RecordWrite(p)
      PROVE  task[p].at = "write" /\ m \in task[p].memories /\ m \in task[p].since
  <2> DEFINE made == [k \in task[p].memories |-> Heat(task[p].loaded[k])]
  <2>1. /\ task[p].at = "write" /\ task[p].op = "record" /\ ~Collides(p)
        /\ Commit(p, made, FALSE)
    BY <1>3 DEF RecordWrite, Writes
  <2>2. \A k \in task[p].memories :
           /\ made[k] \in Row
           /\ task[p].loaded[k].temperature = "archived" => made[k].temperature = "archived"
    BY <2>1, WriteFacts, MadeByHeat
  <2>3. made \in [task[p].memories -> Row]
    BY <2>2
  <2> HIDE DEF made
  <2>4. QED  BY <2>1, <2>2, <2>3, ArchiveEnds
<1>4. ASSUME NEW p \in Process, NEW found \in [Memory -> Live], EvaluateWrite(p, found)
      PROVE  task[p].at = "write" /\ m \in task[p].memories /\ m \in task[p].since
  <2> DEFINE made == [k \in task[p].memories |-> Evaluate(task[p].loaded[k], found[k])]
  <2>1. /\ task[p].at = "write" /\ task[p].op = "evaluate" /\ ~Collides(p)
        /\ Commit(p, made, TRUE)
    BY <1>4 DEF EvaluateWrite, Writes
  <2>2. \A k \in task[p].memories :
           /\ made[k] \in Row
           /\ task[p].loaded[k].temperature = "archived" => made[k].temperature = "archived"
    <3> TAKE k \in task[p].memories
    <3>1. task[p].loaded[k] \in Row /\ found[k] \in Live
      BY <2>1, WriteFacts
    <3>2. QED  BY <3>1, MadeByEvaluate
  <2>3. made \in [task[p].memories -> Row]
    BY <2>2
  <2> HIDE DEF made
  <2>4. QED  BY <2>1, <2>2, <2>3, ArchiveEnds
<1>5. ASSUME NEW p \in Process,
             \/ \E call \in Call : Begin(p, call)
             \/ Check(p) \/ Select(p)
             \/ \E S \in SUBSET Memory : Load(p, S)
             \/ Fails(p)
      PROVE  FALSE
  BY <1>0, <1>5 DEF Begin, Check, Select, Load, Fails
<1>6. CASE UNCHANGED vars
  BY <1>0, <1>6 DEF vars
<1>7. QED  BY <1>1, <1>2, <1>3, <1>4, <1>5, <1>6 DEF Next, Live

\* An archive takes no identity's last support but through somebody else's write.
LEMMA LastSupportStep ==
  ASSUME Inv, NEW p \in Process, ArchiveWrite(p), NEW m \in task[p].memories,
         NEW i \in Supports[m]
  PROVE  \/ Visible(i, rows') # {}
         \/ \E k \in task[p].since \ {m} : i \in Supports[k]
<1>1. /\ task[p].at = "write" /\ task[p].op = "archive"
      /\ Commit(p, [k \in task[p].memories |-> Archive(task[p].loaded[k])], FALSE)
  BY DEF ArchiveWrite, Writes
<1>2. task[p].memories = {m}
  BY <1>1 DEF Inv, Shape
<1>3. PICK k \in Memory \ {m} : /\ i \in Supports[k]
                                /\ k \in task[p].since \/ rows[k].temperature # "archived"
  BY <1>1 DEF Inv, Relied
<1>4. rows'[k] = rows[k]
  BY <1>1, <1>2, <1>3 DEF Commit
<1>5. QED  BY <1>3, <1>4 DEF Visible

\* A restore whose row nobody else wrote gives back what was archived.
LEMMA RestoreStep ==
  ASSUME Inv, NEW p \in Process, NEW m \in Archived, RestoreWrite(p),
         m \in task[p].memories \ task[p].since, was[m] # NULL
  PROVE  rows'[m].temperature = was[m]
<1> DEFINE made == [k \in task[p].memories |-> Restore(task[p].loaded[k])]
<1>1. /\ task[p].at = "write" /\ task[p].op = "restore" /\ Commit(p, made, FALSE)
  BY DEF RestoreWrite, Writes
<1>2. m \in Memory /\ rows[m].temperature = "archived" /\ was[m] \in Live
  BY DEF Archived, Inv, WasOK
<1>3. task[p].loaded[m] = rows[m] /\ rows[m] \in Row /\ rows[m].before # "archived"
  BY <1>1, WriteFacts
<1>4. rows[m].before = was[m]
  BY <1>2 DEF Inv, Remembered
<1>5. made[m] = Restore(rows[m])
  BY <1>3
<1>6. made[m].temperature = was[m]
  BY <1>3, <1>4, <1>5, MadeByRestore
<1>7. rows'[m] = Flushed(rows[m], rows[m], made[m], FALSE)
  BY <1>1, <1>2, <1>3 DEF Commit
<1> HIDE DEF made
<1>8. QED  BY <1>2, <1>6, <1>7 DEF Flushed, Live

\* What is archived comes back by restore only, unless a call had loaded the
\* row before the archive and writes it after.
THEOREM ArchiveAlwaysEndsByRestore == Spec => ArchiveEndsByRestore
<1>1. Inv /\ [Next]_vars =>
        [\A m \in Archived :
          rows'[m].temperature # "archived" =>
             \E p \in Process : /\ task[p].at = "write" /\ m \in task[p].memories
                                /\ task[p].op = "restore" \/ m \in task[p].since]_vars
  BY ArchiveEndsStep
<1>2. QED  BY <1>1, InvAlways, PTL DEF Spec, ArchiveEndsByRestore

\* An archive leaves every identity of its memory visible through another
\* memory, unless the row of such a memory was written since the check.
THEOREM LastSupportAlwaysStays == Spec => LastSupportStays
<1>1. Inv /\ [Next]_vars =>
        [\A p \in Process, m \in Memory :
          ArchiveWrite(p) /\ m \in task[p].memories =>
             \A i \in Supports[m] :
                \/ Visible(i, rows') # {}
                \/ \E k \in task[p].since \ {m} : i \in Supports[k]]_vars
  BY LastSupportStep
<1>2. QED  BY <1>1, InvAlways, PTL DEF Spec, LastSupportStays

\* Restore gives a memory the temperature it was archived with, provided that
\* nobody wrote its row during either call and none evaluated it in between.
THEOREM RestoreAlwaysInverse == Spec => RestoreIsInverse
<1>1. Inv /\ [Next]_vars =>
        [\A p \in Process, m \in Archived :
          (/\ RestoreWrite(p) /\ m \in task[p].memories \ task[p].since
           /\ was[m] # NULL) => rows'[m].temperature = was[m]]_vars
  BY RestoreStep
<1>2. QED  BY <1>1, InvAlways, PTL DEF Spec, RestoreIsInverse
=============================================================================
