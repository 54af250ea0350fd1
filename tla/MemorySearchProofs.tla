------------------------- MODULE MemorySearchProofs -------------------------
(***************************************************************************)
(* Proofs of MemorySearch: its types, that an answer holds only what was   *)
(* current during the search, and that it holds all of it that an index    *)
(* nobody disturbs can give; for any processes and any finite set of       *)
(* memories.                                                               *)
(***************************************************************************)
EXTENDS MemorySearch, FiniteSetTheorems, TLAPS

-----------------------------------------------------------------------------
\* The invariant.

\* Between its count of the vectors and its scan of the index.
Counting == {"count", "clear", "load", "fill", "scan"}

Answering == {"channels", "govern", "record"}

\* q has an entry in the index whose row is not committed.
Ahead(q) == task[q].at = "state" /\ conn[q] = "open"

\* What a search has seen.
Watched(p) ==
    task[p].at \in Searching =>
        /\ Current(db) \subseteq task[p].seen
        /\ task[p].kept \subseteq Current(db)

\* What a search has counted and loaded is the database's while it is alone.
Counted(p) ==
    /\ task[p].at \in Counting /\ task[p].alone =>
          /\ task[p].expected = db.vectors
          /\ \A q \in Process \ {p} : ~Ahead(q)
    /\ task[p].at = "fill" =>
          /\ task[p].loaded \subseteq db.vectors
          /\ task[p].alone => task[p].loaded = db.vectors

\* The index while a search that is alone rebuilds or scans it.
Indexed(p) ==
    task[p].alone /\ conn[p] = "open" =>
        /\ task[p].at \in {"load", "fill"} => file = {}
        /\ task[p].at = "scan" /\ ~parted => file = task[p].expected

\* No vector is beyond those that are asked for.
InPool(t) == Cardinality(t.expected) <= VectorPool[t.limit]

\* What it has found by the vectors, and what it will answer.
Collected(p) ==
    LET t == task[p]
        trustworthy == t.mode # "fts" /\ t.alone /\ t.trusted /\ InPool(t)
    IN  /\ t.at = "expect" => t.mode = "fts"
        /\ t.at = "rows" /\ trustworthy => t.expected \cap t.kept \subseteq t.semantic
        /\ t.at \in Answering =>
              /\ t.items \subseteq t.seen
              /\ ~t.cut => t.text \cap t.kept \subseteq t.items
              /\ trustworthy /\ ~t.cut => t.expected \cap t.kept \subseteq t.items

\* The entries of the index are vectors, committed or about to be.
Entries ==
    /\ ~present => file = {}
    /\ ~parted =>
          \A m \in file : m \in db.vectors \/ \E q \in Process : Ahead(q) /\ task[q].memory = m

\* index_memory is of a memory.
Named == \A p \in Process : task[p].at \in Indexing => task[p].memory \in Memory

TaskOk(p) == Watched(p) /\ Counted(p) /\ Indexed(p) /\ Collected(p)

Inv == TypeOK /\ Named /\ Entries /\ \A p \in Process : TaskOk(p)

-----------------------------------------------------------------------------
\* Types.

LEMMA InitTypes == Init => TypeOK
<1> SUFFICES ASSUME Init PROVE TypeOK  OBVIOUS
<1>1. Idle \in Task  BY NullAssumption DEF Idle, Task
<1>2. Empty \in Database  BY DEF Empty, Database
<1>3. spent \in [searches: 0 .. MaxSearches, changes: 0 .. MaxChanges, crashes: 0 .. MaxCrashes,
                 restores: 0 .. MaxRestores]
  BY BoundAssumption DEF Init
<1> QED  BY <1>1, <1>2, <1>3 DEF Init, TypeOK

LEMMA WatchingTypes ==
    ASSUME TypeOK, NEW d \in Database
    PROVE  Watching(d) \in [Process -> Task]
<1>1. SUFFICES ASSUME NEW q \in Process
               PROVE  [task[q] EXCEPT !.seen = @ \cup Current(d),
                                      !.kept = @ \cap Current(d)] \in Task
  BY DEF Watching, TypeOK
<1>2. task[q] \in Task  BY DEF TypeOK
<1>3. Current(d) \subseteq Memory  BY DEF Current, Database
<1> QED  BY <1>2, <1>3 DEF Task

LEMMA DisturbingTypes ==
    ASSUME NEW p \in Process, NEW tasks \in [Process -> Task]
    PROVE  Disturbing(p, tasks) \in [Process -> Task]
<1>1. ASSUME NEW q \in Process
      PROVE  tasks[q] \in Task /\ [tasks[q] EXCEPT !.alone = FALSE] \in Task
  <2>1. tasks[q] \in Task  OBVIOUS
  <2>2. [tasks[q] EXCEPT !.alone = FALSE] \in Task  BY <2>1 DEF Task
  <2> QED  BY <2>1, <2>2
<1> QED  BY <1>1 DEF Disturbing

\* What a step of one process does to the tasks.
LEMMA GoesTypes ==
    ASSUME TypeOK, NEW p \in Process, NEW stage \in {"idle"} \cup Indexing \cup Searching,
           Goes(p, stage)
    PROVE  task' \in [Process -> Task]
<1>1. task[p] \in Task  BY DEF TypeOK
<1>2. [task[p] EXCEPT !.at = stage] \in Task  BY <1>1 DEF Task
<1>3. task' = [task EXCEPT ![p] = [task[p] EXCEPT !.at = stage]]  BY DEF Goes, TypeOK
<1> QED  BY <1>2, <1>3 DEF TypeOK

\* A task takes the place of another.
LEMMA TaskWith ==
    ASSUME TypeOK, NEW p \in Process, NEW t \in Task, task' = [task EXCEPT ![p] = t]
    PROVE  task' \in [Process -> Task]
BY DEF TypeOK

LEMMA NextTypes == TypeOK /\ Named /\ [Next]_vars => TypeOK'
<1> SUFFICES ASSUME TypeOK, Named, [Next]_vars PROVE TypeOK'  OBVIOUS
<1> USE DEF Indexing, Searching
<1>0. Idle \in Task  BY NullAssumption DEF Idle, Task
<1>1. ASSUME NEW p \in Process, NEW m \in Memory, Confirm(p, m) PROVE TypeOK'
  <2> DEFINE d == [db EXCEPT !.candidate = @ \ {m},
                             !.active = (@ \ {Replaces[m]}) \cup {m}]
  <2>1. d \in Database  BY DEF TypeOK, Database
  <2>2. Watching(d) \in [Process -> Task]  BY <2>1, WatchingTypes
  <2>3. task' = [Watching(d) EXCEPT ![p].at = "embed", ![p].memory = m] /\ db' = d
    BY <1>1 DEF Confirm, Commit
  <2> HIDE DEF d
  <2>4. [Watching(d)[p] EXCEPT !.at = "embed", !.memory = m] \in Task
    BY <2>2, ZenonT(60) DEF Task
  <2>5. task' = [Watching(d) EXCEPT ![p] = [Watching(d)[p] EXCEPT !.at = "embed", !.memory = m]]
    BY <2>2, <2>3
  <2>6. task' \in [Process -> Task]  BY <2>2, <2>4, <2>5
  <2> QED  BY <1>1, <2>1, <2>3, <2>6 DEF Confirm, Commit, TypeOK, index
<1>2. ASSUME NEW d \in Database, Change(d) PROVE TypeOK'
  <2>1. task' \in [Process -> Task]  BY <1>2, WatchingTypes DEF Change
  <2>2. spent' \in [searches: 0 .. MaxSearches, changes: 0 .. MaxChanges,
                    crashes: 0 .. MaxCrashes, restores: 0 .. MaxRestores]
    BY <1>2, BoundAssumption DEF Change, TypeOK
  <2> QED  BY <1>2, <2>1, <2>2 DEF Change, Commit, TypeOK, index
<1>3. ASSUME NEW m \in Memory, Forget(m) \/ Archive(m) PROVE TypeOK'
  <2>1. [db EXCEPT !.active = @ \ {m}] \in Database  BY DEF TypeOK, Database
  <2>2. [db EXCEPT !.archived = @ \cup {m}] \in Database  BY DEF TypeOK, Database
  <2> QED  BY <1>2, <1>3, <2>1, <2>2 DEF Forget, Archive
<1>4. ASSUME NEW p \in Process, Embed(p) PROVE TypeOK'
  <2>0. task[p] \in Task /\ db \in Database  BY DEF TypeOK
  <2>1. task' \in [Process -> Task]  BY <1>4, GoesTypes DEF Embed
  <2> QED  BY <1>4, <2>0, <2>1 DEF Embed, TypeOK, index
<1>5. ASSUME NEW p \in Process, UpsertFails(p) PROVE TypeOK'
  <2>0. task[p] \in Task /\ db \in Database  BY DEF TypeOK
  <2>1. task' \in [Process -> Task]  BY <1>5, GoesTypes DEF UpsertFails
  <2> QED  BY <1>5, <2>0, <2>1 DEF UpsertFails, TypeOK, index
<1>6. ASSUME NEW p \in Process, Search(p) PROVE TypeOK'
  <2>0. task[p] \in Task /\ db \in Database  BY DEF TypeOK
  <2>0a. PICK limit \in Limits :
           \E found \in Nearest(WordPool[limit], Worded \cap Current(db)) :
              task' = [task EXCEPT ![p] =
                 [Idle EXCEPT !.at = "expect", !.limit = limit, !.text = found,
                              !.seen = Current(db), !.kept = Current(db)]]
    BY <1>6 DEF Search
  <2>a. PICK found \in Nearest(WordPool[limit], Worded \cap Current(db)) :
           task' = [task EXCEPT ![p] =
              [Idle EXCEPT !.at = "expect", !.limit = limit, !.text = found,
                           !.seen = Current(db), !.kept = Current(db)]]
    BY <2>0a
  <2>b. found \subseteq Memory  BY MemoryAssumption DEF Nearest
  <2> DEFINE t == [Idle EXCEPT !.at = "expect", !.limit = limit, !.text = found,
                                !.seen = Current(db), !.kept = Current(db)]
  <2>1. t \in Task  BY <1>0, <2>0, <2>b DEF Task, Database, Current
  <2>2. task' = [task EXCEPT ![p] = t]  BY <2>a DEF TypeOK
  <2> HIDE DEF t
  <2>3. task' \in [Process -> Task]  BY <2>1, <2>2, TaskWith
  <2>4. spent' \in [searches: 0 .. MaxSearches, changes: 0 .. MaxChanges,
                    crashes: 0 .. MaxCrashes, restores: 0 .. MaxRestores]
    BY <1>6, BoundAssumption DEF Search, TypeOK
  <2> QED  BY <1>6, <2>0, <2>3, <2>4 DEF Search, TypeOK, index
<1>7. ASSUME NEW p \in Process, EmbedFails(p) PROVE TypeOK'
  <2>0. task[p] \in Task /\ db \in Database  BY DEF TypeOK
  <2> DEFINE t == IF task[p].at = "embed" THEN Idle ELSE [task[p] EXCEPT !.at = "rows"]
  <2>1. t \in Task  BY <1>0, <2>0, MemoryAssumption DEF Task, Database, Admitted, Current
  <2>2. task' = [task EXCEPT ![p] = t]  BY <1>7 DEF EmbedFails, TypeOK
  <2> HIDE DEF t
  <2>3. task' \in [Process -> Task]  BY <2>1, <2>2, TaskWith
  <2> QED  BY <1>7, <2>0, <2>3 DEF EmbedFails, TypeOK, index
<1>8. ASSUME NEW p \in Process, Expect(p) PROVE TypeOK'
  <2>0. task[p] \in Task /\ db \in Database  BY DEF TypeOK
  <2> DEFINE t == [task[p] EXCEPT !.at = "count", !.expected = db.vectors,
                      !.alone = \A q \in Process \ {p} : ~Unfinished(q)]
  <2>1. t \in Task  BY <1>0, <2>0, MemoryAssumption, ZenonT(60) DEF Task, Database, Admitted, Current
  <2>2. task' = [task EXCEPT ![p] = t]  BY <1>8 DEF Expect, TypeOK
  <2> HIDE DEF t
  <2>3. task' \in [Process -> Task]  BY <2>1, <2>2, TaskWith
  <2> QED  BY <1>8, <2>0, <2>3 DEF Expect, TypeOK, index
<1>9. ASSUME NEW p \in Process, Count(p) PROVE TypeOK'
  <2>0. task[p] \in Task /\ db \in Database  BY DEF TypeOK
  <2>1. task' \in [Process -> Task]  BY <1>9, GoesTypes DEF Count
  <2> QED  BY <1>9, <2>0, <2>1 DEF Count, TypeOK, index
<1>10. ASSUME NEW p \in Process, Load(p) PROVE TypeOK'
  <2>0. task[p] \in Task /\ db \in Database  BY DEF TypeOK
  <2> DEFINE t == [task[p] EXCEPT !.at = "fill", !.loaded = db.vectors]
  <2>1. t \in Task  BY <1>0, <2>0, MemoryAssumption DEF Task, Database, Admitted, Current
  <2>2. task' = [task EXCEPT ![p] = t]  BY <1>10 DEF Load, TypeOK
  <2> HIDE DEF t
  <2>3. task' \in [Process -> Task]  BY <2>1, <2>2, TaskWith
  <2> QED  BY <1>10, <2>0, <2>3 DEF Load, TypeOK, index
<1>11. ASSUME NEW p \in Process, Break(p) PROVE TypeOK'
  <2>0. task[p] \in Task /\ db \in Database  BY DEF TypeOK
  <2> DEFINE t == [task[p] EXCEPT !.at = "exact"]
  <2>1. t \in Task  BY <1>0, <2>0, MemoryAssumption DEF Task, Database, Admitted, Current
  <2>2. task' = [task EXCEPT ![p] = t]  BY <1>11 DEF Break, TypeOK
  <2> HIDE DEF t
  <2>3. task' \in [Process -> Task]  BY <2>1, <2>2, TaskWith
  <2> QED  BY <1>11, <2>0, <2>3 DEF Break, TypeOK, index
<1>12. ASSUME NEW p \in Process, Exact(p) PROVE TypeOK'
  <2>0. task[p] \in Task /\ db \in Database  BY DEF TypeOK
  <2>a. PICK found \in Nearest(VectorPool[task[p].limit], db.vectors) :
           task' = [task EXCEPT ![p].at = "rows", ![p].mode = "exact",
                                ![p].expected = db.vectors, ![p].semantic = found]
    BY <1>12 DEF Exact
  <2>b. found \subseteq Memory  BY <2>0 DEF Nearest, Database
  <2> DEFINE t == [task[p] EXCEPT !.at = "rows", !.mode = "exact",
                      !.expected = db.vectors, !.semantic = found]
  <2>1. t \in Task  BY <2>0, <2>b DEF Task, Database
  <2>2. task' = [task EXCEPT ![p] = t]  BY <2>a DEF TypeOK
  <2> HIDE DEF t
  <2>3. task' \in [Process -> Task]  BY <2>1, <2>2, TaskWith
  <2> QED  BY <1>12, <2>0, <2>3 DEF Exact, TypeOK, index
<1>13. ASSUME NEW p \in Process, Rows(p) PROVE TypeOK'
  <2>0. task[p] \in Task /\ db \in Database  BY DEF TypeOK
  <2> DEFINE ranked == Admitted(task[p].text \cup task[p].semantic)
  <2>a. PICK page \in Nearest(task[p].limit, ranked) :
           task' = [task EXCEPT ![p].at = "channels", ![p].semantic = {},
                                ![p].items = page, ![p].cut = (page # ranked)]
    BY <1>13 DEF Rows
  <2>b. page \subseteq Memory  BY <2>0 DEF Nearest, Admitted, Current, Database
  <2> DEFINE t == [task[p] EXCEPT !.at = "channels", !.semantic = {},
                      !.items = page, !.cut = (page # ranked)]
  <2> HIDE DEF ranked
  <2>1. t \in Task  BY <2>0, <2>b DEF Task
  <2>2. task' = [task EXCEPT ![p] = t]  BY <2>a DEF TypeOK
  <2> HIDE DEF t
  <2>3. task' \in [Process -> Task]  BY <2>1, <2>2, TaskWith
  <2> QED  BY <1>13, <2>0, <2>3 DEF Rows, TypeOK, index
<1>14. ASSUME NEW p \in Process, Channels(p) PROVE TypeOK'
  <2>0. task[p] \in Task /\ db \in Database  BY DEF TypeOK
  <2> DEFINE t == [task[p] EXCEPT !.at = "govern", !.items = @ \cup Admitted(Related)]
  <2>1. t \in Task  BY <1>0, <2>0, MemoryAssumption DEF Task, Database, Admitted, Current
  <2>2. task' = [task EXCEPT ![p] = t]  BY <1>14 DEF Channels, TypeOK
  <2> HIDE DEF t
  <2>3. task' \in [Process -> Task]  BY <2>1, <2>2, TaskWith
  <2> QED  BY <1>14, <2>0, <2>3 DEF Channels, TypeOK, index
<1>15. ASSUME NEW p \in Process, Govern(p) PROVE TypeOK'
  <2>0. task[p] \in Task /\ db \in Database  BY DEF TypeOK
  <2> DEFINE t == [task[p] EXCEPT !.at = "record", !.items = @ \ db.archived]
  <2>1. t \in Task  BY <1>0, <2>0, MemoryAssumption DEF Task, Database, Admitted, Current
  <2>2. task' = [task EXCEPT ![p] = t]  BY <1>15 DEF Govern, TypeOK
  <2> HIDE DEF t
  <2>3. task' \in [Process -> Task]  BY <2>1, <2>2, TaskWith
  <2> QED  BY <1>15, <2>0, <2>3 DEF Govern, TypeOK, index
<1>16. ASSUME NEW p \in Process, Record(p) PROVE TypeOK'
  <2>0. task[p] \in Task /\ db \in Database  BY DEF TypeOK
  <2> DEFINE t == Idle
  <2>1. t \in Task  BY <1>0, <2>0, MemoryAssumption DEF Task, Database, Admitted, Current
  <2>2. task' = [task EXCEPT ![p] = t]  BY <1>16 DEF Record, TypeOK
  <2> HIDE DEF t
  <2>3. task' \in [Process -> Task]  BY <2>1, <2>2, TaskWith
  <2> QED  BY <1>16, <2>0, <2>3 DEF Record, TypeOK, index
<1>17. ASSUME NEW p \in Process, Scan(p) PROVE TypeOK'
  <2>0. task[p] \in Task /\ Content(p) \subseteq Memory  BY DEF TypeOK, Content
  <2>1. PICK found \in Nearest(Limit(VectorPool[task[p].limit], task[p].expected), Content(p)) :
           task' = [task EXCEPT ![p] =
              [task[p] EXCEPT !.at = "rows", !.mode = "ann", !.semantic = found,
                              !.trusted = (conn[p] = "open" /\ ~parted)]]
    BY <1>17, ZenonT(60) DEF Scan, TypeOK
  <2>2. found \subseteq Memory  BY <2>0, <2>1 DEF Nearest
  <2>3. [task[p] EXCEPT !.at = "rows", !.mode = "ann", !.semantic = found,
                        !.trusted = (conn[p] = "open" /\ ~parted)] \in Task
    BY <2>0, <2>2 DEF Task
  <2>4. task' \in [Process -> Task]  BY <2>1, <2>3, TaskWith
  <2> QED  BY <1>17, <2>4 DEF Scan, TypeOK, index
<1>18. ASSUME NEW p \in Process, Upsert(p) PROVE TypeOK'
  <2>0. task[p] \in Task /\ db \in Database  BY DEF TypeOK
  <2> DEFINE t == [task[p] EXCEPT !.at = "state"]
             tasks == [task EXCEPT ![p] = t]
  <2>1. t \in Task  BY <1>0, <2>0 DEF Task
  <2>2. task' = Disturbing(p, tasks)  BY <1>18 DEF Upsert, TypeOK
  <2>3. tasks \in [Process -> Task]  BY <2>1 DEF TypeOK
  <2> HIDE DEF t, tasks
  <2>4. task' \in [Process -> Task]  BY <2>2, <2>3, DisturbingTypes
  <2>5. task[p].memory \in Memory  BY <1>18 DEF Upsert, Named
  <2> QED  BY <1>18, <2>4, <2>5 DEF Upsert, TypeOK
<1>19. ASSUME NEW p \in Process, CommitVector(p) PROVE TypeOK'
  <2>0. task[p] \in Task /\ db \in Database  BY DEF TypeOK
  <2> DEFINE t == Idle
             tasks == [task EXCEPT ![p] = t]
  <2>1. t \in Task  BY <1>0, <2>0 DEF Task
  <2>2. task' = Disturbing(p, tasks)  BY <1>19 DEF CommitVector, TypeOK
  <2>3. tasks \in [Process -> Task]  BY <2>1 DEF TypeOK
  <2> HIDE DEF t, tasks
  <2>4. task' \in [Process -> Task]  BY <2>2, <2>3, DisturbingTypes
  <2>5. task[p].memory \in Memory  BY <1>19 DEF CommitVector, Named
  <2>6. db' \in Database  BY <1>19, <2>0, <2>5 DEF CommitVector, Database
  <2> QED  BY <1>19, <2>4, <2>6 DEF CommitVector, TypeOK, index
<1>20. ASSUME NEW p \in Process, Clear(p) PROVE TypeOK'
  <2>0. task[p] \in Task /\ db \in Database  BY DEF TypeOK
  <2> DEFINE t == [task[p] EXCEPT !.at = "load"]
             tasks == [task EXCEPT ![p] = t]
  <2>1. t \in Task  BY <1>0, <2>0 DEF Task
  <2>2. task' = Disturbing(p, tasks)  BY <1>20 DEF Clear, TypeOK
  <2>3. tasks \in [Process -> Task]  BY <2>1 DEF TypeOK
  <2> HIDE DEF t, tasks
  <2>4. task' \in [Process -> Task]  BY <2>2, <2>3, DisturbingTypes
  <2>5. task[p].loaded \subseteq Memory  BY <2>0 DEF Task
  <2> QED  BY <1>20, <2>4, <2>5 DEF Clear, TypeOK
<1>21. ASSUME NEW p \in Process, Fill(p) PROVE TypeOK'
  <2>0. task[p] \in Task /\ db \in Database  BY DEF TypeOK
  <2> DEFINE t == [task[p] EXCEPT !.at = "scan", !.loaded = {}]
             tasks == [task EXCEPT ![p] = t]
  <2>1. t \in Task  BY <1>0, <2>0 DEF Task
  <2>2. task' = Disturbing(p, tasks)  BY <1>21 DEF Fill, TypeOK
  <2>3. tasks \in [Process -> Task]  BY <2>1 DEF TypeOK
  <2> HIDE DEF t, tasks
  <2>4. task' \in [Process -> Task]  BY <2>2, <2>3, DisturbingTypes
  <2>5. task[p].loaded \subseteq Memory  BY <2>0 DEF Task
  <2> QED  BY <1>21, <2>4, <2>5 DEF Fill, TypeOK
<1>22. ASSUME NEW p \in Process, NEW restarts \in BOOLEAN, Crash(p, restarts) PROVE TypeOK'
  <2>1. task' \in [Process -> Task]  BY <1>0, <1>22, TaskWith DEF Crash
  <2>2. spent' \in [searches: 0 .. MaxSearches, changes: 0 .. MaxChanges,
                    crashes: 0 .. MaxCrashes, restores: 0 .. MaxRestores]
    BY <1>22, BoundAssumption DEF Crash, TypeOK
  <2> QED  BY <1>22, <2>1, <2>2 DEF Crash, TypeOK
<1>23. ASSUME Invalidate PROVE TypeOK'
  <2>1. spent' \in [searches: 0 .. MaxSearches, changes: 0 .. MaxChanges,
                    crashes: 0 .. MaxCrashes, restores: 0 .. MaxRestores]
    BY <1>23, BoundAssumption DEF Invalidate, TypeOK
  <2> QED  BY <1>23, <2>1 DEF Invalidate, Detached, TypeOK
<1>24. ASSUME Replace PROVE TypeOK'
  <2>1. Empty \in Database  BY DEF Empty, Database
  <2> QED  BY <1>24, <2>1 DEF Replace, TypeOK
<1>25. ASSUME UNCHANGED vars PROVE TypeOK'
  BY <1>25 DEF vars, index, TypeOK
<1> QED
  BY <1>1, <1>3, <1>4, <1>5, <1>6, <1>7, <1>8, <1>9, <1>10, <1>11, <1>12, <1>13, <1>14, <1>15, <1>16, <1>17, <1>18, <1>19, <1>20, <1>21, <1>22, <1>23, <1>24, <1>25 DEF Next

\* What one process leaves of the tasks of the others.
Bystander(q) == task'[q] \in {task[q], [task[q] EXCEPT !.alone = FALSE]}

LEMMA NextNamed == TypeOK /\ Named /\ [Next]_vars => Named'
<1> SUFFICES ASSUME TypeOK, Named, [Next]_vars, NEW q \in Process, task'[q].at \in Indexing
             PROVE  task'[q].memory \in Memory
  BY DEF Named
<1> USE DEF Indexing, Searching, TypeOK
<1>1. ASSUME NEW p \in Process, NEW m \in Memory, Confirm(p, m) PROVE task'[q].memory \in Memory
  <2>1. Watching(db') \in [Process -> Task] /\ db' \in Database
    <3>1. db' \in Database  BY <1>1 DEF Confirm, Commit, Database
    <3> QED  BY <3>1, WatchingTypes
  <2>2. task' = [Watching(db') EXCEPT ![p].at = "embed", ![p].memory = m]
    BY <1>1 DEF Confirm, Commit
  <2>3. CASE q = p
    <3> HIDE DEF TypeOK
    <3>1. task'[p].memory = m  BY <2>1, <2>2 DEF Task
    <3> QED  BY <2>3, <3>1
  <2>4. CASE q # p
    <3>1. task'[q] = Watching(db')[q]  BY <1>1, <2>4 DEF Confirm, Commit, Watching
    <3>2. task'[q].at = task[q].at /\ task'[q].memory = task[q].memory  BY <3>1 DEF Watching, Task
    <3> QED  BY <3>2 DEF Named
  <2> QED  BY <2>3, <2>4
<1>2. ASSUME NEW d, Change(d) PROVE task'[q].memory \in Memory
  <2>1. task'[q].at = task[q].at /\ task'[q].memory = task[q].memory
    BY <1>2, ZenonT(60) DEF Change, Watching, Task
  <2> QED  BY <2>1 DEF Named
<1>3. ASSUME NEW p \in Process, Embed(p) PROVE task'[q].memory \in Memory
  <2>1. task[p] \in Task /\ task[q] \in Task  OBVIOUS
  <2>2. CASE q = p  BY <1>3, <2>1, <2>2 DEF Embed, Named, Goes, Task
  <2>3. CASE q # p  BY <1>3, <2>1, <2>3 DEF Embed, Named, Goes, Task
  <2> QED  BY <2>2, <2>3
<1>4. ASSUME NEW p \in Process, Upsert(p) PROVE task'[q].memory \in Memory
  <2>1. task[p] \in Task /\ task[q] \in Task  OBVIOUS
  <2>2. CASE q = p  BY <1>4, <2>1, <2>2 DEF Upsert, Named, Disturbing, Task
  <2>3. CASE q # p  BY <1>4, <2>1, <2>3 DEF Upsert, Named, Disturbing, Task
  <2> QED  BY <2>2, <2>3
<1>5. ASSUME NEW p \in Process, UpsertFails(p) PROVE task'[q].memory \in Memory
  <2>1. task[p] \in Task /\ task[q] \in Task  OBVIOUS
  <2>2. CASE q = p  BY <1>5, <2>1, <2>2 DEF UpsertFails, Named, Goes, Task
  <2>3. CASE q # p  BY <1>5, <2>1, <2>3 DEF UpsertFails, Named, Goes, Task
  <2> QED  BY <2>2, <2>3
<1>6. ASSUME NEW p \in Process, CommitVector(p) PROVE task'[q].memory \in Memory
  <2>1. task[p] \in Task /\ task[q] \in Task  OBVIOUS
  <2>2. CASE q = p  BY <1>6, <2>1, <2>2 DEF CommitVector, Named, Disturbing, Idle, Task
  <2>3. CASE q # p  BY <1>6, <2>1, <2>3 DEF CommitVector, Named, Disturbing, Idle, Task
  <2> QED  BY <2>2, <2>3
<1>7. ASSUME NEW p \in Process, Search(p) PROVE task'[q].memory \in Memory
  <2>1. task[p] \in Task /\ task[q] \in Task  OBVIOUS
  <2>2. CASE q = p  BY <1>7, <2>1, <2>2 DEF Search, Named, Idle, Task
  <2>3. CASE q # p  BY <1>7, <2>1, <2>3 DEF Search, Named, Idle, Task
  <2> QED  BY <2>2, <2>3
<1>8. ASSUME NEW p \in Process, EmbedFails(p) PROVE task'[q].memory \in Memory
  <2>1. task[p] \in Task /\ task[q] \in Task  OBVIOUS
  <2>2. CASE q = p  BY <1>8, <2>1, <2>2 DEF EmbedFails, Named, Idle, Task
  <2>3. CASE q # p  BY <1>8, <2>1, <2>3 DEF EmbedFails, Named, Idle, Task
  <2> QED  BY <2>2, <2>3
<1>9. ASSUME NEW p \in Process, Expect(p) PROVE task'[q].memory \in Memory
  <2>1. task[p] \in Task /\ task[q] \in Task  OBVIOUS
  <2>2. CASE q = p  BY <1>9, <2>1, <2>2 DEF Expect, Named, Task
  <2>3. CASE q # p  BY <1>9, <2>1, <2>3 DEF Expect, Named, Task
  <2> QED  BY <2>2, <2>3
<1>10. ASSUME NEW p \in Process, Count(p) PROVE task'[q].memory \in Memory
  <2>1. task[p] \in Task /\ task[q] \in Task  OBVIOUS
  <2>2. CASE q = p  BY <1>10, <2>1, <2>2 DEF Count, Named, Goes, Task
  <2>3. CASE q # p  BY <1>10, <2>1, <2>3 DEF Count, Named, Goes, Task
  <2> QED  BY <2>2, <2>3
<1>11. ASSUME NEW p \in Process, Clear(p) PROVE task'[q].memory \in Memory
  <2>1. task[p] \in Task /\ task[q] \in Task  OBVIOUS
  <2>2. CASE q = p  BY <1>11, <2>1, <2>2 DEF Clear, Named, Disturbing, Task
  <2>3. CASE q # p  BY <1>11, <2>1, <2>3 DEF Clear, Named, Disturbing, Task
  <2> QED  BY <2>2, <2>3
<1>12. ASSUME NEW p \in Process, Load(p) PROVE task'[q].memory \in Memory
  <2>1. task[p] \in Task /\ task[q] \in Task  OBVIOUS
  <2>2. CASE q = p  BY <1>12, <2>1, <2>2 DEF Load, Named, Task
  <2>3. CASE q # p  BY <1>12, <2>1, <2>3 DEF Load, Named, Task
  <2> QED  BY <2>2, <2>3
<1>13. ASSUME NEW p \in Process, Fill(p) PROVE task'[q].memory \in Memory
  <2>1. task[p] \in Task /\ task[q] \in Task  OBVIOUS
  <2>2. CASE q = p  BY <1>13, <2>1, <2>2 DEF Fill, Named, Disturbing, Task
  <2>3. CASE q # p  BY <1>13, <2>1, <2>3 DEF Fill, Named, Disturbing, Task
  <2> QED  BY <2>2, <2>3
<1>14. ASSUME NEW p \in Process, Scan(p) PROVE task'[q].memory \in Memory
  <2>1. task[p] \in Task /\ task[q] \in Task  OBVIOUS
  <2>2. CASE q = p  BY <1>14, <2>1, <2>2 DEF Scan, Named, Task
  <2>3. CASE q # p  BY <1>14, <2>1, <2>3 DEF Scan, Named, Task
  <2> QED  BY <2>2, <2>3
<1>15. ASSUME NEW p \in Process, Break(p) PROVE task'[q].memory \in Memory
  <2>1. task[p] \in Task /\ task[q] \in Task  OBVIOUS
  <2>2. CASE q = p  BY <1>15, <2>1, <2>2 DEF Break, Named, Task
  <2>3. CASE q # p  BY <1>15, <2>1, <2>3 DEF Break, Named, Task
  <2> QED  BY <2>2, <2>3
<1>16. ASSUME NEW p \in Process, Exact(p) PROVE task'[q].memory \in Memory
  <2>1. task[p] \in Task /\ task[q] \in Task  OBVIOUS
  <2>2. CASE q = p  BY <1>16, <2>1, <2>2 DEF Exact, Named, Task
  <2>3. CASE q # p  BY <1>16, <2>1, <2>3 DEF Exact, Named, Task
  <2> QED  BY <2>2, <2>3
<1>17. ASSUME NEW p \in Process, Rows(p) PROVE task'[q].memory \in Memory
  <2>1. task[p] \in Task /\ task[q] \in Task  OBVIOUS
  <2>2. CASE q = p  BY <1>17, <2>1, <2>2 DEF Rows, Named, Task
  <2>3. CASE q # p  BY <1>17, <2>1, <2>3 DEF Rows, Named, Task
  <2> QED  BY <2>2, <2>3
<1>18. ASSUME NEW p \in Process, Channels(p) PROVE task'[q].memory \in Memory
  <2>1. task[p] \in Task /\ task[q] \in Task  OBVIOUS
  <2>2. CASE q = p  BY <1>18, <2>1, <2>2 DEF Channels, Named, Task
  <2>3. CASE q # p  BY <1>18, <2>1, <2>3 DEF Channels, Named, Task
  <2> QED  BY <2>2, <2>3
<1>19. ASSUME NEW p \in Process, Govern(p) PROVE task'[q].memory \in Memory
  <2>1. task[p] \in Task /\ task[q] \in Task  OBVIOUS
  <2>2. CASE q = p  BY <1>19, <2>1, <2>2 DEF Govern, Named, Task
  <2>3. CASE q # p  BY <1>19, <2>1, <2>3 DEF Govern, Named, Task
  <2> QED  BY <2>2, <2>3
<1>20. ASSUME NEW p \in Process, Record(p) PROVE task'[q].memory \in Memory
  <2>1. task[p] \in Task /\ task[q] \in Task  OBVIOUS
  <2>2. CASE q = p  BY <1>20, <2>1, <2>2 DEF Record, Named, Idle, Task
  <2>3. CASE q # p  BY <1>20, <2>1, <2>3 DEF Record, Named, Idle, Task
  <2> QED  BY <2>2, <2>3
<1>21. CASE \E p \in Process, restarts \in BOOLEAN : Crash(p, restarts)
  BY <1>21 DEF Crash, Idle, Named
<1>22. CASE Invalidate \/ Replace \/ UNCHANGED vars
  BY <1>22 DEF Invalidate, Replace, vars, Named
<1> QED  BY <1>1, <1>2, <1>3, <1>4, <1>5, <1>6, <1>7, <1>8, <1>9, <1>10, <1>11, <1>12, <1>13, <1>14, <1>15, <1>16, <1>17, <1>18, <1>19, <1>20, <1>21, <1>22 DEF Next, Forget, Archive
-----------------------------------------------------------------------------
\* Steps and tasks.

\* A task that is not searching owes nothing.
LEMMA IdleOk ==
    ASSUME NEW p \in Process, task'[p].at \notin Searching
    PROVE  TaskOk(p)'
BY DEF TaskOk, Watched, Counted, Indexed, Collected, Searching, Counting, Answering

\* A task that is left as it is, with the vectors and what it reads of the
\* index; or that is told of a disturbance.
LEMMA Bystands ==
    ASSUME TypeOK, NEW q \in Process, TaskOk(q), Bystander(q),
           Current(db') = Current(db), db.vectors \subseteq db'.vectors,
           \/ ~ task'[q].alone
           \/ /\ db'.vectors = db.vectors
              /\ \A r \in Process : Ahead(r)' => Ahead(r)
              /\ conn'[q] = "open" =>
                    conn[q] = "open" /\ file' = file /\ (parted => parted')
    PROVE  TaskOk(q)'
<1>1. /\ task'[q].at = task[q].at /\ task'[q].seen = task[q].seen
      /\ task'[q].kept = task[q].kept /\ task'[q].expected = task[q].expected
      /\ task'[q].loaded = task[q].loaded /\ task'[q].mode = task[q].mode
      /\ task'[q].trusted = task[q].trusted /\ task'[q].semantic = task[q].semantic
      /\ task'[q].items = task[q].items /\ task'[q].text = task[q].text
      /\ task'[q].cut = task[q].cut /\ task'[q].limit = task[q].limit
      /\ task'[q].alone => task[q].alone
  <2>1. CASE task'[q] = task[q]  BY <2>1
  <2>2. CASE task'[q] = [task[q] EXCEPT !.alone = FALSE]
    BY <2>2 DEF TypeOK, Task
  <2> QED  BY <2>1, <2>2 DEF Bystander
<1>2. Watched(q)'  BY <1>1 DEF TaskOk, Watched
<1>3. Counted(q)'  BY <1>1 DEF TaskOk, Counted
<1>4. Indexed(q)'
  <2> SUFFICES ASSUME task'[q].alone, conn'[q] = "open"
               PROVE  /\ task'[q].at \in {"load", "fill"} => file' = {}
                      /\ task'[q].at = "scan" /\ ~parted' => file' = task'[q].expected
    BY DEF Indexed
  <2>1. task[q].alone  BY <1>1
  <2>2. conn[q] = "open" /\ file' = file  OBVIOUS
  <2>3. parted => parted'  OBVIOUS
  <2>4. ~parted' => ~parted  BY <2>3, Zenon
  <2> QED  BY <1>1, <2>1, <2>2, <2>4 DEF TaskOk, Indexed
<1>5. Collected(q)'  BY <1>1 DEF TaskOk, Collected, InPool
<1> QED  BY <1>2, <1>3, <1>4, <1>5 DEF TaskOk

\* A commit that changes what is current.
LEMMA Watches ==
    ASSUME TypeOK, NEW q \in Process, TaskOk(q), NEW d, db' = d,
           task'[q] = Watching(d)[q], d.vectors = db.vectors,
           \A r \in Process : Ahead(r)' => Ahead(r),
           UNCHANGED index
    PROVE  TaskOk(q)'
<1>1. /\ task'[q].at = task[q].at /\ task'[q].expected = task[q].expected
      /\ task'[q].loaded = task[q].loaded /\ task'[q].mode = task[q].mode
      /\ task'[q].trusted = task[q].trusted /\ task'[q].semantic = task[q].semantic
      /\ task'[q].items = task[q].items /\ task'[q].text = task[q].text
      /\ task'[q].cut = task[q].cut /\ task'[q].limit = task[q].limit
      /\ task'[q].alone = task[q].alone
  BY DEF TypeOK, Task, Watching
<1>2. task[q].at \in Searching =>
         /\ task'[q].seen = task[q].seen \cup Current(d)
         /\ task'[q].kept = task[q].kept \cap Current(d)
  BY DEF TypeOK, Task, Watching
<1>3. Watched(q)'  BY <1>1, <1>2 DEF TaskOk, Watched, Current
<1>4. Counted(q)'  BY <1>1 DEF TaskOk, Counted
<1>5. Indexed(q)'  BY <1>1 DEF TaskOk, Indexed, index
<1>6. Collected(q)'
  BY <1>1, <1>2 DEF TaskOk, Collected, InPool, Answering, Searching
<1> QED  BY <1>3, <1>4, <1>5, <1>6 DEF TaskOk

\* A step of one process that writes neither a vector nor an entry.
LEMMA QuietStep ==
    ASSUME Inv, NEW p \in Process,
           \A q \in Process \ {p} : task'[q] = task[q] /\ conn'[q] = conn[q],
           db' = db, file' = file,
           ~present' => ~present,
           parted => parted',
           Ahead(p)' => Ahead(p),
           Ahead(p) => parted' \/ (Ahead(p)' /\ task'[p].memory = task[p].memory),
           TaskOk(p)'
    PROVE  Entries' /\ \A q \in Process : TaskOk(q)'
<1>1. \A q \in Process \ {p} : (Ahead(q)' <=> Ahead(q)) /\ task'[q].memory = task[q].memory
  BY DEF Ahead
<1>2. \A q \in Process : Ahead(q)' => Ahead(q)
  BY <1>1
<1>3. ASSUME NEW q \in Process \ {p} PROVE TaskOk(q)'
  <2>1. Bystander(q) /\ TaskOk(q)  BY DEF Bystander, Inv
  <2> QED  BY <1>2, <2>1, Bystands DEF Inv
<1>4. ~present' => file' = {}
  BY DEF Inv, Entries
<1>5. ASSUME ~parted', NEW m \in file'
      PROVE  m \in db'.vectors \/ \E q \in Process : Ahead(q)' /\ task'[q].memory = m
  <2>1. ~parted  BY <1>5
  <2>2. m \in db.vectors \/ \E q \in Process : Ahead(q) /\ task[q].memory = m
    BY <1>5, <2>1 DEF Inv, Entries
  <2>3. ASSUME NEW q \in Process, Ahead(q), task[q].memory = m
        PROVE  Ahead(q)' /\ task'[q].memory = m
    BY <1>1, <1>5, <2>3
  <2> QED  BY <2>2, <2>3
<1>6. Entries'
  BY <1>4, <1>5 DEF Entries
<1> QED  BY <1>3, <1>6

\* A step of a search that reads: only its own task changes.
LEMMA ReadStep ==
    ASSUME Inv, NEW p \in Process, NEW t, t.at # "state", task[p].at # "state",
           task' = [task EXCEPT ![p] = t],
           UNCHANGED <<db, index>>,
           TaskOk(p)'
    PROVE  Entries' /\ \A q \in Process : TaskOk(q)'
<1>1. task'[p] = t /\ \A q \in Process \ {p} : task'[q] = task[q]
  BY DEF Inv, TypeOK
<1>2. ~Ahead(p) /\ ~Ahead(p)'
  BY <1>1 DEF Ahead
<1> QED  BY <1>1, <1>2, QuietStep DEF index

\* A step that another process at the index has to know of.
LEMMA LoudStep ==
    ASSUME Inv, NEW p \in Process, NEW t,
           task' = Disturbing(p, [task EXCEPT ![p] = t]),
           Current(db') = Current(db), db.vectors \subseteq db'.vectors,
           TaskOk(p)'
    PROVE  /\ \A q \in Process : TaskOk(q)'
           /\ task'[p] = t
           /\ \A q \in Process \ {p} : task'[q].at = task[q].at
                                     /\ task'[q].memory = task[q].memory
<1>1. task'[p] = t /\ \A q \in Process \ {p} : task'[q] = [task[q] EXCEPT !.alone = FALSE]
  BY DEF Inv, TypeOK, Disturbing
<1>2. ASSUME NEW q \in Process \ {p} PROVE TaskOk(q)'
  <2>1. ~task'[q].alone  BY <1>1 DEF Inv, TypeOK, Task
  <2>2. Bystander(q) /\ TaskOk(q)  BY <1>1 DEF Bystander, Inv
  <2> QED  BY <2>1, <2>2, Bystands DEF Inv
<1>3. ASSUME NEW q \in Process \ {p}
      PROVE  task'[q].at = task[q].at /\ task'[q].memory = task[q].memory
  <2>1. task[q] \in Task  BY DEF Inv, TypeOK
  <2> QED  BY <1>1, <2>1 DEF Task
<1> QED  BY <1>1, <1>2, <1>3

-----------------------------------------------------------------------------
\* The steps of a search.

LEMMA SearchKeeps ==
    ASSUME Inv, NEW p \in Process, Search(p)
    PROVE  Entries' /\ \A q \in Process : TaskOk(q)'
<1>a. PICK limit \in Limits :
         \E found \in Nearest(WordPool[limit], Worded \cap Current(db)) :
            task' = [task EXCEPT ![p] =
               [Idle EXCEPT !.at = "expect", !.limit = limit, !.text = found,
                            !.seen = Current(db), !.kept = Current(db)]]
  BY DEF Search
<1>0. PICK found \in Nearest(WordPool[limit], Worded \cap Current(db)) :
         task' = [task EXCEPT ![p] =
            [Idle EXCEPT !.at = "expect", !.limit = limit, !.text = found,
                         !.seen = Current(db), !.kept = Current(db)]]
  BY <1>a
<1> DEFINE t == [Idle EXCEPT !.at = "expect", !.limit = limit, !.text = found,
                             !.seen = Current(db), !.kept = Current(db)]
<1>1. task' = [task EXCEPT ![p] = t] /\ UNCHANGED <<db, index>>  BY <1>0 DEF Search, index
<1>2. task'[p] = t  BY <1>1 DEF Inv, TypeOK
<1>3. t.at = "expect" /\ t.mode = "fts" /\ t.seen = Current(db) /\ t.kept = Current(db)
  BY DEF Idle
<1>4. Watched(p)'  BY <1>1, <1>2, <1>3 DEF Watched, Current
<1>5. Counted(p)' /\ Indexed(p)' /\ Collected(p)'
  BY <1>2, <1>3 DEF Counted, Indexed, Collected, Counting, Answering
<1>6. TaskOk(p)'  BY <1>4, <1>5 DEF TaskOk
<1>7. t.at # "state" /\ task[p].at # "state"  BY DEF Idle, Search
<1> QED  BY <1>1, <1>6, <1>7, ReadStep

LEMMA ExpectKeeps ==
    ASSUME Inv, NEW p \in Process, Expect(p)
    PROVE  Entries' /\ \A q \in Process : TaskOk(q)'
<1> DEFINE t == [task[p] EXCEPT !.at = "count", !.expected = db.vectors,
                                !.alone = \A q \in Process \ {p} : ~Unfinished(q)]
<1>1. task' = [task EXCEPT ![p] = t]  BY DEF Expect, Inv, TypeOK
<1>2. /\ task'[p] = t /\ task[p] \in Task
      /\ \A q \in Process \ {p} : task'[q] = task[q] /\ conn'[q] = conn[q]
  BY <1>1 DEF Inv, TypeOK, Expect
<1>3. /\ t.at = "count" /\ t.expected = db.vectors
      /\ t.alone => \A q \in Process \ {p} : ~Unfinished(q)
      /\ t.seen = task[p].seen /\ t.kept = task[p].kept
  BY <1>2 DEF Task
<1>4. ~Ahead(p) /\ ~Ahead(p)'  BY <1>2, <1>3 DEF Ahead, Expect
<1>5. \A q \in Process \ {p} : Ahead(q)' => Unfinished(q)
  BY <1>2 DEF Ahead, Unfinished
<1>6. Counted(p)'  BY <1>2, <1>3, <1>5 DEF Counted, Counting, Expect
<1>7. Watched(p)'
  BY <1>2, <1>3 DEF Watched, Inv, TaskOk, Expect, Searching, Current
<1>8. Indexed(p)' /\ Collected(p)'
  BY <1>2, <1>3 DEF Indexed, Collected, Answering
<1>9. TaskOk(p)'  BY <1>6, <1>7, <1>8 DEF TaskOk
<1>10. db' = db /\ file' = file /\ parted' = parted  BY DEF Expect
<1>11. ~present' => ~present  BY DEF Expect
<1> HIDE DEF t
<1> QED  BY <1>2, <1>4, <1>9, <1>10, <1>11, QuietStep

\* Of two finite sets of one size, one within the other, both are the same.
LEMMA SameSize ==
    ASSUME NEW S \in SUBSET Memory, NEW T \in SUBSET S, Cardinality(S) = Cardinality(T)
    PROVE  S = T
<1>1. IsFiniteSet(S)  BY MemoryAssumption, FS_Subset
<1> QED  BY <1>1, FS_Subset

LEMMA CountKeeps ==
    ASSUME Inv, NEW p \in Process, Count(p)
    PROVE  Entries' /\ \A q \in Process : TaskOk(q)'
<1> DEFINE stage == IF Stale(Content(p), task[p].expected) THEN "clear" ELSE "scan"
           t == [task[p] EXCEPT !.at = stage]
<1>1. task' = [task EXCEPT ![p] = t] /\ UNCHANGED <<db, index>>  BY DEF Count, Goes, index
<1>2. task'[p] = t /\ task[p] \in Task  BY <1>1 DEF Inv, TypeOK
<1>3. /\ t.at = stage /\ t.expected = task[p].expected /\ t.alone = task[p].alone
      /\ t.seen = task[p].seen /\ t.kept = task[p].kept
  BY <1>2 DEF Task
<1>4. task[p].at = "count"  BY DEF Count
<1>5. Watched(p)'
  BY <1>1, <1>2, <1>3, <1>4 DEF Watched, Inv, TaskOk, Searching, Current
<1>6. \A q \in Process \ {p} : Ahead(q)' => Ahead(q)
  BY <1>1 DEF Ahead, index, Inv, TypeOK
<1>7. Counted(p)'
  BY <1>1, <1>2, <1>3, <1>4, <1>6 DEF Counted, Inv, TaskOk, Counting
<1>8. ASSUME t.alone, conn[p] = "open", stage = "scan", ~parted
      PROVE  file = t.expected
  <2>1. task[p].alone  BY <1>3, <1>8
  <2>2. task[p].expected = db.vectors /\ \A q \in Process \ {p} : ~Ahead(q)
    BY <1>4, <2>1 DEF Inv, TaskOk, Counted, Counting
  <2>3. ~Ahead(p)  BY <1>4 DEF Ahead
  <2>4. file \subseteq db.vectors  BY <1>8, <2>2, <2>3 DEF Inv, Entries
  <2>5. Cardinality(file) = Cardinality(db.vectors)
    BY <1>8, <2>2 DEF Stale, Content
  <2>6. db.vectors \in SUBSET Memory  BY DEF Inv, TypeOK, Database
  <2>7. file = db.vectors  BY <2>4, <2>5, <2>6, SameSize
  <2> QED  BY <1>3, <2>2, <2>7
<1>9. Indexed(p)'
  <2>1. conn' = conn /\ file' = file /\ parted' = parted  BY <1>1 DEF index
  <2> QED  BY <1>2, <1>3, <1>8, <2>1 DEF Indexed
<1>10. Collected(p)'  BY <1>2, <1>3 DEF Collected, Answering
<1>11. TaskOk(p)'  BY <1>5, <1>7, <1>9, <1>10 DEF TaskOk
<1>12. t.at # "state" /\ task[p].at # "state"  BY <1>3, <1>4
<1> HIDE DEF t
<1> QED  BY <1>1, <1>11, <1>12, ReadStep

LEMMA LoadKeeps ==
    ASSUME Inv, NEW p \in Process, Load(p)
    PROVE  Entries' /\ \A q \in Process : TaskOk(q)'
<1> DEFINE t == [task[p] EXCEPT !.at = "fill", !.loaded = db.vectors]
<1>1. task' = [task EXCEPT ![p] = t] /\ UNCHANGED <<db, index>>  BY DEF Load, index, Inv, TypeOK
<1>2. task'[p] = t /\ task[p] \in Task  BY <1>1 DEF Inv, TypeOK
<1>3. /\ t.at = "fill" /\ t.loaded = db.vectors /\ t.expected = task[p].expected
      /\ t.alone = task[p].alone /\ t.seen = task[p].seen /\ t.kept = task[p].kept
  BY <1>2 DEF Task
<1>4. task[p].at = "load" /\ TaskOk(p)  BY DEF Load, Inv
<1>5. Watched(p)'
  BY <1>1, <1>2, <1>3, <1>4 DEF Watched, TaskOk, Searching, Current
<1>6. \A q \in Process \ {p} : Ahead(q)' => Ahead(q)
  BY <1>1 DEF Ahead, index, Inv, TypeOK
<1>7. Counted(p)'
  BY <1>1, <1>2, <1>3, <1>4, <1>6 DEF Counted, TaskOk, Counting
<1>8. Indexed(p)'
  BY <1>1, <1>2, <1>3, <1>4 DEF Indexed, TaskOk, index
<1>9. Counted(p)' /\ Indexed(p)'  BY <1>7, <1>8
<1>10. Collected(p)'  BY <1>2, <1>3 DEF Collected, Answering
<1>11. TaskOk(p)'  BY <1>5, <1>9, <1>10 DEF TaskOk
<1>12. t.at # "state" /\ task[p].at # "state"  BY <1>3, <1>4
<1> HIDE DEF t
<1> QED  BY <1>1, <1>11, <1>12, ReadStep

LEMMA ExactKeeps ==
    ASSUME Inv, NEW p \in Process, Exact(p)
    PROVE  Entries' /\ \A q \in Process : TaskOk(q)'
<1>0. PICK found \in Nearest(VectorPool[task[p].limit], db.vectors) :
         task' = [task EXCEPT ![p].at = "rows", ![p].mode = "exact",
                              ![p].expected = db.vectors, ![p].semantic = found]
  BY DEF Exact
<1> DEFINE t == [task[p] EXCEPT !.at = "rows", !.mode = "exact",
                                !.expected = db.vectors, !.semantic = found]
<1>1. task' = [task EXCEPT ![p] = t] /\ UNCHANGED <<db, index>>
  BY <1>0 DEF Exact, index, Inv, TypeOK
<1>2. task'[p] = t /\ task[p] \in Task  BY <1>1 DEF Inv, TypeOK
<1>3. /\ t.at = "rows" /\ t.expected = db.vectors /\ t.semantic = found
      /\ t.limit = task[p].limit
      /\ t.seen = task[p].seen /\ t.kept = task[p].kept
  BY <1>2 DEF Task
<1>4. task[p].at = "exact" /\ TaskOk(p)  BY DEF Exact, Inv
<1>5. Watched(p)'
  BY <1>1, <1>2, <1>3, <1>4 DEF Watched, TaskOk, Searching, Current
<1>6. Counted(p)' /\ Indexed(p)'
  BY <1>2, <1>3 DEF Counted, Indexed, Counting
<1>a. InPool(t) => found = db.vectors
  BY <1>3 DEF InPool, Nearest
<1>7. Collected(p)'  BY <1>2, <1>3, <1>a DEF Collected, Answering
<1>8. TaskOk(p)'  BY <1>5, <1>6, <1>7 DEF TaskOk
<1>9. t.at # "state" /\ task[p].at # "state"  BY <1>3, <1>4
<1> HIDE DEF t
<1> QED  BY <1>1, <1>8, <1>9, ReadStep

LEMMA RowsKeeps ==
    ASSUME Inv, NEW p \in Process, Rows(p)
    PROVE  Entries' /\ \A q \in Process : TaskOk(q)'
<1> DEFINE ranked == Admitted(task[p].text \cup task[p].semantic)
<1>0. PICK page \in Nearest(task[p].limit, ranked) :
         task' = [task EXCEPT ![p].at = "channels", ![p].semantic = {},
                              ![p].items = page, ![p].cut = (page # ranked)]
  BY DEF Rows
<1> DEFINE t == [task[p] EXCEPT !.at = "channels", !.semantic = {},
                                !.items = page, !.cut = (page # ranked)]
<1>1. task' = [task EXCEPT ![p] = t] /\ UNCHANGED <<db, index>>
  BY <1>0 DEF Rows, index, Inv, TypeOK
<1>2. task'[p] = t /\ task[p] \in Task  BY <1>1 DEF Inv, TypeOK
<1>3. /\ t.at = "channels" /\ t.items = page /\ t.limit = task[p].limit
      /\ t.cut \/ t.items = ranked
      /\ t.items \subseteq ranked
      /\ t.mode = task[p].mode /\ t.alone = task[p].alone /\ t.trusted = task[p].trusted
      /\ t.expected = task[p].expected /\ t.text = task[p].text
      /\ t.seen = task[p].seen /\ t.kept = task[p].kept
  <2>1. page \subseteq ranked  BY <1>0 DEF Nearest
  <2> HIDE DEF ranked
  <2> QED  BY <1>2, <2>1 DEF Task
<1>4. task[p].at = "rows" /\ TaskOk(p)  BY DEF Rows, Inv
<1>5. Watched(p)'
  BY <1>1, <1>2, <1>3, <1>4 DEF Watched, TaskOk, Searching, Current
<1>6. Counted(p)' /\ Indexed(p)'
  BY <1>2, <1>3 DEF Counted, Indexed, Counting
<1>7. Current(db) \subseteq task[p].seen /\ task[p].kept \subseteq Current(db)
  BY <1>4 DEF TaskOk, Watched, Searching
<1>8. Collected(p)'
  BY <1>2, <1>3, <1>4, <1>7 DEF Collected, InPool, TaskOk, Answering, Admitted
<1>9. TaskOk(p)'  BY <1>5, <1>6, <1>8 DEF TaskOk
<1>10. t.at # "state" /\ task[p].at # "state"  BY <1>3, <1>4
<1> HIDE DEF t
<1> QED  BY <1>1, <1>9, <1>10, ReadStep

LEMMA ChannelsKeeps ==
    ASSUME Inv, NEW p \in Process, Channels(p)
    PROVE  Entries' /\ \A q \in Process : TaskOk(q)'
<1> DEFINE t == [task[p] EXCEPT !.at = "govern", !.items = @ \cup Admitted(Related)]
<1>1. task' = [task EXCEPT ![p] = t] /\ UNCHANGED <<db, index>>  BY DEF Channels, index, Inv, TypeOK
<1>2. task'[p] = t /\ task[p] \in Task  BY <1>1 DEF Inv, TypeOK
<1>3. /\ t.at = "govern" /\ t.limit = task[p].limit /\ t.cut = task[p].cut
      /\ t.items = task[p].items \cup Admitted(Related)
      /\ t.mode = task[p].mode /\ t.alone = task[p].alone /\ t.trusted = task[p].trusted
      /\ t.expected = task[p].expected /\ t.text = task[p].text
      /\ t.seen = task[p].seen /\ t.kept = task[p].kept
  BY <1>2 DEF Task
<1>4. task[p].at = "channels" /\ TaskOk(p)  BY DEF Channels, Inv
<1>5. Watched(p)'
  BY <1>1, <1>2, <1>3, <1>4 DEF Watched, TaskOk, Searching, Current
<1>6. Counted(p)' /\ Indexed(p)'
  BY <1>2, <1>3 DEF Counted, Indexed, Counting
<1>7. Current(db) \subseteq task[p].seen
  BY <1>4 DEF TaskOk, Watched, Searching
<1>8. Collected(p)'
  BY <1>2, <1>3, <1>4, <1>7 DEF Collected, InPool, TaskOk, Answering, Admitted
<1>9. TaskOk(p)'  BY <1>5, <1>6, <1>8 DEF TaskOk
<1>10. t.at # "state" /\ task[p].at # "state"  BY <1>3, <1>4
<1> HIDE DEF t
<1> QED  BY <1>1, <1>9, <1>10, ReadStep

LEMMA GovernKeeps ==
    ASSUME Inv, NEW p \in Process, Govern(p)
    PROVE  Entries' /\ \A q \in Process : TaskOk(q)'
<1> DEFINE t == [task[p] EXCEPT !.at = "record", !.items = @ \ db.archived]
<1>1. task' = [task EXCEPT ![p] = t] /\ UNCHANGED <<db, index>>  BY DEF Govern, index, Inv, TypeOK
<1>2. task'[p] = t /\ task[p] \in Task  BY <1>1 DEF Inv, TypeOK
<1>3. /\ t.at = "record" /\ t.limit = task[p].limit /\ t.cut = task[p].cut
      /\ t.items = task[p].items \ db.archived
      /\ t.mode = task[p].mode /\ t.alone = task[p].alone /\ t.trusted = task[p].trusted
      /\ t.expected = task[p].expected /\ t.text = task[p].text
      /\ t.seen = task[p].seen /\ t.kept = task[p].kept
  BY <1>2 DEF Task
<1>4. task[p].at = "govern" /\ TaskOk(p)  BY DEF Govern, Inv
<1>5. Watched(p)'
  BY <1>1, <1>2, <1>3, <1>4 DEF Watched, TaskOk, Searching, Current
<1>6. Counted(p)' /\ Indexed(p)'
  BY <1>2, <1>3 DEF Counted, Indexed, Counting
<1>7. task[p].kept \subseteq db.active \ db.archived
  BY <1>4 DEF TaskOk, Watched, Searching, Current
<1>8. Collected(p)'
  BY <1>2, <1>3, <1>4, <1>7 DEF Collected, InPool, TaskOk, Answering
<1>9. TaskOk(p)'  BY <1>5, <1>6, <1>8 DEF TaskOk
<1>10. t.at # "state" /\ task[p].at # "state"  BY <1>3, <1>4
<1> HIDE DEF t
<1> QED  BY <1>1, <1>9, <1>10, ReadStep

LEMMA ScanKeeps ==
    ASSUME Inv, NEW p \in Process, Scan(p)
    PROVE  Entries' /\ \A q \in Process : TaskOk(q)'
<1>1. PICK found \in Nearest(Limit(VectorPool[task[p].limit], task[p].expected), Content(p)) :
         task' = [task EXCEPT ![p] =
            [task[p] EXCEPT !.at = "rows", !.mode = "ann", !.semantic = found,
                            !.trusted = (conn[p] = "open" /\ ~parted)]]
  BY ZenonT(60) DEF Scan, Inv, TypeOK
<1> DEFINE t == [task[p] EXCEPT !.at = "rows", !.mode = "ann", !.semantic = found,
                                !.trusted = (conn[p] = "open" /\ ~parted)]
<1>2. task'[p] = t /\ task[p] \in Task /\ UNCHANGED <<db, index>>
  BY <1>1 DEF Inv, TypeOK, Scan, index
<1>3. /\ t.at = "rows" /\ t.semantic = found /\ t.expected = task[p].expected
      /\ t.limit = task[p].limit
      /\ t.alone = task[p].alone /\ t.trusted = (conn[p] = "open" /\ ~parted)
      /\ t.seen = task[p].seen /\ t.kept = task[p].kept
  BY <1>2 DEF Task
<1>4. task[p].at = "scan" /\ TaskOk(p)  BY DEF Scan, Inv
<1>5. Watched(p)'
  BY <1>2, <1>3, <1>4 DEF Watched, TaskOk, Searching, Current
<1>6. Counted(p)' /\ Indexed(p)'
  BY <1>2, <1>3 DEF Counted, Indexed, Counting
<1>7. ASSUME t.alone, t.trusted, InPool(t) PROVE t.expected \subseteq t.semantic
  <2>1. conn[p] = "open" /\ ~parted /\ task[p].alone  BY <1>3, <1>7
  <2>2. Content(p) = task[p].expected  BY <1>4, <2>1 DEF TaskOk, Indexed, Content
  <2> DEFINE pool == VectorPool[task[p].limit]
  <2>a. Cardinality(task[p].expected) <= pool  BY <1>3, <1>7 DEF InPool
  <2> HIDE DEF pool
  <2>3. Cardinality(task[p].expected) <= Limit(pool, task[p].expected)
    <3>1. CASE task[p].expected = {}  BY <2>a, <3>1, FS_EmptySet DEF Limit
    <3>2. CASE task[p].expected # {}
      <4>1. IsFiniteSet(task[p].expected)  BY <1>2, MemoryAssumption, FS_Subset DEF Task
      <4>2. Cardinality(task[p].expected) \in Nat  BY <4>1, FS_CardinalityType
      <4> QED  BY <2>a, <3>2, <4>2 DEF Limit
    <3> QED  BY <3>1, <3>2
  <2>4. found = task[p].expected  BY <1>1, <2>2, <2>3 DEF Nearest, pool
  <2> QED  BY <1>3, <2>4
<1>8. Collected(p)'
  BY <1>2, <1>3, <1>7 DEF Collected, Answering
<1>9. TaskOk(p)'  BY <1>5, <1>6, <1>8 DEF TaskOk
<1>10. t.at # "state" /\ task[p].at # "state"  BY <1>3, <1>4
<1>11. task' = [task EXCEPT ![p] = t]  BY <1>1
<1> HIDE DEF t
<1> QED  BY <1>2, <1>9, <1>10, <1>11, ReadStep

\* The index is given up, the vectors are read instead.
LEMMA BreakKeeps ==
    ASSUME Inv, NEW p \in Process, Break(p)
    PROVE  Entries' /\ \A q \in Process : TaskOk(q)'
<1> DEFINE t == [task[p] EXCEPT !.at = "exact"]
<1>1. task' = [task EXCEPT ![p] = t]  BY DEF Break, Inv, TypeOK
<1>2. /\ task'[p] = t /\ task[p] \in Task
      /\ \A q \in Process \ {p} : task'[q] = task[q] /\ conn'[q] = conn[q]
  BY <1>1 DEF Inv, TypeOK, Break
<1>3. t.at = "exact" /\ t.seen = task[p].seen /\ t.kept = task[p].kept
  BY <1>2 DEF Task
<1>4. task[p].at \in Counting \cup {"expect"} /\ TaskOk(p) /\ db' = db
  BY DEF Break, Inv, Counting
<1>5. Watched(p)'
  BY <1>2, <1>3, <1>4 DEF Watched, TaskOk, Searching, Counting, Current
<1>6. Counted(p)' /\ Indexed(p)' /\ Collected(p)'
  BY <1>2, <1>3 DEF Counted, Indexed, Collected, Counting, Answering
<1>7. TaskOk(p)'  BY <1>5, <1>6 DEF TaskOk
<1>8. ~Ahead(p) /\ ~Ahead(p)'  BY <1>2, <1>3, <1>4 DEF Ahead, Counting
<1>9. file' = file /\ present' = present /\ parted' = parted  BY DEF Break
<1> HIDE DEF t
<1> QED  BY <1>2, <1>4, <1>7, <1>8, <1>9, QuietStep

LEMMA EmbedFailsKeeps ==
    ASSUME Inv, NEW p \in Process, EmbedFails(p)
    PROVE  Entries' /\ \A q \in Process : TaskOk(q)'
<1> DEFINE t == IF task[p].at = "embed" THEN Idle ELSE [task[p] EXCEPT !.at = "rows"]
<1>1. task' = [task EXCEPT ![p] = t] /\ UNCHANGED <<db, index>>
  BY DEF EmbedFails, index, Inv, TypeOK
<1>2. task'[p] = t /\ task[p] \in Task /\ TaskOk(p)  BY <1>1 DEF Inv, TypeOK
<1>3. CASE task[p].at = "embed"
  <2>1. t.at = "idle"  BY <1>3 DEF Idle
  <2>2. TaskOk(p)'  BY <1>2, <2>1, IdleOk DEF Searching
  <2>3. t.at # "state" /\ task[p].at # "state"  BY <1>3, <2>1
  <2> HIDE DEF t
  <2> QED  BY <1>1, <2>2, <2>3, ReadStep
<1>4. CASE task[p].at = "expect"
  <2>1. /\ t.at = "rows" /\ t.mode = task[p].mode
        /\ t.seen = task[p].seen /\ t.kept = task[p].kept
    BY <1>2, <1>4 DEF Task
  <2>2. task[p].mode = "fts"  BY <1>2, <1>4 DEF TaskOk, Collected
  <2>3. Watched(p)'
    BY <1>1, <1>2, <1>4, <2>1 DEF Watched, TaskOk, Searching, Current
  <2>4. Counted(p)' /\ Indexed(p)' /\ Collected(p)'
    BY <1>2, <2>1, <2>2 DEF Counted, Indexed, Collected, Counting, Answering
  <2>5. TaskOk(p)'  BY <2>3, <2>4 DEF TaskOk
  <2>6. t.at # "state" /\ task[p].at # "state"  BY <1>4, <2>1
  <2> HIDE DEF t
  <2> QED  BY <1>1, <2>5, <2>6, ReadStep
<1> QED  BY <1>3, <1>4 DEF EmbedFails

LEMMA RecordKeeps ==
    ASSUME Inv, NEW p \in Process, Record(p)
    PROVE  Entries' /\ \A q \in Process : TaskOk(q)'
<1>1. task' = [task EXCEPT ![p] = Idle] /\ UNCHANGED <<db, index>>
  BY DEF Record, index
<1>2. task'[p] = Idle  BY <1>1 DEF Inv, TypeOK
<1>3. TaskOk(p)'  BY <1>2, IdleOk DEF Searching, Idle
<1>4. Idle.at # "state" /\ task[p].at # "state"  BY DEF Idle, Record
<1> QED  BY <1>1, <1>3, <1>4, ReadStep

\* The rebuild.
LEMMA ClearKeeps ==
    ASSUME Inv, NEW p \in Process, Clear(p)
    PROVE  Entries' /\ \A q \in Process : TaskOk(q)'
<1> DEFINE t == [task[p] EXCEPT !.at = "load"]
<1>1. task' = Disturbing(p, [task EXCEPT ![p] = t])  BY DEF Clear, Inv, TypeOK
<1>2. task'[p] = t /\ task[p] \in Task /\ TaskOk(p) /\ db' = db /\ conn' = conn
  BY <1>1 DEF Inv, TypeOK, Disturbing, Clear
<1>3. /\ t.at = "load" /\ t.expected = task[p].expected /\ t.alone = task[p].alone
      /\ t.seen = task[p].seen /\ t.kept = task[p].kept
  BY <1>2 DEF Task
<1>4. task[p].at = "clear" /\ file' = {}  BY DEF Clear
<1>5. \A q \in Process \ {p} : Ahead(q)' => Ahead(q)
  <2> SUFFICES ASSUME NEW q \in Process \ {p} PROVE task'[q].at = task[q].at
    BY <1>2 DEF Ahead
  <2>1. task[q] \in Task  BY DEF Inv, TypeOK
  <2> QED  BY <1>1, <2>1 DEF Disturbing, Inv, TypeOK, Task
<1>6. Watched(p)'
  BY <1>2, <1>3, <1>4 DEF Watched, TaskOk, Searching, Current
<1>7. Counted(p)'
  BY <1>2, <1>3, <1>4, <1>5 DEF Counted, TaskOk, Counting
<1>8. Indexed(p)' /\ Collected(p)'
  BY <1>2, <1>3, <1>4 DEF Indexed, Collected, Answering
<1>9. TaskOk(p)'  BY <1>6, <1>7, <1>8 DEF TaskOk
<1>10. Entries'  BY <1>4 DEF Entries
<1> HIDE DEF t
<1> QED  BY <1>1, <1>2, <1>9, <1>10, LoudStep

LEMMA FillKeeps ==
    ASSUME Inv, NEW p \in Process, Fill(p)
    PROVE  Entries' /\ \A q \in Process : TaskOk(q)'
<1> DEFINE t == [task[p] EXCEPT !.at = "scan", !.loaded = {}]
<1>1. task' = Disturbing(p, [task EXCEPT ![p] = t])  BY DEF Fill, Inv, TypeOK
<1>2. /\ task'[p] = t /\ task[p] \in Task /\ TaskOk(p)
      /\ db' = db /\ conn' = conn /\ present' = present
  BY <1>1 DEF Inv, TypeOK, Disturbing, Fill
<1>3. /\ t.at = "scan" /\ t.expected = task[p].expected /\ t.alone = task[p].alone
      /\ t.seen = task[p].seen /\ t.kept = task[p].kept
  BY <1>2 DEF Task
<1>4. /\ task[p].at = "fill" /\ conn[p] = "open" /\ file' = file \cup task[p].loaded
      /\ parted' = parted
  BY DEF Fill
<1>5. ASSUME NEW q \in Process \ {p}
      PROVE  (Ahead(q)' <=> Ahead(q)) /\ task'[q].memory = task[q].memory
  <2>1. task[q] \in Task  BY DEF Inv, TypeOK
  <2>2. task'[q].at = task[q].at /\ task'[q].memory = task[q].memory
    BY <1>1, <2>1 DEF Disturbing, Inv, TypeOK, Task
  <2> QED  BY <1>2, <2>2 DEF Ahead
<1>6. Watched(p)'
  BY <1>2, <1>3, <1>4 DEF Watched, TaskOk, Searching, Current
<1>7. Counted(p)'
  BY <1>2, <1>3, <1>4, <1>5 DEF Counted, TaskOk, Counting
<1>8. Indexed(p)'
  <2> SUFFICES ASSUME t.alone PROVE file' = t.expected
    BY <1>2, <1>3 DEF Indexed
  <2>1. task[p].alone  BY <1>3
  <2>2. file = {} /\ task[p].loaded = db.vectors /\ task[p].expected = db.vectors
    BY <1>2, <1>4, <2>1 DEF TaskOk, Indexed, Counted, Counting
  <2> QED  BY <1>3, <1>4, <2>2
<1>9. Collected(p)'  BY <1>2, <1>3 DEF Collected, Answering
<1>10. TaskOk(p)'  BY <1>6, <1>7, <1>8, <1>9 DEF TaskOk
<1>11. present  BY <1>4 DEF Inv, TypeOK
<1>12. ASSUME ~parted, NEW m \in file'
       PROVE  m \in db'.vectors \/ \E q \in Process : Ahead(q)' /\ task'[q].memory = m
  <2>1. CASE m \in task[p].loaded
    BY <1>2, <1>4, <2>1 DEF TaskOk, Counted
  <2>2. CASE m \in file
    <3>1. m \in db.vectors \/ \E q \in Process : Ahead(q) /\ task[q].memory = m
      BY <1>12, <2>2 DEF Inv, Entries
    <3>2. ~Ahead(p)  BY <1>4 DEF Ahead
    <3> QED  BY <1>2, <1>5, <3>1, <3>2
  <2> QED  BY <1>4, <1>12, <2>1, <2>2
<1>13. Entries'  BY <1>2, <1>4, <1>11, <1>12 DEF Entries
<1> HIDE DEF t
<1> QED  BY <1>1, <1>2, <1>10, <1>13, LoudStep

-----------------------------------------------------------------------------
\* The other calls.

LEMMA EmbedKeeps ==
    ASSUME Inv, NEW p \in Process, Embed(p)
    PROVE  Entries' /\ \A q \in Process : TaskOk(q)'
<1> DEFINE t == [task[p] EXCEPT !.at = "upsert"]
<1>1. task' = [task EXCEPT ![p] = t] /\ UNCHANGED <<db, index>>
  BY DEF Embed, Goes, index
<1>2. task'[p] = t /\ t.at = "upsert"  BY <1>1 DEF Inv, TypeOK, Task
<1>3. TaskOk(p)'  BY <1>2, IdleOk DEF Searching
<1>4. t.at # "state" /\ task[p].at # "state"  BY <1>2 DEF Embed
<1> HIDE DEF t
<1> QED  BY <1>1, <1>3, <1>4, ReadStep

LEMMA UpsertKeeps ==
    ASSUME Inv, NEW p \in Process, Upsert(p)
    PROVE  Entries' /\ \A q \in Process : TaskOk(q)'
<1> DEFINE t == [task[p] EXCEPT !.at = "state"]
<1>1. task' = Disturbing(p, [task EXCEPT ![p] = t])  BY DEF Upsert, Inv, TypeOK
<1>2. task'[p] = t /\ task[p] \in Task  BY <1>1 DEF Inv, TypeOK, Disturbing
<1>3. t.at = "state" /\ t.memory = task[p].memory  BY <1>2 DEF Task
<1>4. /\ task[p].at = "upsert" /\ file' = file \cup {task[p].memory} /\ present' = TRUE
      /\ parted' = parted /\ db' = db /\ conn'[p] = "open"
      /\ \A q \in Process \ {p} : conn'[q] = conn[q]
  BY DEF Upsert, Inv, TypeOK
<1>5. TaskOk(p)'  BY <1>2, <1>3, IdleOk DEF Searching
<1> HIDE DEF t
<1>6. /\ \A q \in Process : TaskOk(q)'
      /\ \A q \in Process \ {p} : task'[q].at = task[q].at
                                /\ task'[q].memory = task[q].memory
  BY <1>1, <1>4, <1>5, LoudStep
<1>7. ASSUME ~parted, NEW m \in file'
      PROVE  m \in db'.vectors \/ \E q \in Process : Ahead(q)' /\ task'[q].memory = m
  <2>1. CASE m = task[p].memory
    <3>1. Ahead(p)' /\ task'[p].memory = m  BY <1>2, <1>3, <1>4, <2>1 DEF Ahead
    <3> QED  BY <3>1
  <2>2. CASE m \in file
    <3>1. m \in db.vectors \/ \E q \in Process : Ahead(q) /\ task[q].memory = m
      BY <1>7, <2>2 DEF Inv, Entries
    <3>2. ~Ahead(p)  BY <1>4 DEF Ahead
    <3>3. \A q \in Process \ {p} : Ahead(q) => Ahead(q)'  BY <1>4, <1>6 DEF Ahead
    <3> QED  BY <1>4, <1>6, <3>1, <3>2, <3>3
  <2> QED  BY <1>4, <1>7, <2>1, <2>2
<1>8. Entries'  BY <1>4, <1>7 DEF Entries
<1> QED  BY <1>6, <1>8

LEMMA UpsertFailsKeeps ==
    ASSUME Inv, NEW p \in Process, UpsertFails(p)
    PROVE  Entries' /\ \A q \in Process : TaskOk(q)'
<1>1. /\ \A q \in Process \ {p} : task'[q] = task[q] /\ conn'[q] = conn[q]
      /\ conn'[p] = "closed" /\ task'[p].at = "state" /\ task[p].at = "upsert"
      /\ db' = db /\ file' = file /\ present' = present /\ parted' = parted
  BY DEF UpsertFails, Goes, Inv, TypeOK, Task
<1>2. TaskOk(p)'  BY <1>1, IdleOk DEF Searching
<1>3. ~Ahead(p) /\ ~Ahead(p)'  BY <1>1 DEF Ahead
<1> QED  BY <1>1, <1>2, <1>3, QuietStep

LEMMA CommitVectorKeeps ==
    ASSUME Inv, NEW p \in Process, CommitVector(p)
    PROVE  Entries' /\ \A q \in Process : TaskOk(q)'
<1>1. task' = Disturbing(p, [task EXCEPT ![p] = Idle])  BY DEF CommitVector
<1>2. task'[p] = Idle  BY <1>1 DEF Inv, TypeOK, Disturbing
<1>3. /\ Current(db') = Current(db) /\ db'.vectors = db.vectors \cup {task[p].memory}
      /\ UNCHANGED index
  BY DEF CommitVector, Current, Inv, TypeOK, Database
<1>4. TaskOk(p)'  BY <1>2, IdleOk DEF Searching, Idle
<1>5. /\ \A q \in Process : TaskOk(q)'
      /\ \A q \in Process \ {p} : task'[q].at = task[q].at
                                /\ task'[q].memory = task[q].memory
  BY <1>1, <1>3, <1>4, LoudStep
<1>6. ASSUME ~parted, NEW m \in file
      PROVE  m \in db'.vectors \/ \E q \in Process : Ahead(q)' /\ task'[q].memory = m
  <2>1. m \in db.vectors \/ \E q \in Process : Ahead(q) /\ task[q].memory = m
    BY <1>6 DEF Inv, Entries
  <2>2. \A q \in Process \ {p} : Ahead(q) => Ahead(q)'  BY <1>3, <1>5 DEF Ahead, index
  <2>3. ASSUME NEW q \in Process, Ahead(q), task[q].memory = m
        PROVE  m \in db'.vectors \/ (Ahead(q)' /\ task'[q].memory = m)
    BY <1>3, <1>5, <2>2, <2>3
  <2> QED  BY <1>3, <2>1, <2>3
<1>7. Entries'
  <2>1. file' = file /\ parted' = parted /\ present' = present  BY <1>3 DEF index
  <2>2. ~present => file = {}  BY DEF Inv, Entries
  <2> QED  BY <1>6, <2>1, <2>2 DEF Entries
<1> QED  BY <1>5, <1>7

\* Confirm, forget and archive change what is current, and nothing else that
\* a search has read.
LEMMA EntriesLeft ==
    ASSUME Inv, UNCHANGED index, db'.vectors = db.vectors,
           \A q \in Process : Ahead(q) => Ahead(q)' /\ task'[q].memory = task[q].memory
    PROVE  Entries'
<1>1. file' = file /\ parted' = parted /\ present' = present  BY DEF index
<1>2. ~present => file = {}  BY DEF Inv, Entries
<1>3. ASSUME ~parted, NEW m \in file
      PROVE  m \in db'.vectors \/ \E q \in Process : Ahead(q)' /\ task'[q].memory = m
  BY <1>3 DEF Inv, Entries
<1> QED  BY <1>1, <1>2, <1>3 DEF Entries

LEMMA ChangeKeeps ==
    ASSUME Inv, NEW d \in Database, Change(d), d.vectors = db.vectors
    PROVE  Entries' /\ \A q \in Process : TaskOk(q)'
<1>1. task' = Watching(d) /\ db' = d /\ UNCHANGED index  BY DEF Change, Commit
<1>2. ASSUME NEW q \in Process
      PROVE  task'[q].at = task[q].at /\ task'[q].memory = task[q].memory
  <2>1. task[q] \in Task  BY DEF Inv, TypeOK
  <2> QED  BY <1>1, <2>1 DEF Watching, Task
<1>3. \A q \in Process : Ahead(q)' <=> Ahead(q)  BY <1>1, <1>2 DEF Ahead, index
<1>4. ASSUME NEW q \in Process PROVE TaskOk(q)'
  BY <1>1, <1>3, Watches DEF Inv
<1>5. Entries'  BY <1>1, <1>2, <1>3, EntriesLeft
<1> QED  BY <1>4, <1>5

LEMMA ConfirmKeeps ==
    ASSUME Inv, NEW p \in Process, NEW m \in Memory, Confirm(p, m)
    PROVE  Entries' /\ \A q \in Process : TaskOk(q)'
<1>1. db' \in Database /\ db'.vectors = db.vectors /\ UNCHANGED index
  BY DEF Confirm, Commit, Inv, TypeOK, Database
<1>2. task' = [Watching(db') EXCEPT ![p].at = "embed", ![p].memory = m]
  BY DEF Confirm, Commit
<1>3. Watching(db') \in [Process -> Task]  BY <1>1, WatchingTypes DEF Inv
<1>4. task'[p].at = "embed" /\ \A q \in Process \ {p} : task'[q] = Watching(db')[q]
  <2>1. task'[p].at = "embed"  BY <1>2, <1>3 DEF Task
  <2> QED  BY <1>2, <1>3, <2>1
<1>5. task[p].at = "idle"  BY DEF Confirm
<1>6. ASSUME NEW q \in Process \ {p}
      PROVE  task'[q].at = task[q].at /\ task'[q].memory = task[q].memory
  <2>1. task[q] \in Task  BY DEF Inv, TypeOK
  <2> QED  BY <1>4, <2>1 DEF Watching, Task
<1>7. \A q \in Process : Ahead(q)' <=> Ahead(q)
  BY <1>1, <1>4, <1>5, <1>6 DEF Ahead, index
<1>8. TaskOk(p)'  BY <1>4, IdleOk DEF Searching
<1>9. ASSUME NEW q \in Process \ {p} PROVE TaskOk(q)'
  BY <1>1, <1>4, <1>7, Watches DEF Inv
<1>10. ~Ahead(p)  BY <1>5 DEF Ahead
<1>11. Entries'  BY <1>1, <1>6, <1>7, <1>10, EntriesLeft
<1> QED  BY <1>8, <1>9, <1>11

LEMMA CrashKeeps ==
    ASSUME Inv, NEW p \in Process, NEW restarts \in BOOLEAN, Crash(p, restarts)
    PROVE  Entries' /\ \A q \in Process : TaskOk(q)'
<1>1. /\ \A q \in Process \ {p} : task'[q] = task[q] /\ conn'[q] = conn[q]
      /\ task'[p] = Idle /\ db' = db /\ file' = file /\ present' = present
  BY DEF Crash, Inv, TypeOK
<1>2. parted' = (parted \/ Ahead(p))  BY DEF Crash, Ahead
<1>3. (parted => parted') /\ (Ahead(p) => parted')  BY <1>2
<1>4. TaskOk(p)' /\ ~Ahead(p)'  BY <1>1, IdleOk DEF Searching, Idle, Ahead
<1> QED  BY <1>1, <1>3, <1>4, QuietStep

LEMMA InvalidateKeeps ==
    ASSUME Inv, Invalidate
    PROVE  Entries' /\ \A q \in Process : TaskOk(q)'
<1>1. task' = task /\ db' = db /\ file' = {}  BY DEF Invalidate
<1>2. \A q \in Process : conn'[q] # "open"  BY DEF Invalidate, Detached, Inv, TypeOK
<1>3. \A q \in Process : ~Ahead(q)'  BY <1>2 DEF Ahead
<1>4. ASSUME NEW q \in Process PROVE TaskOk(q)'
  <2>1. Bystander(q)  BY <1>1 DEF Bystander
  <2> QED  BY <1>1, <1>2, <1>3, <2>1, Bystands DEF Inv
<1>5. Entries'  BY <1>1 DEF Entries
<1> QED  BY <1>4, <1>5

LEMMA ReplaceKeeps ==
    ASSUME Inv, Replace
    PROVE  Entries' /\ \A q \in Process : TaskOk(q)'
<1>1. \A q \in Process : task'[q].at \notin Searching  BY DEF Replace, Searching
<1>2. \A q \in Process : TaskOk(q)'  BY <1>1, IdleOk
<1>3. parted' = present /\ present' = present /\ file' = file  BY DEF Replace
<1>4. ~present => file = {}  BY DEF Inv, Entries
<1>5. Entries'  BY <1>3, <1>4 DEF Entries
<1> QED  BY <1>2, <1>5

LEMMA StutterKeeps ==
    ASSUME Inv, UNCHANGED vars
    PROVE  Entries' /\ \A q \in Process : TaskOk(q)'
<1>1. task' = task /\ db' = db /\ UNCHANGED index  BY DEF vars, index
<1>2. \A q \in Process : (Ahead(q)' <=> Ahead(q)) /\ Bystander(q)
  BY <1>1 DEF Ahead, Bystander, index
<1>3. ASSUME NEW q \in Process PROVE TaskOk(q)'
  BY <1>1, <1>2, Bystands DEF Inv, index
<1>4. Entries'  BY <1>1, <1>2, EntriesLeft
<1> QED  BY <1>3, <1>4

-----------------------------------------------------------------------------
\* The theorems.

LEMMA InitInv == Init => Inv
<1> SUFFICES ASSUME Init PROVE Inv  OBVIOUS
<1>1. TypeOK  BY InitTypes
<1>2. \A p \in Process : task[p].at = "idle"  BY DEF Init, Idle
<1>3. Named /\ Entries  BY <1>2 DEF Named, Entries, Indexing, Init
<1>4. \A p \in Process : TaskOk(p)
  BY <1>2 DEF TaskOk, Watched, Counted, Indexed, Collected, Searching, Counting, Answering
<1> QED  BY <1>1, <1>3, <1>4 DEF Inv

LEMMA NextInv == Inv /\ [Next]_vars => Inv'
<1> SUFFICES ASSUME Inv, [Next]_vars PROVE Inv'  OBVIOUS
<1>1. TypeOK' /\ Named'  BY NextTypes, NextNamed DEF Inv
<1>2. ASSUME NEW m \in Memory, Forget(m) \/ Archive(m)
      PROVE  Entries' /\ \A q \in Process : TaskOk(q)'
  <2>1. PICK d \in Database : Change(d) /\ d.vectors = db.vectors
    <3>1. /\ [db EXCEPT !.active = @ \ {m}] \in Database
          /\ [db EXCEPT !.active = @ \ {m}].vectors = db.vectors
          /\ [db EXCEPT !.archived = @ \cup {m}] \in Database
          /\ [db EXCEPT !.archived = @ \cup {m}].vectors = db.vectors
      BY DEF Inv, TypeOK, Database
    <3> QED  BY <1>2, <3>1 DEF Forget, Archive
  <2> QED  BY <2>1, ChangeKeeps
<1>3. Entries' /\ \A q \in Process : TaskOk(q)'
  BY <1>2, ConfirmKeeps, EmbedKeeps, UpsertKeeps, UpsertFailsKeeps, CommitVectorKeeps,
     SearchKeeps, EmbedFailsKeeps, ExpectKeeps, CountKeeps, ClearKeeps, LoadKeeps,
     FillKeeps, ScanKeeps, BreakKeeps, ExactKeeps, RowsKeeps, ChannelsKeeps, GovernKeeps,
     RecordKeeps, CrashKeeps, InvalidateKeeps, ReplaceKeeps, StutterKeeps DEF Next
<1> QED  BY <1>1, <1>3 DEF Inv

LEMMA InvAlways == Spec => []Inv
BY InitInv, NextInv, PTL DEF Spec

\* Tasks, connections and the index are well formed.
THEOREM SearchTypes == Spec => []TypeOK
<1>1. Inv => TypeOK  BY DEF Inv
<1> QED  BY <1>1, InvAlways, PTL

\* retrieval/search.py judges every candidate again when it loads its row:
\* nothing is answered that was not active and unarchived during the search.
THEOREM AnswerAlwaysCurrent == Spec => []AnswerWasCurrent
<1>1. Inv => AnswerWasCurrent
  BY DEF Inv, TaskOk, Collected, Answering, AnswerWasCurrent
<1> QED  BY <1>1, InvAlways, PTL

\* The comparison of two counts (retrieval/search.py) is enough for a search
\* that is alone at an index in its place and not ahead of the database: its
\* entries are among the vectors, and as many.  Such a search misses a vector
\* only where it asks for fewer than there are, max(1000, limit * 50), or has
\* more candidates than its limit.
THEOREM AnswerAlwaysComplete == Spec => []AnswerIsComplete
<1>1. Inv => AnswerIsComplete
  BY DEF Inv, TaskOk, Collected, InPool, Unlimited, Answering, AnswerIsComplete
<1> QED  BY <1>1, InvAlways, PTL
=============================================================================
