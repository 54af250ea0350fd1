---------------------------- MODULE MemoryHealth ----------------------------
(***************************************************************************)
(* The health rows of MemoryOS (health/service.py): archive, restore and   *)
(* evaluate, and record_retrieval which every search ends with, called by  *)
(* several processes.  A call reads rows, each SELECT seeing the last      *)
(* commit, and writes in one flush at its end: an INSERT for a row it did  *)
(* not find, else an UPDATE of the columns it changed, whatever they are   *)
(* by then.                                                                *)
(*                                                                         *)
(* Scores are left out: an evaluation finds a memory hot, warm or cold.    *)
(* What a memory supports does not change here; MemoryTruth has that.      *)
(***************************************************************************)
EXTENDS Naturals, FiniteSets

CONSTANTS
    Process, Memory, Identity,
    Supports,         \* the identities each memory has an accepted claim of
    Call,             \* the calls that are made
    MaxCalls,
    NULL

Temperature == {"hot", "warm", "cold", "archived"}

ASSUME SupportsAssumption == Supports \in [Memory -> SUBSET Identity]

ASSUME CallAssumption ==
    Call \subseteq [op: {"archive", "restore"}, memories: {{m} : m \in Memory}]
           \cup [op: {"record"}, memories: SUBSET Memory]
           \cup {[op |-> "evaluate", memories |-> Memory]}

ASSUME NullAssumption == NULL \notin Temperature

ASSUME BoundAssumption == MaxCalls \in Nat

VARIABLES
    rows,             \* the last commit: the health row of each memory
    task,             \* the call each process is in
    was,              \* its temperature when it was archived (not stored)
    calls             \* how many calls have begun

vars == <<rows, task, was, calls>>

-----------------------------------------------------------------------------
\* before is pre_archive_temperature in components_json.
Row == [temperature: Temperature \cup {"none"}, before: Temperature \cup {NULL}]

Absent == [temperature |-> "none", before |-> NULL]

Idle == [at |-> "idle", op |-> "none", memories |-> {}, loaded |-> [m \in {} |-> Absent],
         since |-> {}]

Task == [at: {"idle", "check", "load", "write"},
         op: {"archive", "restore", "record", "evaluate", "none"},
         memories: SUBSET Memory,
         loaded: UNION {[S -> Row] : S \in SUBSET Memory},
         since: SUBSET Memory]     \* rows others have committed since it read them

TypeOK ==
    /\ rows \in [Memory -> Row]
    /\ task \in [Process -> Task]
    /\ was \in [Memory -> {"hot", "warm", "cold", NULL}]
    /\ calls \in 0 .. MaxCalls
    /\ \A m \in Memory : rows[m].before # "archived"
    /\ \A p \in Process : DOMAIN task[p].loaded \subseteq task[p].memories

Archived == {m \in Memory : rows[m].temperature = "archived"}

\* The memories an identity can be seen by.
Visible(i, r) == {m \in Memory : i \in Supports[m] /\ r[m].temperature # "archived"}

-----------------------------------------------------------------------------
\* The reads.

Begin(p, call) ==
    /\ task[p].at = "idle"
    /\ calls < MaxCalls
    /\ calls' = calls + 1
    /\ task' = [task EXCEPT ![p] =
          [Idle EXCEPT !.at = IF call.op \in {"archive", "record"} THEN "check" ELSE "load",
                       !.op = call.op, !.memories = call.memories]]
    /\ UNCHANGED <<rows, was>>

\* Mutant: support that is archived itself counts.
SupportedBySome(m) ==
    \A i \in Supports[m] : \E k \in Memory \ {m} : i \in Supports[k]

\* _assert_truth_safe: every identity has support that is not archived elsewhere.
TruthSafe(m) == \A i \in Supports[m] : Visible(i, rows) \ {m} # {}

Check(p) ==
    /\ task[p].at = "check" /\ task[p].op = "archive"
    /\ task' = IF \A m \in task[p].memories : TruthSafe(m)
               THEN [task EXCEPT ![p].at = "load"]
               ELSE [task EXCEPT ![p] = Idle]
    /\ UNCHANGED <<rows, was, calls>>

\* The pipeline has left out what is archived before it records the answer.
Select(p) ==
    /\ task[p].at = "check" /\ task[p].op = "record"
    /\ task' = [task EXCEPT ![p].at = "load", ![p].memories = @ \ Archived]
    /\ UNCHANGED <<rows, was, calls>>

\* record_retrieval has one SELECT for all rows, the others one for each.
Load(p, S) ==
    /\ task[p].at = "load"
    /\ S \subseteq task[p].memories \ DOMAIN task[p].loaded
    /\ task[p].op = "record" => S = task[p].memories
    /\ task[p].op # "record" => Cardinality(S) = 1
    /\ LET loaded == [m \in S \cup DOMAIN task[p].loaded |->
                         IF m \in S THEN rows[m] ELSE task[p].loaded[m]]
       IN  task' = [task EXCEPT
              ![p].loaded = loaded,
              ![p].at = IF DOMAIN loaded = task[p].memories THEN "write" ELSE "load"]
    /\ UNCHANGED <<rows, was, calls>>

-----------------------------------------------------------------------------
\* What a call makes of a row it has loaded.

\* Mutant: the temperature of now is kept whatever it is.
ArchiveAgain(row) ==
    [temperature |-> "archived",
     before |-> IF row.temperature = "none" THEN "warm" ELSE row.temperature]

\* A row that is missing is made warm first.
Archive(row) ==
    [temperature |-> "archived",
     before |-> CASE row.temperature = "none" -> "warm"
                  [] row.temperature = "archived" -> row.before
                  [] OTHER -> row.temperature]

Restore(row) ==
    [row EXCEPT !.temperature = IF row.before = NULL THEN "cold" ELSE row.before]

Heat(row) ==
    IF row.temperature = "archived" THEN row ELSE [row EXCEPT !.temperature = "hot"]

\* Mutant: the score decides, archived or not.
EvaluateAny(row, found) == [temperature |-> found, before |-> NULL]

\* evaluate replaces components_json as a whole.
Evaluate(row, found) ==
    [temperature |-> IF row.temperature = "archived" THEN "archived" ELSE found,
     before |-> NULL]

-----------------------------------------------------------------------------
\* The writes.

\* The columns of the loaded row that were changed go over those of now; the
\* components always do after an evaluation, their scores being new.
Flushed(row, loaded, made, components) ==
    IF loaded.temperature = "none" THEN made
    ELSE [temperature |-> IF made.temperature = loaded.temperature
                          THEN row.temperature ELSE made.temperature,
          before |-> IF made.before = loaded.before /\ ~components
                     THEN row.before ELSE made.before]

\* An INSERT finds the row there by now: the call fails as a whole.
Collides(p) ==
    \E m \in task[p].memories : /\ task[p].loaded[m].temperature = "none"
                                /\ rows[m].temperature # "none"

\* What a call has read of the rows: archive looks at those of the others too.
Read(t) == IF t.op = "archive" /\ t.at # "check" THEN Memory ELSE DOMAIN t.loaded

Commit(p, made, components) ==
    /\ rows' = [m \in Memory |->
          IF m \in task[p].memories
          THEN Flushed(rows[m], task[p].loaded[m], made[m], components)
          ELSE rows[m]]
    /\ task' = [q \in Process |->
          IF q = p THEN Idle
          ELSE [task[q] EXCEPT !.since = @ \cup (task[p].memories \cap Read(task[q]))]]
    /\ UNCHANGED calls

Writes(p, op) == task[p].at = "write" /\ task[p].op = op /\ ~Collides(p)

\* What m is when a call archives it; archiving it again changes nothing.
Before(m) ==
    CASE rows[m].temperature = "archived" -> was[m]
      [] rows[m].temperature = "none" -> "warm"
      [] OTHER -> rows[m].temperature

ArchiveWrite(p) ==
    /\ Writes(p, "archive")
    /\ Commit(p, [m \in task[p].memories |-> Archive(task[p].loaded[m])], FALSE)
    /\ was' = [m \in Memory |->
          IF m \notin task[p].memories THEN was[m]
          ELSE IF m \in task[p].since THEN NULL ELSE Before(m)]

RestoreWrite(p) ==
    /\ Writes(p, "restore")
    /\ \A m \in task[p].memories : task[p].loaded[m].temperature # "none"
    /\ Commit(p, [m \in task[p].memories |-> Restore(task[p].loaded[m])], FALSE)
    /\ was' = [m \in Memory |-> IF m \in task[p].memories THEN NULL ELSE was[m]]

RecordWrite(p) ==
    /\ Writes(p, "record")
    /\ Commit(p, [m \in task[p].memories |-> Heat(task[p].loaded[m])], FALSE)
    /\ UNCHANGED was

EvaluateWrite(p, found) ==
    /\ Writes(p, "evaluate")
    /\ Commit(p, [m \in task[p].memories |-> Evaluate(task[p].loaded[m], found[m])], TRUE)
    /\ was' = [m \in Memory |-> NULL]

\* IntegrityError, or NotFoundError of a restore without a row.
Fails(p) ==
    /\ task[p].at = "write"
    /\ \/ Collides(p)
       \/ /\ task[p].op = "restore"
          /\ \E m \in task[p].memories : task[p].loaded[m].temperature = "none"
    /\ task' = [task EXCEPT ![p] = Idle]
    /\ UNCHANGED <<rows, was, calls>>

-----------------------------------------------------------------------------

Init ==
    /\ rows = [m \in Memory |-> Absent]
    /\ task = [p \in Process |-> Idle]
    /\ was = [m \in Memory |-> NULL]
    /\ calls = 0

Next ==
    \E p \in Process :
        \/ \E call \in Call : Begin(p, call)
        \/ Check(p) \/ Select(p)
        \/ \E S \in SUBSET Memory : Load(p, S)
        \/ ArchiveWrite(p) \/ RestoreWrite(p) \/ RecordWrite(p)
        \/ \E found \in [Memory -> {"hot", "warm", "cold"}] : EvaluateWrite(p, found)
        \/ Fails(p)

Spec == Init /\ [][Next]_vars

-----------------------------------------------------------------------------

\* What is archived comes back by restore only - unless a search or an
\* evaluation had loaded the row before the archive committed: it was warm
\* then, and the UPDATE makes the archived memory hot again.
ArchiveEndsByRestore ==
    [][\A m \in Archived :
          rows'[m].temperature # "archived" =>
             \E p \in Process : /\ task[p].at = "write" /\ m \in task[p].memories
                                /\ task[p].op = "restore" \/ m \in task[p].since]_vars

\* An archive leaves every identity of its memory visible through another,
\* unless a call has written the row of that other memory since the check: two
\* archives may each rely on the memory the other one puts away.
LastSupportStays ==
    [][\A p \in Process, m \in Memory :
          ArchiveWrite(p) /\ m \in task[p].memories =>
             \A i \in Supports[m] :
                \/ Visible(i, rows') # {}
                \/ \E k \in task[p].since \ {m} : i \in Supports[k]]_vars

\* Restore gives a memory the temperature it was archived with, provided that
\* nobody wrote the row during either call and no evaluation came in between,
\* which forgets that temperature.
RestoreIsInverse ==
    [][\A p \in Process, m \in Archived :
          (/\ RestoreWrite(p) /\ m \in task[p].memories \ task[p].since
           /\ was[m] # NULL) => rows'[m].temperature = was[m]]_vars
=============================================================================
