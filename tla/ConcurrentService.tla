------------------------- MODULE ConcurrentService -------------------------
(***************************************************************************)
(* The calls of MemoryService when several processes share the database    *)
(* file, at the grain of db/session.py: a session reads in autocommit mode, *)
(* each SELECT seeing the last commit, until its first flush; from there   *)
(* to the commit or the rollback it holds SQLite's write lock and sees its *)
(* own writes.  The memory row a call has loaded is not read again, and an *)
(* UPDATE writes what the call changed whatever the row says by then.      *)
(*                                                                         *)
(* MemoryTruth has the calls themselves; here a text says one thing and    *)
(* keys, time and validity are left out; a refresh is one that finds the   *)
(* evidence stale, as no other changes a status.  Calls that their first   *)
(* SELECT refuses do nothing and are left out too.                         *)
(***************************************************************************)
EXTENDS Naturals, Sequences, FiniteSets, SequencesExt

CONSTANTS
    Process,          \* MCP server, HTTP threads and CLI
    Memory,
    Rival,            \* pairs of memories whose claims contradict by rule
    Unsure,           \* pairs of memories whose claims a judge is asked about
    Call,             \* the calls that are made
    MaxCalls, MaxEditions,
    NULL

MemoryStatus == {"candidate", "active", "superseded", "rejected", "forgotten"}
ClaimStatus  == {"candidate", "accepted", "contested", "superseded", "stale",
                 "historical", "rejected"}

ASSUME PairsAssumption ==
    \A pair \in Rival \cup Unsure : pair \subseteq Memory /\ Cardinality(pair) = 2

ASSUME CallAssumption ==
    Call \subseteq [op: {"confirm"}, memory: Memory,
                    strategy: {NULL, "supersede", "keep_both", "reject"}]
           \cup [op: {"forget", "reject", "stale"}, memory: Memory]

ASSUME NullAssumption == NULL \notin Process /\ NULL \notin MemoryStatus

ASSUME BoundsAssumption == MaxCalls \in Nat /\ MaxEditions \in Nat \ {0}

VARIABLES
    db,               \* the last commit
    draft,            \* what the holder of the write lock sees, else NULL
    lock,             \* the holder of the write lock, or NULL
    session,          \* what each process remembers of its call
    calls,            \* how many calls have begun
    blind             \* the pairs of memories confirmed on an old look: a call
                      \* committed a change of one of the two between the
                      \* look for conflicts and the commit (not stored)

tables == <<db, draft, lock>>
vars   == <<tables, session, calls, blind>>

-----------------------------------------------------------------------------
\* The database: a claim is a memory and a number of its extraction.

Claim == Memory \X (1 .. MaxEditions)
MemoryOf(c) == c[1]

Row(status, stale) == [status |-> status, stale |-> stale]

Absent == [row |-> Row("absent", "unknown"), versions |-> << >>]

\* A claim with its first version, as ensure_claims extracts it.
FirstVersion(status) ==
    [row |-> Row(status, "unknown"),
     versions |-> << [number |-> 1, row |-> Row(status, "unknown"), open |-> TRUE] >>]

\* What the tables may hold.
Pairs == {pair \in {{c, e} : c, e \in Claim} : {MemoryOf(c) : c \in pair} \in Unsure}

Verdict == {"confirmed", "dismissed"}       \* abstained acts as dismissed

Fields == [status: ClaimStatus, stale: {"unknown", "stale"}]

Version == [number: Nat, row: Fields, open: BOOLEAN]

Database ==
    [memories: [Memory -> MemoryStatus],
     claims: [Claim -> {Absent} \cup [row: Fields, versions: Seq(Version) \ {<< >>}]],
     possible: UNION {[asked -> Verdict] : asked \in SUBSET Pairs},
     relations: SUBSET (Memory \X Memory \X {NULL, "supersede", "keep_both"})]

\* The claims a database has of a memory, and those ensure_claims keeps.
ClaimsOf(d, m) == {c \in Claim : MemoryOf(c) = m /\ d.claims[c] # Absent}

LiveClaims(d, m) ==
    {c \in ClaimsOf(d, m) : d.claims[c].row.status \notin {"historical", "rejected"}}

\* The claim the next extraction of a memory makes, if the bound allows it.
NextClaim(d, m) ==
    LET free == {c \in Claim : MemoryOf(c) = m /\ d.claims[c] = Absent}
    IN  {c \in free : \A e \in free : c[2] <= e[2]}

\* The claims of other memories a SELECT on status finds.
InForce(d, memories) ==
    {c \in Claim : /\ MemoryOf(c) \in memories
                   /\ d.claims[c].row.status \in {"accepted", "contested"}}

Active(d, m) == {k \in Memory \ {m} : d.memories[k] = "active"}

\* _claims_conflict
Conflicting(d, c, e) ==
    \/ {MemoryOf(c), MemoryOf(e)} \in Rival
    \/ {c, e} \in DOMAIN d.possible /\ d.possible[{c, e}] = "confirmed"

-----------------------------------------------------------------------------
\* Sessions.

\* beside is not stored: the memories that others have changed since the call
\* looked at their claims.
Idle == [at |-> "idle", call |-> NULL, own |-> {}, beside |-> {}, todo |-> {},
         conflicts |-> {}, note |-> NULL, cached |-> << >>, moves |-> << >>,
         current |-> 0, number |-> 0]

At(p, step) == session[p].at = step
M(p) == session[p].call.memory

Continue(p, s) == session' = [session EXCEPT ![p] = s]

\* What a SELECT of the process sees.
Seen(p) == IF lock = p THEN draft ELSE db

MayWrite(p) == lock \in {NULL, p}

\* session.flush: the first one takes the lock, on the last commit.
Flush(p, d) == MayWrite(p) /\ lock' = p /\ draft' = d /\ UNCHANGED db

\* Mutant: the connection is not given back.
CommitUnfinished(p, d) == MayWrite(p) /\ db' = d /\ UNCHANGED <<lock, draft>>

\* The flushes of the rest of a call and its session.commit.
Commit(p, d) == MayWrite(p) /\ db' = d /\ lock' = NULL /\ draft' = NULL

\* Mutant: the session is dropped without a rollback.
Leave(p) ==
    /\ Continue(p, Idle)
    /\ UNCHANGED <<tables, calls, blind>>

\* session.rollback, then the exception leaves the call.
Rollback(p) ==
    /\ lock' = IF lock = p THEN NULL ELSE lock
    /\ draft' = IF lock = p THEN NULL ELSE draft
    /\ Continue(p, Idle)
    /\ UNCHANGED <<db, calls, blind>>

\* What a call makes of its memory.
Outcome(call) ==
    CASE call.op = "forget" -> "forgotten"
      [] call.op = "reject" -> "rejected"
      [] call.op = "confirm" -> IF call.strategy = "reject" THEN "rejected" ELSE "active"
      [] OTHER -> NULL

\* The status the first SELECT of a call asks for.
Admits(call) ==
    CASE call.op \in {"confirm", "reject"} -> {"candidate"}
      [] call.op = "forget" -> MemoryStatus \ {"forgotten", "rejected"}
      [] OTHER -> MemoryStatus

Begin(p, call) ==
    /\ At(p, "idle") /\ calls < MaxCalls
    /\ db.memories[call.memory] \in Admits(call)
    /\ calls' = calls + 1
    /\ Continue(p, [Idle EXCEPT !.at = IF call.op = "confirm" THEN "gather" ELSE "rows",
                               !.call = call])
    /\ UNCHANGED <<tables, blind>>

-----------------------------------------------------------------------------
\* confirm: find conflicts.

\* ensure_claims: the live claims with their rows, or a new one, flushed.
Ensure(p, status, Then(_)) ==
    LET seen == Seen(p)
        live == LiveClaims(seen, M(p))
    IN  /\ UNCHANGED <<calls, blind>>
        /\ \/ /\ live # {}
              /\ Continue(p, Then([c \in live |-> seen.claims[c].row]))
              /\ UNCHANGED tables
           \/ /\ live = {}
              /\ \E new \in NextClaim(seen, M(p)) :
                    /\ Flush(p, [seen EXCEPT !.claims[new] = FirstVersion(status)])
                    /\ Continue(p, Then([c \in {new} |-> FirstVersion(status).row]))

Gather(p) ==
    LET Then(rows) == [session[p] EXCEPT !.at = "compare", !.own = DOMAIN rows]
    IN  At(p, "gather") /\ Ensure(p, "candidate", Then)

\* The SELECT of active claims: some contradict by rule, others are asked about.
Compare(p) ==
    LET rivals == InForce(Seen(p), Active(Seen(p), M(p)))
        seen   == {MemoryOf(e) : e \in rivals}
    IN  /\ At(p, "compare")
        /\ Continue(p, [session[p] EXCEPT
              !.at = "judge", !.beside = @ \cap {M(p)},
              !.conflicts = {k \in seen : {M(p), k} \in Rival},
              !.todo = {{c, e} : c \in session[p].own,
                                 e \in {x \in rivals : {M(p), MemoryOf(x)} \in Unsure}}])
        /\ UNCHANGED <<tables, calls, blind>>

\* Mutant: a confirmed verdict is stored and not counted as a conflict.
AnsweredOnPaper(p, pair, verdict) ==
    [session[p] EXCEPT !.at = "judge", !.note = NULL, !.todo = @ \ {pair}]

\* The session once a pair has its verdict.
Answered(p, pair, verdict) ==
    LET other == {MemoryOf(c) : c \in pair} \ {M(p)}
    IN  [session[p] EXCEPT
            !.at = "judge", !.note = NULL, !.todo = @ \ {pair},
            !.conflicts = IF verdict = "confirmed" THEN @ \cup other ELSE @]

\* _is_conflict_decision: the row of the pair, or the judge's answer, which
\* comes over the network.
Judge(p) ==
    /\ At(p, "judge")
    /\ \E pair \in session[p].todo, verdict \in Verdict :
          Continue(p, IF pair \in DOMAIN Seen(p).possible
                      THEN Answered(p, pair, Seen(p).possible[pair])
                      ELSE [session[p] EXCEPT !.at = "note",
                                              !.note = <<pair, verdict>>])
    /\ UNCHANGED <<tables, calls, blind>>

\* The answer is flushed, unless another process stored one meanwhile: the
\* pair is unique.
Note(p) ==
    LET pair    == session[p].note[1]
        verdict == session[p].note[2]
        rows    == Seen(p).possible
    IN  /\ At(p, "note") /\ MayWrite(p)
        /\ IF pair \in DOMAIN rows THEN Rollback(p)
           ELSE /\ Flush(p, [Seen(p) EXCEPT !.possible =
                       [x \in DOMAIN rows \cup {pair} |->
                            IF x = pair THEN verdict ELSE rows[x]]])
                /\ Continue(p, Answered(p, pair, verdict))
                /\ UNCHANGED <<calls, blind>>

\* Conflicts without a strategy end the call; the strategy reject goes on as
\* a rejection does.
Decide(p) ==
    LET s == session[p]
    IN  /\ At(p, "judge") /\ s.todo = {}
        /\ IF s.conflicts # {} /\ s.call.strategy = NULL THEN Rollback(p)
           ELSE /\ Continue(p, [s EXCEPT !.at =
                        IF s.call.strategy = "reject" THEN "rows" ELSE "own"])
                /\ UNCHANGED <<tables, calls, blind>>

-----------------------------------------------------------------------------
\* Every call: the rows it loads, the values it gives them, the write.

\* activate_claims loads the claims of the candidate again, as the first
\* pass has dropped them ...
Own(p) ==
    LET Then(rows) == [session[p] EXCEPT !.at = "others", !.cached = rows]
    IN  At(p, "own") /\ Ensure(p, "accepted", Then)

\* The values an accepted or disputed claim passes through.
Path(s, c, disputes) ==
    LET row      == s.cached[c]
        accepted == [row EXCEPT !.status = "accepted"]
        contested == [row EXCEPT !.status = "contested"]
        disputed == \E pair \in disputes : c \in {pair[1], pair[2]}
    IN  IF MemoryOf(c) = s.call.memory
        THEN (IF row = accepted THEN << >> ELSE << accepted >>)
             \o (IF disputed /\ s.call.strategy # "supersede" THEN << contested >> ELSE << >>)
        ELSE IF ~disputed THEN << >>
        ELSE IF s.call.strategy = "supersede" THEN << [row EXCEPT !.status = "superseded"] >>
        ELSE IF row = contested THEN << >> ELSE << contested >>

\* A session that is to write the paths of its claims; the version a first
\* transition closes, and its number, are still to be read.
Planned(s, path) ==
    LET moving == {c \in DOMAIN path : path[c] # << >>}
    IN  [s EXCEPT !.at = IF moving = {} THEN "write" ELSE "current",
                  !.moves = [c \in moving |-> path[c]]]

\* ... and those of the conflicts, accepted or contested.
Others(p) ==
    LET seen     == Seen(p)
        own      == DOMAIN session[p].cached
        against  == InForce(seen, session[p].conflicts)
        disputes == {pair \in own \X against : Conflicting(seen, pair[1], pair[2])}
        s        == [session[p] EXCEPT !.cached =
                        [c \in own \cup against |->
                            IF c \in own THEN @[c] ELSE seen.claims[c].row]]
    IN  /\ At(p, "others")
        /\ Continue(p, Planned(s, [c \in own \cup against |-> Path(s, c, disputes)]))
        /\ UNCHANGED <<tables, calls, blind>>

\* forget_claims, reject_claims, mark_memory_stale: the row each makes of one.
Rewritten(call, row) ==
    CASE Outcome(call) = "forgotten" -> [row EXCEPT !.status = "historical"]
      [] Outcome(call) = "rejected" -> [row EXCEPT !.status = "rejected"]
      [] call.op = "stale" -> Row("stale", "stale")

Rows(p) ==
    LET seen == Seen(p)
        rows == [c \in ClaimsOf(seen, M(p)) |-> seen.claims[c].row]
        path == [c \in DOMAIN rows |->
                    LET after == Rewritten(session[p].call, rows[c])
                    IN  IF after = rows[c] THEN << >> ELSE << after >>]
    IN  /\ At(p, "rows")
        /\ Continue(p, Planned([session[p] EXCEPT !.cached = rows], path))
        /\ UNCHANGED <<tables, calls, blind>>

\* The claim whose transition comes first; the candidate's own come first.
First(s) ==
    LET own == {c \in DOMAIN s.moves : MemoryOf(c) = s.call.memory}
    IN  CHOOSE c \in DOMAIN s.moves : own # {} => c \in own

\* The version transition closes, and the number it gives the next.
OpenVersion(versions) ==
    CHOOSE n \in DOMAIN versions :
        /\ versions[n].open
        /\ \A k \in DOMAIN versions : versions[k].open =>
              versions[k].number <= versions[n].number

NextNumber(versions) == 1 + CHOOSE n \in {v.number : v \in ToSet(versions)} :
                                \A v \in ToSet(versions) : v.number <= n

Current(p) ==
    /\ At(p, "current")
    /\ Continue(p, [session[p] EXCEPT !.at = "number", !.current =
            OpenVersion(Seen(p).claims[First(session[p])].versions)])
    /\ UNCHANGED <<tables, calls, blind>>

Number(p) ==
    /\ At(p, "number")
    /\ Continue(p, [session[p] EXCEPT !.at = "write", !.number =
            NextNumber(Seen(p).claims[First(session[p])].versions)])
    /\ UNCHANGED <<tables, calls, blind>>

\* Close one version and append a version for each value of the path.
Transitions(versions, current, number, path) ==
    [versions EXCEPT ![current].open = FALSE]
    \o [i \in DOMAIN path |-> [number |-> number + i - 1, row |-> path[i],
                               open |-> i = Len(path)]]

\* The columns an UPDATE of the claim row writes: those the call changed.
Updated(row, cached, path) ==
    LET Changed(field) == \E i \in DOMAIN path : path[i][field] # cached[field]
    IN  [field \in DOMAIN row |->
            IF Changed(field) THEN path[Len(path)][field] ELSE row[field]]

\* The claims after every transition of the call; the first uses the version
\* and the number read before the lock was taken.
Moved(d, s) ==
    [c \in Claim |->
        LET claim == d.claims[c]
            before == IF c = First(s) THEN s.current ELSE OpenVersion(claim.versions)
            number == IF c = First(s) THEN s.number ELSE NextNumber(claim.versions)
        IN  IF c \notin DOMAIN s.moves THEN claim
            ELSE [row |-> Updated(claim.row, s.cached[c], s.moves[c]),
                  versions |-> Transitions(claim.versions, before, number, s.moves[c])]]

\* The memory rows of the call.
Decided(d, s) ==
    [m \in Memory |->
        IF m = s.call.memory /\ Outcome(s.call) # NULL THEN Outcome(s.call)
        ELSE IF m \in s.conflicts /\ s.call.strategy = "supersede" THEN "superseded"
        ELSE d.memories[m]]

\* Mutant: two rows may have one number.
NumberUsedIgnored(d, s) == FALSE

\* The unique constraint on the number of the first new version.
NumberUsed(d, s) ==
    /\ DOMAIN s.moves # {}
    /\ \E v \in ToSet(d.claims[First(s)].versions) : v.number = s.number

\* The memory_relations a confirm inserts for its conflicts, also unique.
Relations(s) ==
    IF Outcome(s.call) # "active" THEN {}
    ELSE {<<s.call.memory, k, s.call.strategy>> : k \in s.conflicts}

\* The pairs this commit brings in force together on an old look.
Overtaken(d, s) ==
    LET rivals == InForce(d, Active(d, s.call.memory))
    IN  IF Outcome(s.call) # "active" THEN {}
        ELSE {{s.call.memory, k} :
                 k \in {x \in {MemoryOf(e) : e \in rivals} :
                          {s.call.memory, x} \cap s.beside # {}}}

\* The memories a commit changes, and the session of a call that has looked
\* at claims when another one commits.
Changed(d, e) ==
    {m \in Memory : \/ e.memories[m] # d.memories[m]
                    \/ \E c \in Claim : MemoryOf(c) = m /\ e.claims[c] # d.claims[c]}

Passed(s, memories) ==
    IF s.own # {} /\ Outcome(s.call) = "active"
    THEN [s EXCEPT !.beside = @ \cup memories] ELSE s

Written(d, s) == [d EXCEPT !.claims = Moved(d, s),
                           !.memories = Decided(d, s),
                           !.relations = @ \cup Relations(s)]

Write(p) ==
    LET s == session[p]
        d == Seen(p)
    IN  /\ At(p, "write") /\ MayWrite(p)
        /\ IF NumberUsed(d, s) \/ Relations(s) \cap d.relations # {}
           THEN Rollback(p)
           ELSE /\ Commit(p, Written(d, s))
                /\ blind' = blind \cup Overtaken(d, s)
                /\ session' = [q \in Process |->
                       IF q = p THEN Idle
                       ELSE Passed(session[q], Changed(db, Written(d, s)))]
                /\ UNCHANGED calls

\* A statement that writes while another process holds the lock waits for
\* busy_timeout and then fails.
Writing(p) ==
    \/ At(p, "note") \/ At(p, "write")
    \/ (At(p, "gather") \/ At(p, "own")) /\ LiveClaims(Seen(p), M(p)) = {}

Busy(p) == ~MayWrite(p) /\ Writing(p) /\ Rollback(p)

-----------------------------------------------------------------------------
Init ==
    /\ db = [memories |-> [m \in Memory |-> "candidate"],
             claims |-> [c \in Claim |-> IF c[2] = 1 THEN FirstVersion("candidate")
                                         ELSE Absent],
             possible |-> << >>, relations |-> {}]
    /\ draft = NULL /\ lock = NULL
    /\ session = [p \in Process |-> Idle]
    /\ calls = 0 /\ blind = {}

Step(p) ==
    \/ Gather(p) \/ Compare(p) \/ Judge(p) \/ Note(p) \/ Decide(p)
    \/ Own(p) \/ Others(p) \/ Rows(p)
    \/ Current(p) \/ Number(p) \/ Write(p) \/ Busy(p)

Next == \E p \in Process : Step(p) \/ \E call \in Call : Begin(p, call)

\* A thread in a call goes on; its judge answers or fails.
Fairness == \A p \in Process : WF_vars(Step(p))

Spec == Init /\ [][Next]_vars /\ Fairness

-----------------------------------------------------------------------------
\* Properties.

\* Every row is well formed, in the file and under the write lock, which
\* belongs to a process in a call.
TypeOK ==
    /\ db \in Database
    /\ lock \in Process \cup {NULL}
    /\ IF lock = NULL THEN draft = NULL
       ELSE draft \in Database /\ ~At(lock, "idle")

\* The versions of a claim are numbered in the order in which the calls that
\* made them committed, although a call reads the number before its lock.
NumbersFollowCommits ==
    \A c \in Claim : \A n \in DOMAIN db.claims[c].versions :
        db.claims[c].versions[n].number = n

\* Two memories in force assert a contradiction as undisputed only if calls
\* overlapped: between the look for conflicts of the confirm of one and its
\* commit another call committed a change of one of the two.
OnlyOverlapIsSilent ==
    \A c, e \in {x \in InForce(db, {m \in Memory : db.memories[m] = "active"}) :
                    db.claims[x].row.status = "accepted"} :
        MemoryOf(c) # MemoryOf(e) /\ Conflicting(db, c, e)
            => {MemoryOf(c), MemoryOf(e)} \in blind

\* Every call comes to its commit or its exception, and leaves no lock.
CallsEnd == \A p \in Process : ~At(p, "idle") ~> At(p, "idle") /\ lock # p

\* What the documents say of the program and the program does not do.

\* DECISIONS.md:35: after a forget normal retrieval, which returns active
\* memories only, stops returning the memory.  Does not hold: a confirm that
\* loaded the candidate before the forget makes it active after it.
ForgottenNeverActive ==
    [][\A m \in Memory : db.memories[m] = "forgotten" => db'.memories[m] # "active"]_vars
=============================================================================
