----------------------------- MODULE MemoryTruth -----------------------------
(***************************************************************************)
(* The memory lifecycle (engine/service.py) and the truth maintenance of   *)
(* the claims extracted from memories (claims/truth.py), in one scope.     *)
(* An action is a service call whose transaction commits, every datetime   *)
(* it takes being the clock.  A call that raises rolls back and is left    *)
(* out; a refused confirm is not, since it may have asked the judge.       *)
(*                                                                         *)
(* A handler is written as an operator from database to database where it  *)
(* is made of several passes (Expired, Judged, Activated), so that an      *)
(* action can run them one after the other inside its transaction.         *)
(***************************************************************************)
EXTENDS ClaimHistory, FiniteSets, Functions

CONSTANTS
    Memory,           \* memory ids
    Identity,         \* claim identities: subject entity and predicate
    Single,           \* the identities with a single-valued predicate
    Within,           \* pairs of objects, the first contained in the second
    Proposal,         \* the payloads of propose
    Revision,         \* the payloads of update that touch the text
    Schedule,         \* the payloads of update that touch only the validity
    Strategy,         \* those given to confirm, reject apart
    JudgeOn,          \* a relationship judge is configured
    Observed,         \* claim states a freshness evaluation may end in
    MaxClock, MaxEditions, MaxVersions, MaxEvents

ASSUME DataAssumption == Single \subseteq Identity /\ JudgeOn \in BOOLEAN

ASSUME BoundsAssumption ==
    /\ MaxClock \in Nat \ {0} /\ MaxEditions \in Nat \ {0}
    /\ MaxVersions \in Nat /\ MaxEvents \in Nat

\* What validation lets through: instants or nothing.
ASSUME PayloadAssumption ==
    /\ \A p \in Proposal : p.manual \in BOOLEAN /\ {p.from, p.to, p.ttl} \subseteq End
    /\ \A s \in Schedule : {s.from, s.to, s.ttl} \subseteq End
    /\ Strategy \subseteq {"supersede", "keep_both"}
    /\ Observed \subseteq StaleState

VARIABLES
    clock,
    memories,         \* the memories table, with sources and anchors
    claims,           \* claims and claim_versions
    possible,         \* possible_conflicts, by pair of claims
    relations,        \* claim_relations: a type and a pair of claims
    temperature,      \* memory_health, "none" while there is no row
    events,           \* health_archive and health_restore audit events
    consulted         \* the pairs the judge was asked about (not stored)

health == <<temperature, events>>
vars   == <<clock, memories, claims, possible, relations, health,
            consulted>>

-----------------------------------------------------------------------------
\* Rows.  A memory keeps the texts it has had; an edition is an index into
\* them, and a claim is what one edition says about one identity.  `anchored'
\* is the last edition whose claims have evidence with a source anchor.

Edition == 1 .. MaxEditions
Claim   == Memory \X Edition \X Identity

MemoryOf(c)   == c[1]
EditionOf(c)  == c[2]
IdentityOf(c) == c[3]

NoMemory == [status |-> "absent", key |-> NULL, texts |-> << >>, from |-> NULL,
             to |-> NULL, created |-> 0, ttl |-> NULL, anchored |-> 0]

Present(m) == memories[m].status # "absent"

db == [memories |-> memories, claims |-> claims, possible |-> possible,
       relations |-> relations]

\* session.commit
Commit(d) ==
    /\ memories' = d.memories
    /\ claims' = d.claims
    /\ possible' = d.possible
    /\ relations' = d.relations

\* Which claim a relation is from, its method and its words are left out.
Relation(type, pair) == [type |-> type, pair |-> pair]

\* What a claim asserts: the object it names and the polarity.
Assertion(d, c) == d.memories[MemoryOf(c)].texts[EditionOf(c)][IdentityOf(c)]

ClaimsOf(d, m) == {c \in Claim : MemoryOf(c) = m /\ d.claims[c].status # "absent"}

\* The claims ensure_claims finds instead of extracting again.
LiveClaims(d, m) ==
    {c \in ClaimsOf(d, m) : d.claims[c].status \notin {"historical", "rejected"}}

\* Apply a transition with new field values to every claim of a set.
Moved(rows, which, After(_)) ==
    [c \in Claim |-> IF c \in which
                     THEN Transition(rows[c], After(rows[c]), clock)
                     ELSE rows[c]]

\* ensure_claims on a memory whose last edition has no claim yet.
Extracted(d, m) ==
    LET memory == d.memories[m]
        edition == Len(memory.texts)
        status == IF memory.status = "active" THEN "accepted" ELSE "candidate"
        row == [NoClaim EXCEPT !.status = status, !.validFrom = memory.from,
                               !.validTo = memory.to, !.recorded = clock]
        New(c) == /\ MemoryOf(c) = m /\ EditionOf(c) = edition
                  /\ Assertion(d, c) # NULL
    IN  [d EXCEPT !.claims =
            [c \in Claim |-> IF New(c) THEN RecordInitial(row) ELSE d.claims[c]]]

-----------------------------------------------------------------------------
\* Expiry.

Lapsed(memory, at) == memory.ttl # NULL /\ memory.created + memory.ttl <= at

Due(memory) ==
    /\ memory.status \in {"active", "candidate"}
    /\ \/ memory.to # NULL /\ memory.to <= clock
       \/ Lapsed(memory, clock)

\* _expire_due and expire_claims: due memories expire, their claims end now.
Expired(d) ==
    LET due == {m \in Memory : Due(d.memories[m])}
        Close(row) == [row EXCEPT !.status = "historical",
                                 !.validTo = IF @ = NULL THEN clock ELSE @]
    IN  [d EXCEPT
            !.memories = [m \in Memory |->
                IF m \in due THEN [d.memories[m] EXCEPT !.status = "expired"]
                ELSE d.memories[m]],
            !.claims = Moved(d.claims, UNION {LiveClaims(d, m) : m \in due}, Close)]

-----------------------------------------------------------------------------
\* Relationships between claims.

\* intervals_overlap, NULL being the open end of either side.
Overlap(a, b) ==
    \A x \in {a, b}, y \in {a, b} :
        x.validFrom = NULL \/ y.validTo = NULL \/ x.validFrom < y.validTo

SameSlot(d, c, e) == /\ IdentityOf(c) = IdentityOf(e)
                     /\ Overlap(d.claims[c], d.claims[e])

Supports(a, b) == /\ a.affirmed = b.affirmed
                  /\ {<<a.object, b.object>>, <<b.object, a.object>>} \cap Within # {}

\* classify_claim_values = "contradicts".
Contradicts(d, c, e) ==
    LET a == Assertion(d, c)
        b == Assertion(d, e)
    IN  /\ SameSlot(d, c, e)
        /\ a # b /\ ~Supports(a, b)
        /\ a.object = b.object \/ IdentityOf(c) \in Single

\* classify_claim_values = "uncertain", the pairs a judge may be asked about.
Uncertain(d, c, e) ==
    LET a == Assertion(d, c)
        b == Assertion(d, e)
    IN  /\ SameSlot(d, c, e)
        /\ a.object # b.object /\ ~Supports(a, b)
        /\ IdentityOf(c) \notin Single

Confirmed(d, pair) == pair \in DOMAIN d.possible /\ d.possible[pair].status = "confirmed"

\* _claims_conflict
ClaimsConflict(d, c, e) == Contradicts(d, c, e) \/ Confirmed(d, {c, e})

\* Mutant: a claim that is not valid yet is no rival.
StartedClaims(d, m) ==
    {c \in Claim :
        /\ MemoryOf(c) # m
        /\ d.memories[MemoryOf(c)].status = "active"
        /\ ~Lapsed(d.memories[MemoryOf(c)], clock)
        /\ d.claims[c].status \in {"accepted", "contested"}
        /\ Covers(d.claims[c].validFrom, d.claims[c].validTo, clock)}

\* The accepted claims a candidate is compared with.
ActiveClaims(d, m) ==
    {c \in Claim :
        /\ MemoryOf(c) # m
        /\ d.memories[MemoryOf(c)].status = "active"
        /\ ~Lapsed(d.memories[MemoryOf(c)], clock)
        /\ d.claims[c].status \in {"accepted", "contested"}
        /\ d.claims[c].validTo = NULL \/ clock < d.claims[c].validTo}

UncertainPairs(d, m) ==
    {pair \in {{c, e} : c \in LiveClaims(d, m), e \in ActiveClaims(d, m)} :
        \E c, e \in pair : Uncertain(d, c, e)}

\* The pairs _is_conflict_decision has no row for.
Asked(d, m) == UncertainPairs(d, m) \ DOMAIN d.possible

\* What a row may say: the judge's answer, or the lack of a judge.
Verdict == IF JudgeOn THEN {"confirmed", "dismissed", "abstained"} ELSE {"possible"}

\* Mutant: the row keeps the relationship the judge named, not its status.
JudgedVerbatim(d, verdict) ==
    [d EXCEPT !.possible = [pair \in DOMAIN @ \cup DOMAIN verdict |->
        [status |-> "contradicts", resolved |-> FALSE]]]

\* _is_conflict_decision on every pair asked, with the given verdicts.
Judged(d, verdict) ==
    LET row(pair) == [status |-> verdict[pair], resolved |-> FALSE]
    IN  [d EXCEPT
            !.possible = [pair \in DOMAIN @ \cup DOMAIN verdict |->
                IF pair \in DOMAIN verdict THEN row(pair) ELSE d.possible[pair]],
            !.relations = @ \cup {Relation("contradicts", pair) :
                pair \in {p \in DOMAIN verdict : verdict[p] = "confirmed"}}]

\* Mutant: only the key is compared.
ConflictsByKey(d, m) ==
    {k \in Memory \ {m} : /\ d.memories[k].status = "active"
                          /\ d.memories[k].key = d.memories[m].key}

\* _find_conflicts on judged claims: the active memories with the same key,
\* and those with a claim that conflicts with a claim of the candidate.
Conflicts(d, m) ==
    {k \in Memory \ {m} :
        /\ d.memories[k].status = "active"
        /\ \/ d.memories[k].key = d.memories[m].key
           \/ \E c \in LiveClaims(d, m), e \in ActiveClaims(d, m) :
                 /\ MemoryOf(e) = k
                 /\ \/ Contradicts(d, c, e)
                    \/ Uncertain(d, c, e) /\ Confirmed(d, {c, e})}

\* Pairs the provider has seen, whether or not the answer is stored.
Consult(pairs) == consulted' = IF JudgeOn THEN consulted \cup pairs ELSE consulted

-----------------------------------------------------------------------------
\* Proposing and editing.

Init ==
    /\ clock = 1
    /\ memories = [m \in Memory |-> NoMemory]
    /\ claims = [c \in Claim |-> NoClaim]
    /\ possible = << >> /\ relations = {} /\ consulted = {}
    /\ temperature = [m \in Memory |-> "none"]
    /\ events = [m \in Memory |-> << >>]

\* The row a payload becomes, with its claims.
Created(d, m, p) ==
    LET row == [NoMemory EXCEPT
                  !.status = IF p.manual THEN "active" ELSE "candidate",
                  !.key = p.key, !.texts = << p.says >>, !.from = p.from,
                  !.to = p.to, !.created = clock, !.ttl = p.ttl]
    IN  Extracted([d EXCEPT !.memories = [@ EXCEPT ![m] = row]], m)

\* propose; one that is to be active at once must conflict with nothing.
Propose(m, p) ==
    LET d == Created(db, m, p)
    IN  /\ ~Present(m)
        /\ \/ ~p.manual /\ Commit(d) /\ UNCHANGED consulted
           \/ /\ p.manual
              /\ \E verdict \in [Asked(d, m) -> Verdict] :
                    /\ Conflicts(Judged(d, verdict), m) = {}
                    /\ Commit(Judged(d, verdict))
              /\ Consult(Asked(d, m))
        /\ UNCHANGED <<clock, health>>

\* update of the text of a candidate: reset_claims retires what the text
\* before said and extracts again.
Edit(m, r) ==
    LET Retired(row) == [row EXCEPT !.status = "historical"]
        retired == Moved(claims, LiveClaims(db, m), Retired)
        edited == [memories EXCEPT ![m].texts = Append(@, r.says), ![m].key = r.key]
    IN  /\ memories[m].status = "candidate"
        /\ Len(memories[m].texts) < MaxEditions
        /\ Commit(Extracted([db EXCEPT !.memories = edited, !.claims = retired], m))
        /\ UNCHANGED <<clock, health, consulted>>

\* update of the validity of a candidate; its claims are left alone.
Reschedule(m, s) ==
    /\ memories[m].status = "candidate"
    /\ memories' = [memories EXCEPT ![m].from = s.from, ![m].to = s.to, ![m].ttl = s.ttl]
    /\ UNCHANGED <<clock, claims, possible, relations, health, consulted>>

-----------------------------------------------------------------------------
\* Confirming, rejecting and forgetting.

WithStatus(d, S, status) ==
    [m \in Memory |-> IF m \in S THEN [d.memories[m] EXCEPT !.status = status]
                      ELSE d.memories[m]]

\* activate_claims: the claims of m are accepted; each conflicting claim of
\* the memories in conflict ends now, or else both are contested; a relation
\* says which.
Activated(d, m, strategy, conflicts) ==
    LET own == LiveClaims(d, m)
        rivals == {e \in Claim : /\ MemoryOf(e) \in conflicts
                                 /\ d.claims[e].status \in {"accepted", "contested"}}
        clash == {pair \in own \X rivals : ClaimsConflict(d, pair[1], pair[2])}
        beaten == {pair[2] : pair \in clash}
        disputed == IF strategy = "keep_both"
                    THEN {pair[1] : pair \in clash} \cup beaten ELSE {}
        Accept(row) == [row EXCEPT !.status = "accepted"]
        Contest(row) == [row EXCEPT !.status = "contested"]
        Supersede(row) == [row EXCEPT !.status = "superseded",
                                      !.validTo = IF @ = NULL THEN clock ELSE @]
        Among(rows, S, status) == {c \in S : rows[c].status # status}
        accepted == Moved(d.claims, Among(d.claims, own, "accepted"), Accept)
        superseded == IF strategy = "supersede"
                      THEN Moved(accepted, beaten, Supersede) ELSE accepted
    IN  [d EXCEPT
            !.claims = Moved(superseded, Among(superseded, disputed, "contested"), Contest),
            !.relations = @ \cup
                {Relation(IF strategy = "supersede" THEN "supersedes" ELSE "contradicts",
                          {pair[1], pair[2]}) : pair \in clash}]

\* reject_claims, whose claims include those of earlier texts.
Refused(d, m) ==
    LET Deny(row) == [row EXCEPT !.status = "rejected"]
        kept == {c \in ClaimsOf(d, m) : d.claims[c].status # "rejected"}
    IN  [d EXCEPT !.memories = WithStatus(d, {m}, "rejected"),
                  !.claims = Moved(d.claims, kept, Deny)]

\* The memory is a candidate still once what is due has expired.
Reviewable(m) == Expired(db).memories[m].status = "candidate"

\* confirm without a strategy (NULL), or with supersede or keep_both.
Confirm(m, strategy) ==
    LET due == Expired(db)
    IN  /\ Reviewable(m)
        /\ \E verdict \in [Asked(due, m) -> Verdict] :
              LET d == Judged(due, verdict)
                  conflicts == Conflicts(d, m)
                  replaced == IF strategy = "supersede" THEN conflicts ELSE {}
                  active == [d EXCEPT !.memories =
                                WithStatus([memories |-> WithStatus(d, replaced, "superseded")],
                                           {m}, "active")]
              IN  /\ strategy = NULL => conflicts = {}
                  /\ Commit(Activated(active, m, strategy, conflicts))
        /\ Consult(Asked(due, m))
        /\ UNCHANGED <<clock, health>>

\* confirm that meets a conflict and has no strategy: everything is rolled
\* back, the expiries and the judge's answers with it.
ConfirmConflicting(m) ==
    LET due == Expired(db)
    IN  /\ Reviewable(m)
        /\ \E verdict \in [Asked(due, m) -> Verdict] :
              Conflicts(Judged(due, verdict), m) # {}
        /\ Consult(Asked(due, m))
        /\ UNCHANGED <<clock, memories, claims, possible, relations, health>>

\* confirm with strategy reject; the judge is asked all the same.
ConfirmReject(m) ==
    LET due == Expired(db)
    IN  /\ Reviewable(m)
        /\ \E verdict \in [Asked(due, m) -> Verdict] :
              Commit(Refused(Judged(due, verdict), m))
        /\ Consult(Asked(due, m))
        /\ UNCHANGED <<clock, health>>

Reject(m) ==
    /\ memories[m].status = "candidate"
    /\ Commit(Refused(db, m))
    /\ UNCHANGED <<clock, health, consulted>>

\* forget, whose claims become history whatever they were.
Forget(m) ==
    LET Forgotten(row) == [row EXCEPT !.status = "historical"]
        kept == {c \in ClaimsOf(db, m) : claims[c].status # "historical"}
    IN  /\ memories[m].status \notin {"absent", "forgotten", "rejected"}
        /\ Commit([db EXCEPT !.memories = WithStatus(db, {m}, "forgotten"),
                             !.claims = Moved(claims, kept, Forgotten)])
        /\ UNCHANGED <<clock, health, consulted>>

\* Every read (get, search, context, current_truth) sweeps first.
ExpireDue ==
    /\ \E m \in Memory : Due(memories[m])
    /\ Commit(Expired(db))
    /\ UNCHANGED <<clock, health, consulted>>

-----------------------------------------------------------------------------
\* Freshness, possible conflicts and the archive.

\* Mutant: a claim whose evidence is fresh is accepted.
FreshIsAccepted(row, state) ==
    [row EXCEPT !.stale = state,
                !.status = IF state = "stale" THEN "stale" ELSE "accepted"]

\* A stale claim gets the status `stale', and keeps it when it is fresh again.
MarkedRow(row, state) ==
    [row EXCEPT !.stale = state, !.status = IF state = "stale" THEN "stale" ELSE @]

\* mark_memory_stale touches every claim of the memory, whatever its status.
Marked(d, m, state) ==
    LET Mark(row) == MarkedRow(row, state)
        moving == {c \in ClaimsOf(d, m) : Mark(d.claims[c]) # d.claims[c]}
    IN  [d EXCEPT !.claims = Moved(d.claims, moving, Mark)]

Bounded(m) == \A c \in ClaimsOf(db, m) : Len(claims[c].versions) < MaxVersions

\* SourceAnchorService.create: the evidence of every claim there is gets the
\* anchor, in the place of one it had.
Anchor(m) ==
    LET anchored == [memories EXCEPT ![m].anchored = Len(memories[m].texts)]
    IN  /\ ClaimsOf(db, m) # {} /\ Bounded(m)
        /\ Commit(Marked([db EXCEPT !.memories = anchored], m, "fresh"))
        /\ UNCHANGED <<clock, health, consulted>>

\* SourceAnchorService.refresh, the first transaction of refresh_memory; the
\* two that follow it are an ExpireDue and a Propose like any other.
Refresh(m, state) ==
    /\ memories[m].anchored > 0 /\ Bounded(m)
    /\ Commit(Marked(db, m, state))
    /\ UNCHANGED <<clock, health, consulted>>

\* Mutant: a manual decision is projected without its relation.
NoRelation(pair, confirmed) == relations

\* The relation a confirmed conflict leaves.
WithRelation(pair, confirmed) ==
    IF confirmed THEN relations \cup {Relation("contradicts", pair)} ELSE relations

\* resolve_possible_conflict and apply_manual_conflict_resolution.
Resolve(pair, confirmed) ==
    LET Contest(row) == [row EXCEPT !.status = "contested"]
        standing == {c \in pair : claims[c].status = "accepted"}
        live == \A c \in pair : memories[MemoryOf(c)].status = "active"
    IN  /\ pair \in DOMAIN possible /\ ~possible[pair].resolved
        /\ possible' = [possible EXCEPT ![pair] =
              [status |-> IF confirmed THEN "confirmed" ELSE "dismissed",
               resolved |-> TRUE]]
        /\ relations' = WithRelation(pair, confirmed)
        /\ claims' = IF confirmed /\ live THEN Moved(claims, standing, Contest) ELSE claims
        /\ UNCHANGED <<clock, memories, health, consulted>>

\* evaluate and record_retrieval create the health rows that are missing.
Rate(S) ==
    /\ \A m \in S : Present(m) /\ temperature[m] = "none"
    /\ temperature' = [m \in Memory |-> IF m \in S THEN "live" ELSE temperature[m]]
    /\ UNCHANGED <<clock, memories, claims, possible, relations, events, consulted>>

\* The open accepted versions of a memory that hold now (_version_is_current).
CurrentSupport(m) ==
    {c \in ClaimsOf(db, m) :
        \E v \in {claims[c].versions[n] : n \in OpenVersions(claims[c].versions)} :
            /\ v.status = "accepted" /\ v.stale # "stale"
            /\ Covers(v.validFrom, v.validTo, clock)}

MemoryIsCurrent(memory) ==
    Covers(memory.from, memory.to, clock) /\ ~Lapsed(memory, clock)

\* Mutant: support that is archived itself counts.
TruthSafeButArchived(m) ==
    \A c \in CurrentSupport(m) : \E k \in Memory \ {m} :
        /\ memories[k].status = "active" /\ MemoryIsCurrent(memories[k])
        /\ \E e \in CurrentSupport(k) : IdentityOf(e) = IdentityOf(c)

\* _assert_truth_safe: each identity m supports has support from elsewhere.
TruthSafe(m) ==
    \A c \in CurrentSupport(m) : \E k \in Memory \ {m} :
        /\ memories[k].status = "active" /\ temperature[k] # "archived"
        /\ MemoryIsCurrent(memories[k])
        /\ \E e \in CurrentSupport(k) : IdentityOf(e) = IdentityOf(c)

\* Mutant: the event is stamped with the clock.
EventNow(m) == clock

\* _next_archive_event_moment: later than every event of the memory before.
EventMoment(m) ==
    IF events[m] = << >> THEN clock ELSE Moment(clock, events[m][Len(events[m])].at)

Happen(m, kind) ==
    /\ Len(events[m]) < MaxEvents
    /\ events' = [events EXCEPT ![m] = Append(@, [kind |-> kind, at |-> EventMoment(m)])]

Archive(m) ==
    /\ Present(m) /\ TruthSafe(m)
    /\ Happen(m, "archive")
    /\ temperature' = [temperature EXCEPT ![m] = "archived"]
    /\ UNCHANGED <<clock, memories, claims, possible, relations, consulted>>

\* restore needs a health row, not an archived one.
Restore(m) ==
    /\ Present(m) /\ temperature[m] # "none"
    /\ Happen(m, "restore")
    /\ temperature' = [temperature EXCEPT ![m] = "live"]
    /\ UNCHANGED <<clock, memories, claims, possible, relations, consulted>>

Tick == /\ clock < MaxClock
        /\ clock' = clock + 1
        /\ UNCHANGED <<memories, claims, possible, relations, health, consulted>>

Next ==
    \/ Tick
    \/ ExpireDue
    \/ \E m \in Memory :
          \/ \E p \in Proposal : Propose(m, p)
          \/ \E r \in Revision : Edit(m, r)
          \/ \E s \in Schedule : Reschedule(m, s)
          \/ \E strategy \in {NULL} \cup Strategy : Confirm(m, strategy)
          \/ ConfirmConflicting(m) \/ ConfirmReject(m)
          \/ Reject(m) \/ Forget(m)
          \/ Archive(m) \/ Restore(m)
          \/ Observed # {} /\ Anchor(m)
          \/ \E state \in Observed : Refresh(m, state)
    \/ \E pair \in DOMAIN possible, confirmed \in BOOLEAN : Resolve(pair, confirmed)
    \/ MaxEvents > 0 /\ \E S \in SUBSET Memory : Rate(S)

Spec == Init /\ [][Next]_vars

-----------------------------------------------------------------------------
\* What current_truth answers for an identity, at a valid and a known time.

\* Mutant: the memory's temperature now decides for every known time.
ArchivedNow(m, known) == temperature[m] = "archived"

\* _archived_memory_ids: the latest event known then archived the memory.
Archived(m, known) ==
    LET seen == {event \in Range(events[m]) : event.at <= known}
    IN  \E event \in seen : /\ event.kind = "archive"
                            /\ \A other \in seen : other.at <= event.at

\* The claims in view, each with its visible version.
View(i, valid, known) ==
    {pair \in UNION {{c} \X VisibleVersions(claims[c], valid, known) :
                        c \in {x \in Claim : IdentityOf(x) = i}} :
        /\ pair[2].status \in {"accepted", "contested", "superseded", "stale", "historical"}
        /\ ~Archived(MemoryOf(pair[1]), known)}

InForce(pair) == pair[2].status \in {"accepted", "contested"}

TruthState(i, valid, known) ==
    LET view == View(i, valid, known)
        fresh == {p \in view : InForce(p) /\ p[2].stale # "stale"}
        objects == {Assertion(db, p[1]).object : p \in fresh}
    IN  IF \/ \E p \in view : p[2].status = "contested"
           \/ i \in Single /\ \E x, y \in objects : x # y
        THEN "contested"
        ELSE IF fresh # {} THEN "resolved"
        ELSE IF view # {} THEN "stale" ELSE "unknown"

\* The claims of the answer, as rows of the table now: `known' selects them and
\* does not hide a transaction_to of after it.  The history of these claims is
\* of what had begun by then; their relations and the anchors of their evidence
\* are those of now, whatever `known' is.
Answer(i, valid, known) ==
    LET view   == View(i, valid, known)
        viewed == {p[1] : p \in view}
    IN  [state     |-> TruthState(i, valid, known),
         claims    |-> view,
         history   |-> UNION {{c} \X {version \in Range(claims[c].versions) :
                                         version.from <= known} : c \in viewed},
         relations |-> {relation \in relations : relation.pair \cap viewed # {}},
         anchored  |-> {c \in viewed : EditionOf(c) <= memories[MemoryOf(c)].anchored}]

\* Rows without the ends that came after an instant.
AsOf(rows, known) ==
    {<<row[1], IF row[2].to # NULL /\ row[2].to <= known THEN row[2]
               ELSE [row[2] EXCEPT !.to = NULL]>> : row \in rows}

Ended(rows) == {row \in rows : row[2].to # NULL}

\* An answer as known at an instant, and what it has become.
SameButLater(answer, later, known) ==
    /\ later.state = answer.state
    /\ AsOf(later.claims, known) = AsOf(answer.claims, known)
    /\ AsOf(later.history, known) = AsOf(answer.history, known)
    /\ Ended(answer.claims) \subseteq later.claims
    /\ Ended(answer.history) \subseteq later.history
    /\ answer.relations \subseteq later.relations
    /\ answer.anchored \subseteq later.anchored

\* An instant after every moment: moments run ahead of the clock by at most
\* a tick for each version or event of the same tick.
Horizon == MaxClock + 2 * (MaxVersions + MaxEvents)

\* No version and no event is of a later moment.
AllPast(known) ==
    /\ \A c \in Claim : \A version \in Range(claims[c].versions) :
          version.from <= known /\ (version.to # NULL => version.to <= known)
    /\ \A m \in Memory : \A event \in Range(events[m]) : event.at <= known

\* Two claims of different memories that both hold from now on.
Holds(c) ==
    LET memory == memories[MemoryOf(c)]
    IN  /\ memory.status = "active" /\ ~Lapsed(memory, clock)
        /\ claims[c].validTo = NULL \/ clock < claims[c].validTo

-----------------------------------------------------------------------------
\* Properties.

\* Every row is well formed.
TypeOK ==
    /\ clock \in 1 .. MaxClock
    /\ claims \in [Claim -> {NoClaim} \cup ClaimRow]
    /\ \A m \in Memory :
        /\ memories[m].status \in {"absent", "candidate", "active", "superseded",
                                   "rejected", "forgotten", "expired"}
        /\ Len(memories[m].texts) <= MaxEditions
        /\ temperature[m] \in {"none", "live", "archived"}
    /\ \A pair \in DOMAIN possible :
        /\ pair \subseteq Claim /\ Cardinality(pair) = 2
        /\ possible[pair].status \in {"possible", "confirmed", "dismissed", "abstained"}

\* Two memories in force never assert, both as accepted and undisputed, what
\* the rules say is contradictory or what a judge or a person has confirmed
\* to be: confirm and propose check against every claim that holds, and a
\* conflict that is kept or confirmed later is contested on both sides.
NoSilentConflict ==
    \A c, e \in {x \in Claim : claims[x].status = "accepted"} :
        MemoryOf(c) # MemoryOf(e) /\ Holds(c) /\ Holds(e) => ~ClaimsConflict(db, c, e)

\* Nothing a memory says was ever accepted before the memory was confirmed,
\* at no past instant either, and nothing stays accepted once the memory is
\* rejected, forgotten or expired.
AcceptedWasConfirmed ==
    \A c \in Claim :
        /\ (\E n \in DOMAIN claims[c].versions :
                claims[c].versions[n].status \in {"accepted", "contested"})
           => memories[MemoryOf(c)].status \notin {"candidate", "rejected"}
        /\ claims[c].status \in {"accepted", "contested"}
           => memories[MemoryOf(c)].status \in {"active", "superseded"}

\* A contested claim is always one side of a recorded contradiction, which is
\* what current_truth shows as the reason of the dispute.
ContestedIsExplained ==
    \A c \in Claim : claims[c].status = "contested" =>
        \E relation \in relations : relation.type = "contradicts" /\ c \in relation.pair

\* What an answer as known at a past instant says of that instant no later call
\* changes: its state, which claims and versions it shows, what they say, and
\* every end that had come by then.  What is told beside it is only added to:
\* an end of after that instant where there was none, which stays, relations
\* and anchors.
PastTruthStands ==
    [][\A i \in Identity, valid \in 1 .. MaxClock + 1, known \in 1 .. MaxClock :
          known < clock =>
             \A answer \in {Answer(i, valid, known)}, later \in {Answer(i, valid, known)'} :
                SameButLater(answer, later, known)]_vars

\* Archiving a memory never takes the answer to a question that was resolved,
\* asked of the present when every moment in the tables is past:
\* _assert_truth_safe leaves every identity the memory supports a support.
ArchiveKeepsTruth ==
    [][\A i \in Identity, known \in clock .. Horizon :
          /\ AllPast(known) /\ TruthState(i, clock, known) = "resolved"
          /\ \E m \in Memory : temperature[m] # "archived" /\ temperature'[m] = "archived"
          => TruthState(i, clock, known)' = "resolved"]_vars

\* The temperature retrieval filters by and the audit events current_truth
\* filters by agree on which memories are archived.
ArchiveAgreement ==
    \A m \in Memory : temperature[m] = "archived" <=> Archived(m, Horizon)

\* What the documents say of the program and the program does not do.

\* Once a memory is superseded under its key, the value it gave is no longer
\* current truth beside the value that replaces it.
SupersededIsNotCurrent ==
    \A c, e \in {x \in Claim : claims[x].status \in {"accepted", "contested"}} :
        LET old == memories[MemoryOf(c)]
            new == memories[MemoryOf(e)]
        IN  ~ /\ old.status = "superseded" /\ new.status = "active"
              /\ old.key = new.key /\ IdentityOf(c) = IdentityOf(e)

\* The claims of a text that was edited are history: what is accepted of a
\* memory is what its last text says.
LatestTextIsTruth ==
    \A c \in Claim : claims[c].status \in {"accepted", "contested"} =>
        EditionOf(c) = Len(memories[MemoryOf(c)].texts)

\* What an active memory asserts is answered within its validity only.
TruthRespectsValidity ==
    \A i \in Identity, valid \in 1 .. MaxClock : \A p \in View(i, valid, Horizon) :
        LET memory == memories[MemoryOf(p[1])]
        IN  InForce(p) /\ memory.status = "active" => Covers(memory.from, memory.to, valid)

\* Every answer of the relationship judge is stored.
JudgeAnswersKept == consulted \subseteq DOMAIN possible
=============================================================================
