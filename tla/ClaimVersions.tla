---------------------------- MODULE ClaimVersions ----------------------------
(***************************************************************************)
(* ClaimVersionStore (claims/versioning.py) by itself: the claim table, its *)
(* append-only version table and the clock.  A caller may record a new     *)
(* claim or move an existing one to any field values; which moves the      *)
(* lifecycle really makes is the business of MemoryTruth.                  *)
(***************************************************************************)
EXTENDS ClaimHistory

CONSTANTS Claim,
          Fields,                 \* the field values callers write
          MaxClock,               \* bound on the clock
          MaxVersions             \* bound on the versions of one claim

ASSUME FieldsAssumption ==
    Fields \subseteq [status: Status, stale: StaleState, validTo: End]

ASSUME BoundsAssumption == MaxClock \in Nat \ {0} /\ MaxVersions \in Nat \ {0}

VARIABLES clock, claims

vars == <<clock, claims>>

Present(c) == claims[c].status # "absent"

\* A claim row with the given fields, overwritten in place.
With(claim, fields) ==
    [claim EXCEPT !.status = fields.status, !.stale = fields.stale,
                  !.validTo = fields.validTo]

\* Rows imported from an export that has no versions, recorded before now.
Unversioned == {With(NoClaim, fields) : fields \in Fields}

Init == /\ clock = 1
        /\ claims \in [Claim -> {NoClaim} \cup Unversioned]

\* ensure_claims stores a claim row and calls record_initial on it.
Record(c, fields) ==
    /\ ~Present(c)
    /\ claims' = [claims EXCEPT ![c] =
                    RecordInitial([With(NoClaim, fields) EXCEPT
                                      !.recorded = clock])]
    /\ UNCHANGED clock

\* transition on an existing row, with the fields its caller passes.
Move(c, fields) ==
    /\ Present(c)
    /\ Len(RecordInitial(claims[c]).versions) < MaxVersions
    /\ claims' = [claims EXCEPT ![c] =
                    Transition(claims[c], With(claims[c], fields), clock)]
    /\ UNCHANGED clock

Tick == /\ clock < MaxClock
        /\ clock' = clock + 1
        /\ UNCHANGED claims

Next ==
    \/ Tick
    \/ \E c \in Claim, fields \in Fields : Record(c, fields) \/ Move(c, fields)

Spec == Init /\ [][Next]_vars

-----------------------------------------------------------------------------

\* Every row of both tables is well formed.
TypeOK ==
    /\ clock \in Nat
    /\ claims \in [Claim -> {NoClaim} \cup ClaimRow]

\* The versions of one claim tile its transaction time: each closes strictly
\* after it opened, at the instant the next one opens, and only the last is
\* open.  So no as-known-at query falls between two versions or sees two.
Tiles(versions) ==
    \A n \in DOMAIN versions :
        IF n = Len(versions)
        THEN versions[n].to = NULL
        ELSE /\ versions[n].to = versions[n + 1].from
             /\ versions[n].from < versions[n + 1].from

\* However often a claim changes within one clock tick, its history stays a
\* tiling of transaction time (transition's bump and closing update).
HistoryTiles == \A c \in Claim : Tiles(claims[c].versions)

\* The claim row equals the version that is open, field by field.
Agrees(claim) ==
    claim.versions # << >> =>
        LET last == claim.versions[Len(claim.versions)]
        IN  last = Snapshot(claim, last.from)

\* The claim table is a projection of the history, so current-state readers
\* (conflict detection) and version readers (Current Truth) see one truth:
\* transition writes both or neither, and closes the version it replaces.
ProjectionAgrees == \A c \in Claim : Agrees(claims[c])

\* What a query known at k is told about a claim: nothing, or its field values.
Told(version) == [status |-> version.status, stale |-> version.stale,
                  validTo |-> version.validTo]

Believed(claim, k) ==
    LET known == KnownVersions(claim, k)
    IN  IF known = {} THEN NULL
        ELSE Told(claim.versions[CHOOSE n \in known : TRUE])

\* Bumped moments run ahead of the clock by at most a tick per version.
Horizon == MaxClock + MaxVersions

Log == INSTANCE BeliefLog WITH
          now <- clock, Unknown <- NULL, Belief <- Fields,
          belief <- [c \in Claim |-> [k \in 0 .. Horizon |-> Believed(claims[c], k)]]

\* The store implements the belief log: however the rows are rewritten, an
\* answer known at a past instant never changes (but for the one backfill).
ImplementsLog == Log!Spec
=============================================================================
