---------------------------- MODULE ClaimHistory ----------------------------
(***************************************************************************)
(* The rows of claims/versioning.py and the two operations that write      *)
(* them, as operators on values.  A claim is its row in `claims` (the      *)
(* current projection) together with its rows of `claim_versions` in the   *)
(* order of version_number: version n is versions[n].  Instants are        *)
(* natural numbers, one unit being the microsecond that _now() resolves.   *)
(***************************************************************************)
EXTENDS Naturals, Sequences

CONSTANT NULL                     \* SQL NULL: an open end of an interval

ASSUME NullAssumption == NULL \notin Nat

\* Statuses of domain/schemas.py ClaimStatus; "absent" is no row at all.
Status == {"candidate", "accepted", "contested", "superseded", "stale",
           "historical", "rejected"}

\* ClaimStaleState.  Truth maintenance tells only `stale' from the others;
\* suspect and moved evidence behave as "fresh" does in every operation.
StaleState == {"unknown", "fresh", "stale"}

End == Nat \cup {NULL}

Version == [status: Status, stale: StaleState, validFrom: End, validTo: End,
            from: Nat, to: End]

ClaimRow == [status: Status, stale: StaleState, validFrom: End, validTo: End,
             recorded: Nat, versions: Seq(Version)]

NoClaim == [status |-> "absent", stale |-> "unknown", validFrom |-> NULL,
            validTo |-> NULL, recorded |-> 0, versions |-> << >>]

\* _snapshot: the version row that copies the claim row at an instant.
Snapshot(claim, at) ==
    [status |-> claim.status, stale |-> claim.stale,
     validFrom |-> claim.validFrom, validTo |-> claim.validTo,
     from |-> at, to |-> NULL]

\* Mutant: version 1 is taken before the row has its fields.
RecordInitialEarly(claim) ==
    IF claim.versions # << >> THEN claim
    ELSE [claim EXCEPT !.versions = << Snapshot(NoClaim, claim.recorded) >>]

\* record_initial: version 1 at recorded_at, unless some version exists.
RecordInitial(claim) ==
    IF claim.versions # << >> THEN claim
    ELSE [claim EXCEPT !.versions = << Snapshot(claim, claim.recorded) >>]

OpenVersions(versions) == {n \in DOMAIN versions : versions[n].to = NULL}

\* The version transition closes: the open one of highest number; when every
\* version is closed record_initial returns some existing row instead.
CurrentVersion(versions) ==
    IF OpenVersions(versions) # {}
    THEN CHOOSE n \in OpenVersions(versions) :
            \A k \in OpenVersions(versions) : k <= n
    ELSE CHOOSE n \in DOMAIN versions : TRUE

\* Mutant: the moment is the clock.
MomentUnbumped(at, opened) == at

\* Two transitions in one clock tick are kept apart by a microsecond.
Moment(at, opened) == IF at <= opened THEN opened + 1 ELSE at

\* Mutant: the version that is open is rewritten.
TransitionInPlace(claim, after, at) ==
    LET versions == RecordInitial(claim).versions
        current  == CurrentVersion(versions)
    IN  [after EXCEPT !.versions =
            [versions EXCEPT ![current] = Snapshot(after, versions[current].from)]]

\* Mutant: the snapshot is taken before the row is written.
TransitionOfOldRow(claim, after, at) ==
    LET versions == RecordInitial(claim).versions
        current  == CurrentVersion(versions)
        moment   == Moment(at, versions[current].from)
    IN  [after EXCEPT !.versions =
            Append([versions EXCEPT ![current].to = moment],
                   Snapshot(claim, moment))]

\* transition: close the current version at the moment, write the new field
\* values (those of `after') to the row, append their snapshot.
Transition(claim, after, at) ==
    LET versions == RecordInitial(claim).versions
        current  == CurrentVersion(versions)
        moment   == Moment(at, versions[current].from)
    IN  [after EXCEPT !.versions =
            Append([versions EXCEPT ![current].to = moment],
                   Snapshot(after, moment))]

\* An interval [from, to) with open ends contains an instant.
Covers(from, to, instant) ==
    /\ from # NULL => from <= instant
    /\ to # NULL => instant < to

\* The versions the database knew at an instant (transaction time).
KnownVersions(claim, known) ==
    {n \in DOMAIN claim.versions :
        Covers(claim.versions[n].from, claim.versions[n].to, known)}

\* visible_versions for one claim: the version of highest transaction_from,
\* then number, among those known at `known' and valid at `valid'.
VisibleVersions(claim, valid, known) ==
    LET seen == {n \in KnownVersions(claim, known) :
                    Covers(claim.versions[n].validFrom,
                           claim.versions[n].validTo, valid)}
        Newer(n, k) ==
            \/ claim.versions[n].from > claim.versions[k].from
            \/ claim.versions[n].from = claim.versions[k].from /\ n >= k
    IN  {claim.versions[n] : n \in {x \in seen : \A k \in seen : Newer(x, k)}}
=============================================================================
