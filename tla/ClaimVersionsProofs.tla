------------------------- MODULE ClaimVersionsProofs -------------------------
(***************************************************************************)
(* The invariants of ClaimVersions, for every set of claims, every set of  *)
(* field values and every bound.  The inductive invariant adds to the three *)
(* properties the runs check how far a bumped moment can run ahead of the  *)
(* clock, which is what the implementation of BeliefLog rests on.          *)
(***************************************************************************)
EXTENDS ClaimVersions, TLAPS

\* Versions lie in transaction time in the order of their numbers.
Ordered(h) == \A n, k \in DOMAIN h : n < k => h[n].to <= h[k].from

\* A moment is never a tick per version ahead of the clock t.
Ahead(claim, t) ==
    /\ claim.recorded <= t
    /\ \A n \in DOMAIN claim.versions : claim.versions[n].from < t + n

\* What the store keeps true of one stored claim.
Sound(claim, t) ==
    /\ claim \in ClaimRow
    /\ Tiles(claim.versions) /\ Ordered(claim.versions)
    /\ Agrees(claim)
    /\ Ahead(claim, t)
    /\ Len(claim.versions) <= MaxVersions
    /\ Told(claim) \in Fields

\* The inductive invariant.
IInv ==
    /\ clock \in 1 .. MaxClock
    /\ claims \in [Claim -> {NoClaim} \cup ClaimRow]
    /\ \A c \in Claim : claims[c] = NoClaim \/ Sound(claims[c], clock)

\* The version table of one claim after transition: the last version closed
\* at m, version v appended.
Extended(h, m, v) == Append([h EXCEPT ![Len(h)].to = m], v)

\* g is the tiling h with its last version closed at m and v appended: the
\* store rewrites no version but the one it closes.
Appended(h, g, m, v) ==
    /\ g \in Seq(Version) /\ Tiles(g) /\ Ordered(g)
    /\ Len(g) = Len(h) + 1
    /\ g[Len(g)] = v
    /\ \A n \in DOMAIN h : g[n] = IF n = Len(h) THEN [h[n] EXCEPT !.to = m]
                                  ELSE h[n]

\* In a tiling the version transition closes is the last one.
LEMMA CurrentIsLast ==
    ASSUME NEW h \in Seq(Version), h # << >>, Tiles(h)
    PROVE  CurrentVersion(h) = Len(h)
<1>1. Len(h) \in DOMAIN h
  OBVIOUS
<1>2. \A n \in DOMAIN h : n # Len(h) => n + 1 \in DOMAIN h
  OBVIOUS
<1>a. \A n \in DOMAIN h : h[n] \in Version
  OBVIOUS
<1>3. ASSUME NEW n \in DOMAIN h, n # Len(h) PROVE h[n].to # NULL
  <2>1. h[n].to = h[n + 1].from /\ n + 1 \in DOMAIN h
    BY <1>2, <1>3 DEF Tiles
  <2>2. h[n + 1].from \in Nat
    BY <2>1, <1>a DEF Version
  <2> QED BY <2>1, <2>2, NullAssumption
<1>4. OpenVersions(h) = {Len(h)}
  BY <1>1, <1>3 DEF OpenVersions, Tiles
<1> QED BY <1>4 DEF CurrentVersion

\* Closing the last version of a tiling at a later moment and appending an
\* open version from that moment gives a tiling, and rewrites nothing else.
LEMMA AppendTiles ==
    ASSUME NEW h \in Seq(Version), h # << >>, Tiles(h), Ordered(h),
           NEW m \in Nat, h[Len(h)].from < m,
           NEW v \in Version, v.from = m, v.to = NULL
    PROVE  Appended(h, Extended(h, m, v), m, v)
<1> DEFINE k == [h EXCEPT ![Len(h)].to = m]
           g == Append(k, v)
<1>0. Extended(h, m, v) = g
  BY DEF Extended
<1>1. Len(h) \in DOMAIN h /\ Len(h) \in Nat
  OBVIOUS
<1>a. \A n \in DOMAIN h : h[n] \in Version
  OBVIOUS
<1>2. [h[Len(h)] EXCEPT !.to = m] \in Version
  <2>1. h[Len(h)] \in Version
    BY <1>1, <1>a
  <2> HIDE DEF k, g
  <2> QED BY <2>1 DEF Version, End
<1>3. k \in Seq(Version) /\ Len(k) = Len(h)
  BY <1>1, <1>2
<1>4. g \in Seq(Version) /\ Len(g) = Len(h) + 1 /\ g[Len(h) + 1] = v
  <2> HIDE DEF k
  <2> QED BY <1>3
<1>5. ASSUME NEW n \in DOMAIN h
      PROVE  g[n] = IF n = Len(h) THEN [h[n] EXCEPT !.to = m] ELSE h[n]
  BY <1>3, <1>5
<1>6. ASSUME NEW n \in DOMAIN g
      PROVE  IF n = Len(g) THEN g[n].to = NULL
             ELSE g[n].to = g[n + 1].from /\ g[n].from < g[n + 1].from
  <2>1. n \in 1 .. Len(h) + 1
    BY <1>4
  <2>2. CASE n = Len(h) + 1
    BY <2>2, <1>4
  <2>3. CASE n = Len(h)
    <3>1. g[n] = [h[n] EXCEPT !.to = m] /\ g[n + 1] = v
      BY <2>3, <1>1, <1>4, <1>5
    <3>2. h[n] \in Version
      BY <2>3, <1>1, <1>a
    <3>3. g[n].to = m /\ g[n].from = h[n].from
      BY <3>1, <3>2 DEF Version
    <3> QED BY <3>1, <3>3, <2>3, <1>4
  <2>4. CASE n \in 1 .. Len(h) - 1
    <3>1. n \in DOMAIN h /\ n + 1 \in DOMAIN h /\ n # Len(h)
      BY <2>4
    <3>2. h[n].to = h[n + 1].from /\ h[n].from < h[n + 1].from
      BY <3>1 DEF Tiles
    <3>3. g[n] = h[n]
      BY <3>1, <1>5
    <3>4. g[n + 1].from = h[n + 1].from
      BY <3>1, <1>5 DEF Version
    <3> QED BY <3>2, <3>3, <3>4, <2>4, <1>4
  <2> QED BY <2>1, <2>2, <2>3, <2>4, <1>1
<1>7. Tiles(g)
  BY <1>6 DEF Tiles
<1>8. ASSUME NEW n \in DOMAIN g, NEW j \in DOMAIN g, n < j
      PROVE  g[n].to <= g[j].from
  <2>1. n \in 1 .. Len(h) /\ j \in 1 .. Len(h) + 1 /\ n \in DOMAIN h
    BY <1>1, <1>4, <1>8
  <2>2. CASE j = Len(h) + 1 /\ n = Len(h)
    <3>1. n # Len(g) /\ j = n + 1 /\ g[j] = v
      BY <2>2, <1>4, <1>1
    <3>2. g[n].to = g[j].from /\ g[j].from = m
      BY <3>1, <1>6
    <3> HIDE DEF g
    <3> QED BY <3>2
  <2>3. CASE j = Len(h) + 1 /\ n # Len(h)
    <3>1. g[n] = h[n] /\ g[j].from = m
      BY <2>1, <2>3, <1>4, <1>5
    <3>2. h[n].to <= h[Len(h)].from
      BY <2>1, <2>3, <1>1 DEF Ordered
    <3>3. h[n].to \in Nat
      <4>1. n + 1 \in DOMAIN h /\ h[n].to = h[n + 1].from
        BY <2>1, <2>3 DEF Tiles
      <4> QED BY <4>1, <1>a DEF Version
    <3>4. h[Len(h)].from \in Nat
      BY <1>1, <1>a DEF Version
    <3> HIDE DEF g
    <3> QED BY <3>1, <3>2, <3>3, <3>4
  <2>4. CASE j # Len(h) + 1
    <3>1. j \in DOMAIN h /\ n # Len(h)
      BY <2>1, <2>4, <1>8
    <3>2. g[n] = h[n] /\ g[j].from = h[j].from
      BY <2>1, <3>1, <1>5, <1>a DEF Version
    <3> QED BY <2>1, <3>1, <3>2, <1>8 DEF Ordered
  <2> QED BY <2>2, <2>3, <2>4
<1>9. Ordered(g)
  BY <1>8 DEF Ordered
<1> HIDE DEF g
<1> QED BY <1>0, <1>4, <1>5, <1>7, <1>9 DEF Appended

\* The version that record_initial and transition append copies its row.
LEMMA SnapshotType ==
    ASSUME NEW claim \in ClaimRow, NEW at \in Nat
    PROVE  /\ Snapshot(claim, at) \in Version
           /\ Snapshot(claim, at).from = at /\ Snapshot(claim, at).to = NULL
  BY DEF Snapshot, ClaimRow, Version, End

\* record_initial gives a stored claim a first version and keeps it sound.
LEMMA RecordInitialSound ==
    ASSUME NEW claim \in ClaimRow, NEW t \in Nat,
           claim.recorded <= t, Told(claim) \in Fields,
           Sound(claim, t) \/ claim.versions = << >>
    PROVE  /\ Sound(RecordInitial(claim), t)
           /\ RecordInitial(claim).versions # << >>
<1> DEFINE s == Snapshot(claim, claim.recorded)
           r == [claim EXCEPT !.versions = << s >>]
<1>1. CASE claim.versions # << >>
  BY <1>1 DEF RecordInitial
<1>2. CASE claim.versions = << >>
  <2>1. claim.recorded \in Nat /\ claim.recorded <= t
    BY <1>2 DEF ClaimRow, Sound, Ahead
  <2>2. s \in Version /\ s.from = claim.recorded /\ s.to = NULL
    BY <2>1, SnapshotType
  <2>3. << s >> \in Seq(Version) /\ Len(<< s >>) = 1 /\ << s >>[1] = s
        /\ DOMAIN << s >> = {1}
    <3> HIDE DEF s
    <3> QED BY <2>2
  <2>4. /\ r \in ClaimRow /\ r.versions = << s >>
        /\ r.recorded = claim.recorded
        /\ Snapshot(r, claim.recorded) = s
        /\ Told(r) = Told(claim)
    BY <2>3 DEF ClaimRow, Snapshot, Told
  <2>5. Tiles(<< s >>) /\ Ordered(<< s >>)
    <3> HIDE DEF s
    <3> QED BY <2>2, <2>3 DEF Tiles, Ordered
  <2>6. Agrees(r)
    <3> HIDE DEF s, r
    <3> QED BY <2>2, <2>3, <2>4 DEF Agrees
  <2>7. Ahead(r, t)
    <3> HIDE DEF s, r
    <3> QED BY <2>1, <2>2, <2>3, <2>4 DEF Ahead
  <2>8. RecordInitial(claim) = r
    BY <1>2 DEF RecordInitial
  <2>9. << s >> # << >>
    BY <2>3
  <2> HIDE DEF s, r
  <2>10. Len(r.versions) <= MaxVersions
    BY <2>3, <2>4, BoundsAssumption
  <2>11. Tiles(r.versions) /\ Ordered(r.versions) /\ r.versions # << >>
    BY <2>4, <2>5, <2>9
  <2>12. Sound(r, t)
    BY <2>4, <2>6, <2>7, <2>10, <2>11 DEF Sound
  <2> QED BY <2>8, <2>11, <2>12
<1> QED BY <1>1, <1>2

\* With overwrites the three mutable fields and nothing else.
LEMMA WithType ==
    ASSUME NEW claim \in ClaimRow, NEW fields \in Fields
    PROVE  /\ With(claim, fields) \in ClaimRow
           /\ With(claim, fields).recorded = claim.recorded
           /\ With(claim, fields).versions = claim.versions
           /\ With(claim, fields).status = fields.status
           /\ With(claim, fields).stale = fields.stale
           /\ Told(With(claim, fields)) = fields
  BY FieldsAssumption DEF With, ClaimRow, Told

\* transition closes the last version of the (backfilled) claim at a moment
\* at or after the clock, and opens the next there with the new fields.
LEMMA TransitionResult ==
    ASSUME NEW claim \in ClaimRow, NEW t \in Nat, NEW fields \in Fields,
           claim.recorded <= t, Told(claim) \in Fields,
           Sound(claim, t) \/ claim.versions = << >>
    PROVE  LET h == RecordInitial(claim).versions
               m == Moment(t, h[Len(h)].from)
               after == With(claim, fields)
           IN  /\ h \in Seq(Version) /\ h # << >> /\ Tiles(h) /\ Ordered(h)
               /\ m \in Nat /\ t <= m /\ m < t + Len(h) + 1
               /\ h[Len(h)].from < m
               /\ Transition(claim, after, t) =
                    [after EXCEPT !.versions =
                        Extended(h, m, Snapshot(after, m))]
<1> DEFINE h == RecordInitial(claim).versions
           m == Moment(t, h[Len(h)].from)
<1>1. Sound(RecordInitial(claim), t) /\ h # << >>
  BY RecordInitialSound
<1>2. h \in Seq(Version) /\ Tiles(h) /\ Ordered(h)
  BY <1>1 DEF Sound, ClaimRow
<1>3. Len(h) \in DOMAIN h /\ Len(h) \in Nat \ {0}
  BY <1>1, <1>2
<1>4. \A n \in DOMAIN h : h[n] \in Version
  BY <1>2
<1>5. h[Len(h)].from \in Nat
  BY <1>3, <1>4 DEF Version
<1>6. h[Len(h)].from < t + Len(h)
  BY <1>1, <1>3 DEF Sound, Ahead
<1>7. m \in Nat /\ t <= m /\ m < t + Len(h) + 1 /\ h[Len(h)].from < m
  <2> HIDE DEF h
  <2> QED BY <1>3, <1>5, <1>6 DEF Moment
<1>8. CurrentVersion(h) = Len(h)
  BY <1>1, <1>2, CurrentIsLast
<1>9. Transition(claim, With(claim, fields), t) =
        [With(claim, fields) EXCEPT !.versions =
            Extended(h, m, Snapshot(With(claim, fields), m))]
  BY <1>8 DEF Transition, Extended
<1> QED BY <1>1, <1>2, <1>7, <1>9

\* A transition keeps a stored claim sound.
LEMMA TransitionSound ==
    ASSUME NEW claim \in ClaimRow, NEW t \in Nat, NEW fields \in Fields,
           claim.recorded <= t, Told(claim) \in Fields,
           Sound(claim, t) \/ claim.versions = << >>,
           Len(RecordInitial(claim).versions) < MaxVersions
    PROVE  Sound(Transition(claim, With(claim, fields), t), t)
<1> DEFINE h == RecordInitial(claim).versions
           m == Moment(t, h[Len(h)].from)
           after == With(claim, fields)
           v == Snapshot(after, m)
           g == Extended(h, m, v)
           e == Transition(claim, after, t)
<1>1. /\ h \in Seq(Version) /\ h # << >> /\ Tiles(h) /\ Ordered(h)
      /\ m \in Nat /\ t <= m /\ m < t + Len(h) + 1
      /\ h[Len(h)].from < m
      /\ e = [after EXCEPT !.versions = g]
  BY TransitionResult
<1>2. /\ after \in ClaimRow /\ after.recorded = claim.recorded
      /\ Told(after) = fields
  BY WithType
<1>3. v \in Version /\ v.from = m /\ v.to = NULL
  BY <1>1, <1>2, SnapshotType
<1>4. /\ g \in Seq(Version) /\ Tiles(g) /\ Ordered(g)
      /\ Len(g) = Len(h) + 1 /\ g[Len(g)] = v
      /\ \A n \in DOMAIN h : g[n] = IF n = Len(h)
                                    THEN [h[n] EXCEPT !.to = m] ELSE h[n]
  <2> HIDE DEF h, m, v
  <2>1. Appended(h, Extended(h, m, v), m, v)
    BY <1>1, <1>3, AppendTiles
  <2> QED BY <2>1 DEF Appended
<1>5. e \in ClaimRow /\ e.versions = g /\ e.recorded = claim.recorded
  <2> HIDE DEF g, after
  <2>1. e \in ClaimRow /\ e.versions = g /\ e.recorded = after.recorded
    BY <1>1, <1>2, <1>4 DEF ClaimRow
  <2> QED BY <2>1, <1>2
<1>6. Agrees(e)
  <2>1. Snapshot(e, m) = v
    <3> HIDE DEF g, after, m
    <3> QED BY <1>1, <1>2, <1>4 DEF Snapshot, ClaimRow
  <2> HIDE DEF e, g, v
  <2> QED BY <1>3, <1>4, <1>5, <2>1 DEF Agrees
<1>7. Ahead(e, t)
  <2>1. claim.recorded <= t /\ \A n \in DOMAIN h : h[n].from < t + n
    <3>1. Sound(RecordInitial(claim), t)
      BY RecordInitialSound
    <3>2. RecordInitial(claim).recorded = claim.recorded
      BY DEF RecordInitial, ClaimRow
    <3> QED BY <3>1, <3>2 DEF Sound, Ahead
  <2>2. ASSUME NEW n \in DOMAIN g PROVE g[n].from < t + n
    <3>1. CASE n \in DOMAIN h
      <4>1. h[n] \in Version
        BY <3>1, <1>1
      <4>2. g[n].from = h[n].from
        BY <3>1, <4>1, <1>4 DEF Version
      <4> QED BY <2>1, <3>1, <4>2
    <3>2. CASE n \notin DOMAIN h
      <4>1. n = Len(h) + 1 /\ n = Len(g)
        <5> HIDE DEF g, h
        <5> QED BY <3>2, <1>1, <1>4
      <4> QED BY <4>1, <1>1, <1>3, <1>4
    <3> QED BY <3>1, <3>2
  <2> HIDE DEF e, g, h
  <2> QED BY <2>1, <2>2, <1>5 DEF Ahead
<1>8. Len(g) <= MaxVersions
  <2> HIDE DEF g, h
  <2>1. Len(h) < MaxVersions
    BY DEF h
  <2> QED BY <2>1, <1>1, <1>4, BoundsAssumption
<1>9. Told(e) = fields
  <2> HIDE DEF g, after
  <2> QED BY <1>1, <1>2 DEF Told, ClaimRow
<1>10. Sound(e, t)
  <2> HIDE DEF e, g
  <2> QED BY <1>4, <1>5, <1>6, <1>7, <1>8, <1>9 DEF Sound
<1> QED BY <1>10

\* A row imported without versions is only waiting for its first version.
LEMMA UnversionedSound ==
    ASSUME NEW fields \in Fields, NEW t \in Nat
    PROVE  /\ With(NoClaim, fields) \in ClaimRow
           /\ With(NoClaim, fields).versions = << >>
           /\ Sound(With(NoClaim, fields), t)
<1> DEFINE d == With(NoClaim, fields)
<1>0. /\ fields \in [status: Status, stale: StaleState, validTo: End]
      /\ NULL \in End /\ << >> \in Seq(Version)
  BY FieldsAssumption DEF End
<1>1. d \in ClaimRow /\ d.versions = << >> /\ d.recorded = 0 /\ Told(d) = fields
  BY <1>0 DEF With, NoClaim, ClaimRow, Told
<1> HIDE DEF d
<1>2. DOMAIN d.versions = {} /\ Len(d.versions) = 0
  BY <1>1
<1>3. Tiles(d.versions) /\ Ordered(d.versions)
  BY <1>2 DEF Tiles, Ordered
<1>4. Agrees(d) /\ Ahead(d, t) /\ Len(d.versions) <= MaxVersions
  BY <1>1, <1>2, BoundsAssumption DEF Agrees, Ahead
<1>5. Sound(d, t)
  BY <1>1, <1>3, <1>4 DEF Sound
<1> QED BY <1>1, <1>5 DEF d

\* ensure_claims stores a claim recorded now, with its first version.
LEMMA RecordSound ==
    ASSUME NEW fields \in Fields, NEW t \in Nat
    PROVE  LET d == [With(NoClaim, fields) EXCEPT !.recorded = t] IN
           /\ d \in ClaimRow /\ d.versions = << >> /\ d.recorded = t
           /\ Told(d) = fields
           /\ Sound(RecordInitial(d), t)
<1> DEFINE d == [With(NoClaim, fields) EXCEPT !.recorded = t]
<1>0. /\ fields \in [status: Status, stale: StaleState, validTo: End]
      /\ NULL \in End /\ << >> \in Seq(Version)
  BY FieldsAssumption DEF End
<1>1. d \in ClaimRow /\ d.versions = << >> /\ d.recorded = t /\ Told(d) = fields
  BY <1>0 DEF With, NoClaim, ClaimRow, Told
<1> HIDE DEF d
<1>2. Sound(RecordInitial(d), t)
  BY <1>1, RecordInitialSound
<1> QED BY <1>1, <1>2 DEF d

\* An empty store, or one of imported rows without versions, is sound.
LEMMA InitInv == Init => IInv
<1> SUFFICES ASSUME Init PROVE IInv
  OBVIOUS
<1>1. clock \in 1 .. MaxClock
  BY BoundsAssumption DEF Init
<1>2. ASSUME NEW c \in Claim, claims[c] # NoClaim
      PROVE  claims[c] \in ClaimRow /\ Sound(claims[c], clock)
  <2>1. PICK fields \in Fields : claims[c] = With(NoClaim, fields)
    BY <1>2 DEF Init, Unversioned
  <2> QED BY <2>1, <1>1, UnversionedSound
<1> QED BY <1>1, <1>2 DEF IInv, Init

\* As the clock advances a sound claim stays sound.
LEMMA SoundLater ==
    ASSUME NEW claim, NEW t \in Nat, Sound(claim, t)
    PROVE  Sound(claim, t + 1)
<1>1. claim.recorded \in Nat
  BY DEF Sound, ClaimRow
<1>2. \A n \in DOMAIN claim.versions :
        claim.versions[n] \in Version /\ n \in Nat
  BY DEF Sound, ClaimRow
<1>3. \A n \in DOMAIN claim.versions :
        claim.versions[n].from \in Nat /\ n \in Nat
  BY <1>2 DEF Version
<1>4. Ahead(claim, t + 1)
  BY <1>1, <1>3 DEF Sound, Ahead
<1> QED BY <1>4 DEF Sound

\* Every step of the store keeps its claims sound.
LEMMA StepInv == IInv /\ [Next]_vars => IInv'
<1> SUFFICES ASSUME IInv, [Next]_vars PROVE IInv'
  OBVIOUS
<1>1. CASE Tick
  <2>1. clock \in Nat /\ clock' = clock + 1 /\ clock' \in 1 .. MaxClock
    BY <1>1, BoundsAssumption DEF Tick, IInv
  <2>2. claims' = claims
    BY <1>1 DEF Tick
  <2> QED BY <2>1, <2>2, SoundLater DEF IInv
<1>2. ASSUME NEW c \in Claim, NEW fields \in Fields, Record(c, fields)
      PROVE  IInv'
  <2> DEFINE d == RecordInitial([With(NoClaim, fields) EXCEPT !.recorded = clock])
  <2>1. clock \in Nat /\ clock' = clock
    BY <1>2 DEF IInv, Record
  <2>2. Sound(d, clock) /\ d \in ClaimRow
    BY <2>1, RecordSound DEF Sound
  <2>3. claims' = [claims EXCEPT ![c] = d]
    BY <1>2 DEF Record
  <2> HIDE DEF d
  <2> QED BY <2>1, <2>2, <2>3 DEF IInv
<1>3. ASSUME NEW c \in Claim, NEW fields \in Fields, Move(c, fields)
      PROVE  IInv'
  <2> DEFINE e == Transition(claims[c], With(claims[c], fields), clock)
  <2>1. clock \in Nat /\ clock' = clock
    BY <1>3 DEF IInv, Move
  <2>2. Sound(claims[c], clock)
    BY <1>3 DEF IInv, Move, Present, NoClaim
  <2>3. claims[c] \in ClaimRow /\ claims[c].recorded <= clock
        /\ Told(claims[c]) \in Fields
    BY <2>2 DEF Sound, Ahead
  <2>4. Len(RecordInitial(claims[c]).versions) < MaxVersions
    BY <1>3 DEF Move
  <2>5. Sound(e, clock) /\ e \in ClaimRow
    <3>1. Sound(e, clock)
      BY <2>1, <2>2, <2>3, <2>4, TransitionSound
    <3> QED BY <3>1 DEF Sound
  <2>6. claims' = [claims EXCEPT ![c] = e]
    BY <1>3 DEF Move
  <2> HIDE DEF e
  <2> QED BY <2>1, <2>5, <2>6 DEF IInv
<1>4. CASE UNCHANGED vars
  BY <1>4 DEF vars, IInv
<1> QED BY <1>1, <1>2, <1>3, <1>4 DEF Next

\* The strengthened invariant holds of every behaviour of the store.
THEOREM InvariantHolds == Spec => []IInv
  BY InitInv, StepInv, PTL DEF Spec

\* Both tables stay well typed.
THEOREM TypeCorrect == Spec => []TypeOK
<1>1. IInv => TypeOK
  BY DEF IInv, TypeOK
<1> QED BY <1>1, InvariantHolds, PTL

\* However often a claim moves within a tick, its versions tile its
\* transaction time.
THEOREM HistoryTilesAlways == Spec => []HistoryTiles
<1>1. ASSUME IInv PROVE HistoryTiles
  <2>1. Tiles(NoClaim.versions)
    BY DEF NoClaim, Tiles
  <2> QED BY <1>1, <2>1 DEF IInv, HistoryTiles, Sound
<1> QED BY <1>1, InvariantHolds, PTL

\* The claim row and its open version never disagree.
THEOREM ProjectionAgreesAlways == Spec => []ProjectionAgrees
<1>1. ASSUME IInv PROVE ProjectionAgrees
  <2>1. Agrees(NoClaim)
    BY DEF NoClaim, Agrees
  <2> QED BY <1>1, <2>1 DEF IInv, ProjectionAgrees, Sound
<1> QED BY <1>1, InvariantHolds, PTL

-----------------------------------------------------------------------------
\* The implementation of BeliefLog.

\* Once its first version is written, a claim is believed from recorded_at on.
LEMMA BelievedFirst ==
    ASSUME NEW claim \in ClaimRow, claim.versions = << >>, NEW k \in Nat
    PROVE  Believed(RecordInitial(claim), k) =
              IF k < claim.recorded THEN NULL ELSE Told(claim)
<1> DEFINE s == Snapshot(claim, claim.recorded)
           r == RecordInitial(claim)
<1>1. claim.recorded \in Nat
  BY DEF ClaimRow
<1>2. s.from = claim.recorded /\ s.to = NULL /\ Told(s) = Told(claim)
  BY <1>1, SnapshotType DEF Told, Snapshot
<1>3. r.versions = << s >>
  BY DEF RecordInitial, ClaimRow
<1> HIDE DEF s, r
<1>4. DOMAIN r.versions = {1} /\ r.versions[1] = s
  BY <1>3
<1>5. KnownVersions(r, k) = IF k < claim.recorded THEN {} ELSE {1}
  <2>1. Covers(s.from, s.to, k) <=> ~(k < claim.recorded)
    BY <1>1, <1>2, NullAssumption DEF Covers
  <2> QED BY <2>1, <1>4 DEF KnownVersions
<1>6. Believed(r, k) = IF k < claim.recorded THEN NULL ELSE Told(claim)
  <2>1. (CHOOSE n \in {1} : TRUE) = 1 /\ {1} # {}
    OBVIOUS
  <2>2. CASE k < claim.recorded
    BY <1>5, <2>2 DEF Believed
  <2>3. CASE ~(k < claim.recorded)
    BY <1>2, <1>4, <1>5, <2>1, <2>3 DEF Believed
  <2> QED BY <2>2, <2>3
<1> QED BY <1>6 DEF r

\* Appending a version changes what is believed from its moment on only.
LEMMA BelievedAppended ==
    ASSUME NEW claim \in ClaimRow, NEW e \in ClaimRow, NEW m \in Nat,
           NEW v \in Version, v.from = m, v.to = NULL,
           claim.versions # << >>, Tiles(claim.versions),
           claim.versions[Len(claim.versions)].from < m,
           Appended(claim.versions, e.versions, m, v),
           NEW k \in Nat
    PROVE  Believed(e, k) = IF k < m THEN Believed(claim, k) ELSE Told(v)
<1> DEFINE h == claim.versions
           g == e.versions
<1>1. /\ h \in Seq(Version) /\ g \in Seq(Version) /\ h # << >>
      /\ Tiles(h) /\ Tiles(g) /\ Ordered(g) /\ Len(g) = Len(h) + 1
      /\ g[Len(g)] = v /\ h[Len(h)].from < m
      /\ \A n \in DOMAIN h : g[n] = IF n = Len(h) THEN [h[n] EXCEPT !.to = m]
                                     ELSE h[n]
  BY DEF Appended, ClaimRow
<1> HIDE DEF h, g
<1>2. \A n \in DOMAIN h : h[n] \in Version
  BY <1>1
<1>3. \A n \in DOMAIN g : g[n] \in Version
  BY <1>1
<1>4. /\ Len(h) \in Nat \ {0} /\ DOMAIN h = 1 .. Len(h)
      /\ DOMAIN g = 1 .. Len(h) + 1
  BY <1>1
<1>5. CASE k < m
  <2>1. ASSUME NEW n \in DOMAIN h
        PROVE  /\ Covers(g[n].from, g[n].to, k) <=> Covers(h[n].from, h[n].to, k)
               /\ Told(g[n]) = Told(h[n])
    <3>1. CASE n = Len(h)
      <4>1. /\ g[n].from = h[n].from /\ g[n].to = m /\ h[n].to = NULL
            /\ Told(g[n]) = Told(h[n])
        BY <3>1, <1>1, <1>2 DEF Version, Told, Tiles
      <4> QED BY <4>1, <1>5, NullAssumption DEF Covers
    <3>2. CASE n # Len(h)
      BY <3>2, <1>1
    <3> QED BY <3>1, <3>2
  <2>2. ~Covers(g[Len(g)].from, g[Len(g)].to, k)
    BY <1>1, <1>5, NullAssumption DEF Covers
  <2>3. KnownVersions(e, k) = KnownVersions(claim, k)
    <3>1. ASSUME NEW n
          PROVE  (n \in DOMAIN g /\ Covers(g[n].from, g[n].to, k)) <=>
                 (n \in DOMAIN h /\ Covers(h[n].from, h[n].to, k))
      BY <2>1, <2>2, <1>1, <1>4
    <3> QED BY <3>1 DEF KnownVersions, h, g
  <2>4. ASSUME KnownVersions(claim, k) # {}
        PROVE  Told(g[CHOOSE n \in KnownVersions(claim, k) : TRUE]) =
               Told(h[CHOOSE n \in KnownVersions(claim, k) : TRUE])
    <3>1. (CHOOSE n \in KnownVersions(claim, k) : TRUE) \in DOMAIN h
      BY <2>4 DEF KnownVersions, h
    <3> QED BY <3>1, <2>1
  <2> QED BY <1>5, <2>3, <2>4 DEF Believed, h, g
<1>6. CASE ~(k < m)
  <2>1. ASSUME NEW n \in DOMAIN g, n # Len(g)
        PROVE  ~Covers(g[n].from, g[n].to, k)
    <3>1. n + 1 \in DOMAIN g /\ Len(g) \in DOMAIN g /\ n < Len(g)
      BY <2>1, <1>1, <1>4
    <3>2. g[n].to = g[n + 1].from
      BY <3>1, <2>1, <1>1 DEF Tiles
    <3>3. g[n].to \in Nat
      BY <3>1, <3>2, <1>3 DEF Version
    <3>4. g[n].to <= m
      BY <3>1, <2>1, <1>1 DEF Ordered
    <3> QED BY <3>3, <3>4, <1>6, NullAssumption DEF Covers
  <2>2. Covers(g[Len(g)].from, g[Len(g)].to, k) /\ Len(g) \in DOMAIN g
    BY <1>1, <1>4, <1>6 DEF Covers
  <2>3. KnownVersions(e, k) = {Len(g)}
    BY <2>1, <2>2 DEF KnownVersions, g
  <2>4. (CHOOSE n \in {Len(g)} : TRUE) = Len(g) /\ {Len(g)} # {}
    OBVIOUS
  <2> QED BY <1>1, <1>6, <2>3, <2>4 DEF Believed, g
<1> QED BY <1>5, <1>6

\* What BeliefLog sees of a transition: from its moment on, at or after the
\* clock and within the horizon, the new fields; before it, the history of
\* the claim, backfilled if there was none.
LEMMA BelievedMoved ==
    ASSUME NEW claim \in ClaimRow, NEW t \in 0 .. MaxClock,
           NEW fields \in Fields, Sound(claim, t),
           Len(RecordInitial(claim).versions) < MaxVersions
    PROVE  \E m \in 0 .. Horizon :
              /\ t <= m /\ claim.recorded < m + 1
              /\ claim.versions = << >> => claim.recorded < m
              /\ \A k \in Nat :
                    Believed(Transition(claim, With(claim, fields), t), k) =
                        IF k < m THEN Believed(RecordInitial(claim), k)
                        ELSE fields
<1> DEFINE r == RecordInitial(claim)
           h == r.versions
           m == Moment(t, h[Len(h)].from)
           after == With(claim, fields)
           v == Snapshot(after, m)
           e == Transition(claim, after, t)
<1>1. t \in Nat /\ t <= MaxClock /\ claim.recorded \in Nat /\ claim.recorded <= t
      /\ Told(claim) \in Fields
  BY BoundsAssumption DEF Sound, Ahead, ClaimRow
<1>2. /\ h \in Seq(Version) /\ h # << >> /\ Tiles(h) /\ Ordered(h)
      /\ m \in Nat /\ t <= m /\ m < t + Len(h) + 1 /\ h[Len(h)].from < m
      /\ e = [after EXCEPT !.versions = Extended(h, m, v)]
  BY <1>1, TransitionResult
<1>3. after \in ClaimRow /\ Told(after) = fields
  BY WithType
<1>4. v \in Version /\ v.from = m /\ v.to = NULL /\ Told(v) = fields
  <2> HIDE DEF m, after
  <2> QED BY <1>2, <1>3, SnapshotType DEF Snapshot, Told
<1>5. Appended(h, Extended(h, m, v), m, v)
  <2> HIDE DEF h, m, v
  <2> QED BY <1>2, <1>4, AppendTiles
<1>6. e \in ClaimRow /\ e.versions = Extended(h, m, v)
  <2>1. Extended(h, m, v) \in Seq(Version)
    BY <1>5 DEF Appended
  <2> HIDE DEF h, m, v, after, e
  <2> QED BY <1>2, <1>3, <2>1 DEF ClaimRow
<1>7. r \in ClaimRow
  BY <1>1, RecordInitialSound DEF Sound
<1>8. ASSUME NEW k \in Nat
      PROVE  Believed(e, k) = IF k < m THEN Believed(r, k) ELSE fields
  <2>1. Appended(r.versions, e.versions, m, v)
    BY <1>5, <1>6
  <2>3. /\ m \in Nat /\ r.versions # << >> /\ Tiles(r.versions)
        /\ r.versions[Len(r.versions)].from < m
    BY <1>2
  <2>4. /\ v \in Version /\ v.from = m /\ v.to = NULL
        /\ r \in ClaimRow /\ e \in ClaimRow
    BY <1>4, <1>6, <1>7
  <2> HIDE DEF r, m, v, e
  <2>2. Believed(e, k) = IF k < m THEN Believed(r, k) ELSE Told(v)
    BY <2>1, <2>3, <2>4, BelievedAppended
  <2> QED BY <1>4, <2>2
<1>9. m \in 0 .. Horizon
  <2>1. Len(h) < MaxVersions /\ Len(h) \in Nat
    BY <1>2
  <2> HIDE DEF h, m
  <2> QED BY <1>1, <1>2, <2>1, BoundsAssumption DEF Horizon
<1>10. claim.versions = << >> => claim.recorded < m
  <2>1. ASSUME claim.versions = << >> PROVE h[Len(h)].from = claim.recorded
    <3>1. h = << Snapshot(claim, claim.recorded) >>
      BY <2>1 DEF RecordInitial, ClaimRow
    <3>2. Len(h) = 1 /\ h[1] = Snapshot(claim, claim.recorded)
      <4> HIDE DEF h
      <4> QED BY <3>1
    <3> QED BY <3>2, <1>1, SnapshotType
  <2> HIDE DEF h, m
  <2> QED BY <1>2, <2>1
<1> HIDE DEF r, h, m, after, v, e
<1>11. claim.recorded < m + 1
  BY <1>1, <1>2
<1>12. \A k \in Nat : Believed(e, k) = IF k < m THEN Believed(r, k) ELSE fields
  BY <1>8
<1>13. t <= m
  BY <1>2
<1> QED BY <1>9, <1>10, <1>11, <1>12, <1>13 DEF e, r, after

\* A claim without versions is believed nothing about.
LEMMA BelievedNothing ==
    ASSUME NEW claim, claim.versions = << >>, NEW k
    PROVE  Believed(claim, k) = NULL
<1>1. KnownVersions(claim, k) = {}
  BY DEF KnownVersions
<1> QED BY <1>1 DEF Believed

\* The refinement mapping.
belief == [c \in Claim |-> [k \in 0 .. Horizon |-> Believed(claims[c], k)]]

\* The instants of the belief log are natural numbers.
LEMMA InstantsNat == Horizon \in Nat /\ 0 .. Horizon \subseteq Nat
                     /\ 1 .. MaxClock \subseteq 0 .. Horizon
  BY BoundsAssumption DEF Horizon

\* Nothing is believed in an initial store.
LEMMA InitLog == Init => Log!Init
<1> SUFFICES ASSUME Init PROVE Log!Init
  OBVIOUS
<1>1. clock \in 0 .. Horizon
  BY InstantsNat, BoundsAssumption DEF Init
<1>2. ASSUME NEW c \in Claim PROVE claims[c].versions = << >>
  <2>1. CASE claims[c] = NoClaim
    BY <2>1 DEF NoClaim
  <2>2. CASE claims[c] # NoClaim
    <3>1. PICK fields \in Fields : claims[c] = With(NoClaim, fields)
      BY <2>2 DEF Init, Unversioned
    <3> QED BY <3>1, UnversionedSound
  <2> QED BY <2>1, <2>2
<1>3. belief = [c \in Claim |-> [k \in 0 .. Horizon |-> NULL]]
  BY <1>2, BelievedNothing DEF belief
<1> QED BY <1>1, <1>3 DEF Log!Init, Log!Instants, belief

\* Recording a claim is a write from now on.
LEMMA RecordLog ==
    ASSUME IInv, NEW c \in Claim, NEW fields \in Fields, Record(c, fields)
    PROVE  Log!Write(c, fields, clock)
<1> DEFINE d == [With(NoClaim, fields) EXCEPT !.recorded = clock]
<1>1. clock \in 1 .. MaxClock /\ clock \in Nat /\ clock \in 0 .. Horizon
  BY InstantsNat DEF IInv
<1>2. /\ d \in ClaimRow /\ d.versions = << >> /\ d.recorded = clock
      /\ Told(d) = fields
  BY <1>1, RecordSound
<1>3. claims[c] = NoClaim /\ NoClaim.versions = << >>
  BY DEF Record, Present, IInv, ClaimRow, Status, NoClaim
<1>4. claims' = [claims EXCEPT ![c] = RecordInitial(d)] /\ clock' = clock
  BY DEF Record
<1> HIDE DEF d
<1>5. claims \in [Claim -> {NoClaim} \cup ClaimRow]
  BY DEF IInv
<1>6. ASSUME NEW k \in 0 .. Horizon
      PROVE  Believed(claims'[c], k) = IF k < clock THEN Believed(claims[c], k)
                                       ELSE fields
  <2>1. k \in Nat
    BY InstantsNat
  <2>2. Believed(RecordInitial(d), k) = IF k < clock THEN NULL ELSE fields
    BY <1>2, <2>1, BelievedFirst
  <2>3. Believed(claims[c], k) = NULL
    BY <1>3, BelievedNothing
  <2>4. claims'[c] = RecordInitial(d)
    BY <1>4, <1>5
  <2> QED BY <2>2, <2>3, <2>4
<1>7. \A x \in Claim : x # c => claims'[x] = claims[x]
  BY <1>4, <1>5
<1>8. belief' = [belief EXCEPT ![c] =
                   [k \in 0 .. Horizon |-> IF k < clock THEN belief[c][k]
                                          ELSE fields]]
  BY <1>6, <1>7, Zenon DEF belief
<1> QED BY <1>1, <1>4, <1>8 DEF Log!Write, Log!Instants, belief

\* A transition is a write from its moment on, or the one backfill.
LEMMA MoveLog ==
    ASSUME IInv, NEW c \in Claim, NEW fields \in Fields, Move(c, fields)
    PROVE  Log!Next
<1> DEFINE d == claims[c]
           e == Transition(d, With(d, fields), clock)
<1>1. clock \in 0 .. MaxClock /\ clock \in Nat
  BY BoundsAssumption DEF IInv
<1>2. d \in ClaimRow /\ Sound(d, clock) /\ Told(d) \in Fields
      /\ d.recorded \in Nat /\ d.recorded <= clock
  BY DEF IInv, Move, Present, NoClaim, Sound, Ahead, ClaimRow
<1>3. claims' = [claims EXCEPT ![c] = e] /\ clock' = clock
      /\ Len(RecordInitial(d).versions) < MaxVersions
  BY DEF Move
<1>4. claims \in [Claim -> {NoClaim} \cup ClaimRow]
  BY DEF IInv
<1>5. claims'[c] = e /\ \A x \in Claim : x # c => claims'[x] = claims[x]
  <2> HIDE DEF e
  <2> QED BY <1>3, <1>4
<1>6. PICK m \in 0 .. Horizon :
         /\ clock <= m
         /\ d.versions = << >> => d.recorded < m
         /\ \A k \in Nat : Believed(e, k) =
                IF k < m THEN Believed(RecordInitial(d), k) ELSE fields
  <2> HIDE DEF d
  <2> QED BY <1>1, <1>2, <1>3, BelievedMoved DEF e
<1> HIDE DEF d, e
<1>7. CASE d.versions # << >>
  <2>1. RecordInitial(d) = d
    BY <1>7 DEF RecordInitial
  <2>2. \A k \in 0 .. Horizon : Believed(claims'[c], k) =
              IF k < m THEN Believed(claims[c], k) ELSE fields
    BY <1>5, <1>6, <2>1, InstantsNat DEF d
  <2>3. belief' = [belief EXCEPT ![c] =
                     [k \in 0 .. Horizon |-> IF k < m THEN belief[c][k]
                                            ELSE fields]]
    BY <1>5, <2>2, Zenon DEF belief
  <2>4. Log!Write(c, fields, m)
    BY <1>3, <1>6, <2>3 DEF Log!Write, Log!Instants, belief
  <2> QED BY <2>4 DEF Log!Next, Log!Instants, Log!Write
<1>8. CASE d.versions = << >>
  <2> DEFINE r == d.recorded
             past == Told(d)
  <2>1. \A k \in Nat : Believed(RecordInitial(d), k) = IF k < r THEN NULL ELSE past
    BY <1>2, <1>8, BelievedFirst
  <2>2. r \in Nat /\ r < m /\ m \in Nat /\ m <= Horizon /\ past \in Fields
    BY <1>2, <1>6, <1>8, InstantsNat
  <2>3. r \in 0 .. Horizon
    BY <2>2, InstantsNat
  <2>4. ASSUME NEW k \in 0 .. Horizon
        PROVE  Believed(claims'[c], k) = IF k < r THEN NULL
                                         ELSE IF k < m THEN past ELSE fields
    <3>1. k \in Nat
      BY InstantsNat
    <3>2. Believed(e, k) = IF k < m THEN IF k < r THEN NULL ELSE past ELSE fields
      BY <3>1, <1>6, <2>1
    <3> HIDE DEF r, past
    <3> QED BY <3>1, <3>2, <2>2, <1>5
  <2>5. \A k \in 0 .. Horizon : Believed(claims[c], k) = NULL
    BY <1>8, BelievedNothing DEF d
  <2> HIDE DEF r, past
  <2>6. belief' = [belief EXCEPT ![c] =
                     [k \in 0 .. Horizon |-> IF k < r THEN NULL
                                            ELSE IF k < m THEN past ELSE fields]]
    BY <1>5, <2>4, Zenon DEF belief
  <2>7. Log!Untold(c)
    BY <2>5 DEF Log!Untold, Log!Instants
  <2>8. Log!Backfill(c, past, r, fields, m)
    BY <1>3, <1>6, <2>2, <2>3, <2>6, <2>7 DEF Log!Backfill, Log!Instants, belief
  <2> QED BY <2>2, <2>3, <2>7, <2>8, <1>6 DEF Log!Next, Log!Instants
<1> QED BY <1>7, <1>8

\* The store implements the belief log: past answers never change.
THEOREM StoreImplementsLog == Spec => ImplementsLog
<1>1. IInv /\ [Next]_vars => [Log!Next]_<<clock, belief>>
  <2> SUFFICES ASSUME IInv, [Next]_vars PROVE [Log!Next]_<<clock, belief>>
    OBVIOUS
  <2>1. CASE Tick
    <3>1. clock' \in 0 .. Horizon /\ clock < clock'
      BY <2>1, BoundsAssumption DEF Tick, IInv, Horizon
    <3>2. belief' = belief
      BY <2>1 DEF Tick, belief
    <3> QED BY <3>1, <3>2 DEF Log!Next, Log!Tick, Log!Instants, belief
  <2>2. ASSUME NEW c \in Claim, NEW fields \in Fields, Record(c, fields)
        PROVE  Log!Next
    <3>1. clock \in 0 .. Horizon
      BY InstantsNat DEF IInv
    <3> QED BY <3>1, <2>2, RecordLog DEF Log!Next, Log!Instants
  <2>3. ASSUME NEW c \in Claim, NEW fields \in Fields, Move(c, fields)
        PROVE  Log!Next
    BY <2>3, MoveLog
  <2>4. CASE UNCHANGED vars
    BY <2>4 DEF vars, belief
  <2> QED BY <2>1, <2>2, <2>3, <2>4 DEF Next
<1> QED BY <1>1, InitLog, InvariantHolds, PTL DEF Spec, ImplementsLog, Log!Spec, belief
=============================================================================
