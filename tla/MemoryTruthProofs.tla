-------------------------- MODULE MemoryTruthProofs --------------------------
(***************************************************************************)
(* Theorems about the memory lifecycle, for every set of memories, claims  *)
(* and payloads and every bound.                                           *)
(*                                                                         *)
(* The archive keeps its state twice, as a temperature and as a log of     *)
(* audit events, and has an invariant of its own (ArchiveInv).             *)
(*                                                                         *)
(* The rest is about the database d = db, as constant-level operators of   *)
(* d: Base(d) and Undisputed(d, t) are the inductive invariant, Follows(d, *)
(* e, t) says that e keeps it and that no history of d was rewritten on    *)
(* the way.  An action is a chain of passes over the database; the passes  *)
(* that put nothing more in force share one argument (Quiet), and only     *)
(* extraction, the judge, activation and the decision of a person need one *)
(* of their own.                                                           *)
(***************************************************************************)
EXTENDS MemoryTruth, FiniteSetTheorems, TLAPS

-----------------------------------------------------------------------------
\* The archive.

Event == [kind : {"archive", "restore"}, at : Nat]

\* What the archive keeps true of one memory: its events happen one after the
\* other, never a tick per event ahead of the clock t, and the last of them
\* says whether the temperature temp is archived.
Logged(log, temp, t) ==
    /\ log \in Seq(Event) /\ Len(log) <= MaxEvents
    /\ \A n, k \in DOMAIN log : n < k => log[n].at < log[k].at
    /\ \A n \in DOMAIN log : log[n].at < t + n
    /\ temp = "archived" <=> log # << >> /\ log[Len(log)].kind = "archive"

\* The inductive invariant of the archive.
ArchiveInv ==
    /\ clock \in 1 .. MaxClock
    /\ events \in [Memory -> Seq(Event)]
    /\ temperature \in [Memory -> {"none", "live", "archived"}]
    /\ \A m \in Memory : Logged(events[m], temperature[m], clock)

\* One more event, later than the others and at most a tick further ahead of
\* the clock, leaves a log that the temperature it decides agrees with.
LEMMA AppendEvent ==
    ASSUME NEW log, NEW temp, NEW t \in Nat, Logged(log, temp, t),
           Len(log) < MaxEvents,
           NEW event \in Event, NEW after,
           event.at < t + Len(log) + 1,
           \A n \in DOMAIN log : log[n].at < event.at,
           after = "archived" <=> event.kind = "archive"
    PROVE  Logged(Append(log, event), after, t)
<1> DEFINE new == Append(log, event)
<1>1. log \in Seq(Event) /\ Len(log) \in Nat
  BY DEF Logged
<1>2. new \in Seq(Event) /\ Len(new) = Len(log) + 1 /\ DOMAIN new = 1 .. Len(log) + 1
  BY <1>1
<1>3. new[Len(log) + 1] = event
  BY <1>1
<1>4. \A n \in 1 .. Len(log) : new[n] = log[n]
  BY <1>1
<1>5. DOMAIN log = 1 .. Len(log)
  BY <1>1
<1> HIDE DEF new
<1>6. \A n, k \in DOMAIN new : n < k => new[n].at < new[k].at
  <2> SUFFICES ASSUME NEW n \in DOMAIN new, NEW k \in DOMAIN new, n < k
               PROVE  new[n].at < new[k].at
    OBVIOUS
  <2>1. n \in 1 .. Len(log)
    BY <1>1, <1>2
  <2>2. CASE k = Len(log) + 1
    BY <2>1, <2>2, <1>3, <1>4, <1>5
  <2>3. CASE k \in 1 .. Len(log)
    BY <2>1, <2>3, <1>4, <1>5 DEF Logged
  <2> QED BY <2>2, <2>3, <1>1, <1>2
<1>7. \A n \in DOMAIN new : new[n].at < t + n
  <2> SUFFICES ASSUME NEW n \in DOMAIN new PROVE new[n].at < t + n
    OBVIOUS
  <2>1. CASE n = Len(log) + 1
    BY <2>1, <1>1, <1>3
  <2>2. CASE n \in 1 .. Len(log)
    BY <2>2, <1>4, <1>5 DEF Logged
  <2> QED BY <2>1, <2>2, <1>1, <1>2
<1>8. Len(new) <= MaxEvents
  BY <1>1, <1>2, BoundsAssumption
<1>9. after = "archived" <=> new # << >> /\ new[Len(new)].kind = "archive"
  <2>1. new # << >>
    BY <1>1, <1>2
  <2> QED BY <2>1, <1>2, <1>3
<1> QED BY <1>2, <1>6, <1>7, <1>8, <1>9 DEF Logged, new

\* As the clock advances a log stays a log.
LEMMA LoggedLater ==
    ASSUME NEW log, NEW temp, NEW t \in Nat, Logged(log, temp, t)
    PROVE  Logged(log, temp, t + 1)
<1>1. \A n \in DOMAIN log : log[n] \in Event /\ n \in Nat
  BY DEF Logged
<1>2. \A n \in DOMAIN log : log[n].at \in Nat /\ n \in Nat
  BY <1>1 DEF Event
<1>3. \A n \in DOMAIN log : log[n].at < t + 1 + n
  BY <1>2 DEF Logged
<1> QED BY <1>3 DEF Logged

\* The moment of the next event is later than every event before it.
LEMMA NextMoment ==
    ASSUME ArchiveInv, NEW m \in Memory
    PROVE  /\ EventMoment(m) \in Nat
           /\ EventMoment(m) < clock + Len(events[m]) + 1
           /\ \A n \in DOMAIN events[m] : events[m][n].at < EventMoment(m)
<1> DEFINE log == events[m]
           last == log[Len(log)]
<1>1. clock \in Nat /\ log \in Seq(Event) /\ Len(log) \in Nat
  BY BoundsAssumption DEF ArchiveInv
<1>2. CASE log = << >>
  <2>1. EventMoment(m) = clock
    BY <1>2 DEF EventMoment
  <2> QED BY <1>1, <1>2, <2>1
<1>3. CASE log # << >>
  <2>1. Len(log) \in DOMAIN log /\ \A n \in DOMAIN log : log[n] \in Event /\ n <= Len(log)
    BY <1>1, <1>3
  <2>2. last.at \in Nat /\ \A n \in DOMAIN log : log[n].at \in Nat
    BY <2>1 DEF Event
  <2>3. last.at < clock + Len(log)
    BY <2>1 DEF ArchiveInv, Logged
  <2>4. \A n \in DOMAIN log : log[n].at <= last.at
    <3> SUFFICES ASSUME NEW n \in DOMAIN log PROVE log[n].at <= last.at
      OBVIOUS
    <3>1. CASE n = Len(log)
      BY <3>1, <2>2
    <3>2. CASE n < Len(log)
      BY <3>2, <2>1, <2>2 DEF ArchiveInv, Logged
    <3> QED BY <3>1, <3>2, <2>1, <1>1
  <2>5. EventMoment(m) = Moment(clock, last.at)
    BY <1>3 DEF EventMoment
  <2> HIDE DEF last, log
  <2>6. /\ Moment(clock, last.at) \in Nat
        /\ Moment(clock, last.at) < clock + Len(log) + 1
        /\ last.at < Moment(clock, last.at)
    BY <1>1, <2>2, <2>3 DEF Moment
  <2> QED BY <2>2, <2>4, <2>5, <2>6, <1>1 DEF log
<1> QED BY <1>2, <1>3

\* An event with the temperature it decides keeps the archive's invariant.
LEMMA HappenInv ==
    ASSUME ArchiveInv, NEW m \in Memory, NEW kind \in {"archive", "restore"},
           NEW after \in {"live", "archived"},
           after = "archived" <=> kind = "archive",
           Happen(m, kind),
           temperature' = [temperature EXCEPT ![m] = after],
           clock' = clock
    PROVE  ArchiveInv'
<1> DEFINE event == [kind |-> kind, at |-> EventMoment(m)]
           new == Append(events[m], event)
<1>1. /\ EventMoment(m) \in Nat
      /\ EventMoment(m) < clock + Len(events[m]) + 1
      /\ \A n \in DOMAIN events[m] : events[m][n].at < EventMoment(m)
  BY NextMoment
<1>2. event \in Event /\ event.at = EventMoment(m) /\ event.kind = kind
  BY <1>1 DEF Event
<1>3. events' = [events EXCEPT ![m] = new] /\ Len(events[m]) < MaxEvents
  BY DEF Happen
<1>4. clock \in Nat /\ Logged(events[m], temperature[m], clock) /\ events[m] \in Seq(Event)
  BY BoundsAssumption DEF ArchiveInv
<1> HIDE DEF event
<1>5. Logged(new, after, clock) /\ new \in Seq(Event)
  BY <1>1, <1>2, <1>3, <1>4, AppendEvent
<1> HIDE DEF new
<1>6. /\ events' \in [Memory -> Seq(Event)]
        /\ temperature' \in [Memory -> {"none", "live", "archived"}]
  BY <1>3, <1>5 DEF ArchiveInv
<1>7. ASSUME NEW k \in Memory PROVE Logged(events'[k], temperature'[k], clock')
  <2>1. CASE k = m
    <3>1. events'[k] = new /\ temperature'[k] = after
      BY <1>3, <2>1 DEF ArchiveInv
    <3> QED BY <3>1, <1>5
  <2>2. CASE k # m
    <3>1. events'[k] = events[k] /\ temperature'[k] = temperature[k]
      BY <1>3, <2>2 DEF ArchiveInv
    <3> QED BY <3>1 DEF ArchiveInv
  <2> QED BY <2>1, <2>2
<1> QED BY <1>6, <1>7 DEF ArchiveInv

\* Nothing is archived in an empty database.
LEMMA InitArchive == Init => ArchiveInv
<1> SUFFICES ASSUME Init PROVE ArchiveInv
  OBVIOUS
<1>1. \A m \in Memory : Logged(<< >>, "none", 1)
  BY BoundsAssumption DEF Logged
<1> QED BY <1>1, BoundsAssumption DEF Init, ArchiveInv

\* The operations that have nothing to do with the archive leave it alone.
LEMMA ElsewhereArchive ==
    ASSUME ArchiveInv, UNCHANGED <<clock, temperature, events>>
    PROVE  ArchiveInv'
BY DEF ArchiveInv

\* Every step keeps the invariant of the archive.
LEMMA StepArchive == ArchiveInv /\ [Next]_vars => ArchiveInv'
<1> SUFFICES ASSUME ArchiveInv, [Next]_vars PROVE ArchiveInv'
  OBVIOUS
<1>1. CASE Tick
  <2>1. /\ clock \in Nat /\ clock' = clock + 1 /\ clock' \in 1 .. MaxClock
        /\ temperature' = temperature /\ events' = events
    BY <1>1, BoundsAssumption DEF Tick, ArchiveInv, health
  <2> QED BY <2>1, LoggedLater DEF ArchiveInv
<1>2. CASE ExpireDue
  BY <1>2, ElsewhereArchive DEF ExpireDue, health
<1>3. ASSUME NEW m \in Memory, NEW p \in Proposal, Propose(m, p) PROVE ArchiveInv'
  BY <1>3, ElsewhereArchive DEF Propose, health
<1>4. ASSUME NEW m \in Memory, NEW r \in Revision, Edit(m, r) PROVE ArchiveInv'
  BY <1>4, ElsewhereArchive DEF Edit, health
<1>5. ASSUME NEW m \in Memory, NEW s \in Schedule, Reschedule(m, s) PROVE ArchiveInv'
  BY <1>5, ElsewhereArchive DEF Reschedule, health
<1>6. ASSUME NEW m \in Memory, NEW strategy \in {NULL} \cup Strategy, Confirm(m, strategy)
      PROVE  ArchiveInv'
  BY <1>6, ElsewhereArchive DEF Confirm, health
<1>7. ASSUME NEW m \in Memory, ConfirmConflicting(m) \/ ConfirmReject(m) PROVE ArchiveInv'
  BY <1>7, ElsewhereArchive DEF ConfirmConflicting, ConfirmReject, health
<1>8. ASSUME NEW m \in Memory, Reject(m) \/ Forget(m) PROVE ArchiveInv'
  BY <1>8, ElsewhereArchive DEF Reject, Forget, health
<1>9. ASSUME NEW m \in Memory, Archive(m) PROVE ArchiveInv'
  BY <1>9, HappenInv DEF Archive
<1>10. ASSUME NEW m \in Memory, Restore(m) PROVE ArchiveInv'
  BY <1>10, HappenInv DEF Restore
<1>11. ASSUME NEW m \in Memory, Anchor(m) PROVE ArchiveInv'
  BY <1>11, ElsewhereArchive DEF Anchor, health
<1>12. ASSUME NEW m \in Memory, NEW state \in Observed, Refresh(m, state) PROVE ArchiveInv'
  BY <1>12, ElsewhereArchive DEF Refresh, health
<1>13. ASSUME NEW pair \in DOMAIN possible, NEW confirmed \in BOOLEAN, Resolve(pair, confirmed)
       PROVE  ArchiveInv'
  BY <1>13, ElsewhereArchive DEF Resolve, health
<1>14. ASSUME NEW S \in SUBSET Memory, Rate(S) PROVE ArchiveInv'
  <2>1. clock' = clock /\ events' = events
    BY <1>14 DEF Rate
  <2>2. temperature' = [m \in Memory |-> IF m \in S THEN "live" ELSE temperature[m]]
    BY <1>14 DEF Rate
  <2>3. \A m \in S : temperature[m] = "none"
    BY <1>14 DEF Rate
  <2>4. temperature' \in [Memory -> {"none", "live", "archived"}]
    BY <2>2 DEF ArchiveInv
  <2>5. \A m \in Memory : temperature'[m] = "archived" <=> temperature[m] = "archived"
    BY <2>2, <2>3
  <2> QED BY <2>1, <2>4, <2>5 DEF ArchiveInv, Logged
<1>15. CASE UNCHANGED vars
  BY <1>15, ElsewhereArchive DEF vars, health
<1> QED BY <1>1, <1>2, <1>3, <1>4, <1>5, <1>6, <1>7, <1>8, <1>9, <1>10, <1>11,
           <1>12, <1>13, <1>14, <1>15 DEF Next

\* What the latest event known says of a memory, once every event is past, is
\* what its temperature says.
LEMMA PastArchive ==
    ASSUME ArchiveInv, NEW m \in Memory, NEW known \in Nat,
           \A event \in Range(events[m]) : event.at <= known
    PROVE  temperature[m] = "archived" <=> Archived(m, known)
<1> DEFINE log == events[m]
<1>1. /\ log \in Seq(Event) /\ Len(log) \in Nat /\ Len(log) <= MaxEvents
      /\ DOMAIN log = 1 .. Len(log) /\ clock \in Nat /\ clock <= MaxClock
  BY BoundsAssumption DEF ArchiveInv, Logged
<1>2. \A n \in DOMAIN log : log[n] \in Event
  BY <1>1
<1>3. \A n \in DOMAIN log : log[n].at \in Nat /\ log[n].at < clock + n
  BY <1>2 DEF ArchiveInv, Logged, Event
<1>4. \A n, k \in DOMAIN log : n < k => log[n].at < log[k].at
  BY DEF ArchiveInv, Logged
<1>5. temperature[m] = "archived" <=> log # << >> /\ log[Len(log)].kind = "archive"
  BY DEF ArchiveInv, Logged
<1>6. \A n \in DOMAIN log : log[n].at <= known
  BY DEF Range
<1> HIDE DEF log
<1>7. {event \in Range(log) : event.at <= known} = {log[n] : n \in DOMAIN log}
  BY <1>6 DEF Range
<1>8. Archived(m, known) <=>
        \E n \in DOMAIN log : /\ log[n].kind = "archive"
                              /\ \A k \in DOMAIN log : log[k].at <= log[n].at
  BY <1>7 DEF Archived, log
<1>9. ASSUME NEW n \in DOMAIN log, \A k \in DOMAIN log : log[k].at <= log[n].at
      PROVE  n = Len(log)
  <2>1. Len(log) \in DOMAIN log
    BY <1>1
  <2>2. ~(n < Len(log))
    BY <2>1, <1>3, <1>4, <1>9
  <2> QED BY <2>1, <2>2, <1>1
<1>10. log # << >> => /\ Len(log) \in DOMAIN log
                      /\ \A k \in DOMAIN log : log[k].at <= log[Len(log)].at
  <2> SUFFICES ASSUME log # << >>, NEW k \in DOMAIN log
               PROVE  Len(log) \in DOMAIN log /\ log[k].at <= log[Len(log)].at
    BY <1>1
  <2>1. Len(log) \in DOMAIN log
    BY <1>1
  <2>2. CASE k = Len(log)
    BY <2>2, <2>1, <1>3
  <2>3. CASE k < Len(log)
    BY <2>1, <2>3, <1>3, <1>4
  <2> QED BY <2>1, <2>2, <2>3, <1>1
<1> QED BY <1>1, <1>5, <1>8, <1>9, <1>10

\* The temperature retrieval filters by and the audit events current_truth
\* filters by agree on which memories are archived, whatever order archive
\* and restore are called in and however often within a tick.
THEOREM ArchiveAgreementAlways == Spec => []ArchiveAgreement
<1>1. ASSUME ArchiveInv PROVE ArchiveAgreement
  <2> SUFFICES ASSUME NEW m \in Memory
               PROVE  temperature[m] = "archived" <=> Archived(m, Horizon)
    BY DEF ArchiveAgreement
  <2>1. Horizon \in Nat
    BY BoundsAssumption DEF Horizon
  <2>2. \A event \in Range(events[m]) : event.at <= Horizon
    <3> SUFFICES ASSUME NEW n \in DOMAIN events[m] PROVE events[m][n].at <= Horizon
      BY DEF Range
    <3>1. /\ events[m] \in Seq(Event) /\ Len(events[m]) \in Nat
          /\ Len(events[m]) <= MaxEvents /\ events[m][n].at < clock + n
          /\ clock \in Nat /\ clock <= MaxClock
      BY <1>1, BoundsAssumption DEF ArchiveInv, Logged
    <3>2. n \in 1 .. Len(events[m])
      BY <3>1
    <3>3. events[m][n] \in Event
      BY <3>1, <3>2
    <3>4. events[m][n].at \in Nat
      BY <3>3 DEF Event
    <3> QED BY <3>1, <3>2, <3>4, BoundsAssumption DEF Horizon
  <2> QED BY <1>1, <2>1, <2>2, PastArchive
<1> QED BY <1>1, InitArchive, StepArchive, PTL DEF Spec

-----------------------------------------------------------------------------
\* The versions of one claim.

\* A version without its end.
Told(version) == [version EXCEPT !.to = NULL]

\* Exactly the last version of a claim is open.
History(h) ==
    /\ h \in Seq(Version) /\ h # << >>
    /\ \A n \in DOMAIN h : h[n].to = NULL <=> n = Len(h)

\* From h to g versions are only closed, and appended, at the instant t or
\* later: an answer as known before t is the same.
Grown(h, g, t) ==
    /\ Len(h) <= Len(g)
    /\ \A n \in DOMAIN h :
          /\ Told(g[n]) = Told(h[n])
          /\ g[n].to = h[n].to \/ (h[n].to = NULL /\ g[n].to \in Nat /\ t <= g[n].to)
    /\ \A n \in DOMAIN g : Len(h) < n => t <= g[n].from

\* new is what transition makes of row when it is to have the fields of after.
Successor(row, after, new, t) ==
    /\ new \in ClaimRow /\ History(new.versions)
    /\ new.status = after.status /\ new.stale = after.stale
    /\ new.validFrom = after.validFrom /\ new.validTo = after.validTo
    /\ Grown(row.versions, new.versions, t)
    /\ \A n \in DOMAIN new.versions :
          \/ new.versions[n].status = after.status
          \/ \E k \in DOMAIN row.versions : new.versions[n].status = row.versions[k].status

\* transition closes the last version.
LEMMA CurrentIsLast ==
    ASSUME NEW h, History(h)
    PROVE  CurrentVersion(h) = Len(h)
<1>1. Len(h) \in DOMAIN h
  BY DEF History
<1>2. OpenVersions(h) = {Len(h)}
  BY <1>1 DEF History, OpenVersions
<1>3. Len(h) <= Len(h)
  BY DEF History
<1> QED BY <1>2, <1>3 DEF CurrentVersion

\* A version keeps what it tells when it is closed.
LEMMA ToldFields ==
    ASSUME NEW v \in Version, NEW w \in Version, Told(v) = Told(w)
    PROVE  /\ v.status = w.status /\ v.stale = w.stale /\ v.from = w.from
           /\ v.validFrom = w.validFrom /\ v.validTo = w.validTo
<1>1. /\ Told(v).status = v.status /\ Told(v).stale = v.stale /\ Told(v).from = v.from
      /\ Told(v).validFrom = v.validFrom /\ Told(v).validTo = v.validTo
  BY DEF Told, Version
<1>2. /\ Told(w).status = w.status /\ Told(w).stale = w.stale /\ Told(w).from = w.from
      /\ Told(w).validFrom = w.validFrom /\ Told(w).validTo = w.validTo
  BY DEF Told, Version
<1> QED BY <1>1, <1>2

\* A transition at t appends one version and closes the one before it.
LEMMA TransitionSucceeds ==
    ASSUME NEW row \in ClaimRow, History(row.versions), NEW after \in ClaimRow,
           NEW t \in Nat
    PROVE  Successor(row, after, Transition(row, after, t), t)
<1> DEFINE h == row.versions
           m == Moment(t, h[Len(h)].from)
           v == Snapshot(after, m)
           closed == [h EXCEPT ![Len(h)].to = m]
           g == Append(closed, v)
           new == [after EXCEPT !.versions = g]
<1>1. h \in Seq(Version) /\ h # << >> /\ Len(h) \in Nat /\ Len(h) \in DOMAIN h
      /\ DOMAIN h = 1 .. Len(h)
  BY DEF History
<1>a. h[Len(h)] \in Version
  BY <1>1
<1>2. h[Len(h)].from \in Nat
  BY <1>a DEF Version
<1>3. m \in Nat /\ t <= m
  BY <1>2 DEF Moment
<1>4. Transition(row, after, t) = new
  BY <1>1, CurrentIsLast DEF Transition, RecordInitial
<1> HIDE DEF m
<1>5. v \in Version /\ v.from = m /\ v.to = NULL /\ v.status = after.status
  BY <1>3 DEF Snapshot, Version, ClaimRow, End
<1>6. [h[Len(h)] EXCEPT !.to = m] \in Version /\ m # NULL
  BY <1>a, <1>3, NullAssumption DEF Version, End
<1>7. closed \in Seq(Version) /\ Len(closed) = Len(h)
  BY <1>1, <1>6
<1>8. \A n \in DOMAIN h : closed[n] = IF n = Len(h) THEN [h[n] EXCEPT !.to = m] ELSE h[n]
  BY <1>1
<1> HIDE DEF v, closed
<1>9. /\ g \in Seq(Version) /\ Len(g) = Len(h) + 1 /\ DOMAIN g = 1 .. Len(h) + 1
      /\ g[Len(h) + 1] = v
      /\ \A n \in DOMAIN h : g[n] = IF n = Len(h) THEN [h[n] EXCEPT !.to = m] ELSE h[n]
  BY <1>1, <1>5, <1>7, <1>8
<1> HIDE DEF g
<1>10. \A n \in DOMAIN h : h[n] \in Version
  BY <1>1
<1>11. ASSUME NEW n \in DOMAIN h
       PROVE  /\ Told(g[n]) = Told(h[n])
              /\ g[n].to = h[n].to \/ (h[n].to = NULL /\ g[n].to \in Nat /\ t <= g[n].to)
              /\ g[n].to # NULL
  <2>1. CASE n = Len(h)
    <3>1. g[n] = [h[n] EXCEPT !.to = m]
      BY <2>1, <1>9
    <3>2. h[n].to = NULL
      BY <2>1 DEF History
    <3>3. g[n].to = m /\ Told(g[n]) = Told(h[n])
      BY <3>1, <1>10 DEF Told, Version
    <3> QED BY <3>2, <3>3, <1>3, <1>6
  <2>2. CASE n # Len(h)
    <3>1. g[n] = h[n]
      BY <2>2, <1>9
    <3>2. h[n].to # NULL
      BY <2>2 DEF History
    <3> QED BY <3>1, <3>2
  <2> QED BY <2>1, <2>2
<1>12. Grown(h, g, t)
  <2>1. \A n \in DOMAIN g : Len(h) < n => n = Len(h) + 1
    BY <1>1, <1>9
  <2> QED BY <2>1, <1>1, <1>3, <1>5, <1>9, <1>11 DEF Grown
<1>13. History(g)
  <2>1. \A n \in DOMAIN g : n \in DOMAIN h \/ n = Len(h) + 1
    BY <1>1, <1>9
  <2>2. \A n \in DOMAIN h : n # Len(h) + 1
    BY <1>1
  <2> QED BY <2>1, <2>2, <1>5, <1>9, <1>11, <1>1 DEF History
<1>14. \A n \in DOMAIN g : \/ g[n].status = after.status
                           \/ \E k \in DOMAIN h : g[n].status = h[k].status
  <2> SUFFICES ASSUME NEW n \in DOMAIN g
               PROVE  \/ g[n].status = after.status
                      \/ \E k \in DOMAIN h : g[n].status = h[k].status
    OBVIOUS
  <2>1. CASE n = Len(h) + 1
    BY <2>1, <1>5, <1>9
  <2>2. CASE n \in DOMAIN h
    <3>0. n \in DOMAIN g
      OBVIOUS
    <3>1. g[n] \in Version /\ h[n] \in Version
      BY <3>0, <2>2, <1>9, <1>10
    <3> QED BY <3>1, <2>2, <1>11, ToldFields
  <2> QED BY <2>1, <2>2, <1>1, <1>9
<1>15. /\ new \in ClaimRow /\ new.versions = g
       /\ new.status = after.status /\ new.stale = after.stale
       /\ new.validFrom = after.validFrom /\ new.validTo = after.validTo
  BY <1>9 DEF ClaimRow
<1> QED BY <1>4, <1>12, <1>13, <1>14, <1>15 DEF Successor

\* A history that grows twice has grown.
LEMMA GrownTwice ==
    ASSUME NEW t \in Nat, NEW f \in Seq(Version), NEW g \in Seq(Version), NEW h \in Seq(Version),
           Grown(f, g, t), Grown(g, h, t)
    PROVE  Grown(f, h, t)
<1>1. Len(f) <= Len(h)
  BY DEF Grown
<1>2. ASSUME NEW n \in DOMAIN f
      PROVE  /\ Told(h[n]) = Told(f[n])
             /\ h[n].to = f[n].to \/ (f[n].to = NULL /\ h[n].to \in Nat /\ t <= h[n].to)
  <2>1. n \in DOMAIN g
    BY DEF Grown
  <2>2. /\ Told(g[n]) = Told(f[n])
        /\ g[n].to = f[n].to \/ (f[n].to = NULL /\ g[n].to \in Nat /\ t <= g[n].to)
    BY DEF Grown
  <2>3. /\ Told(h[n]) = Told(g[n])
        /\ h[n].to = g[n].to \/ (g[n].to = NULL /\ h[n].to \in Nat /\ t <= h[n].to)
    BY <2>1 DEF Grown
  <2> QED BY <2>2, <2>3
<1>3. ASSUME NEW n \in DOMAIN h, Len(f) < n PROVE t <= h[n].from
  <2>1. CASE Len(g) < n
    BY <2>1 DEF Grown
  <2>2. CASE n <= Len(g)
    <3>1. n \in DOMAIN g /\ g[n] \in Version /\ h[n] \in Version
      BY <2>2
    <3>2. Told(h[n]) = Told(g[n])
      BY <3>1 DEF Grown
    <3>3. h[n].from = g[n].from
      BY <3>1, <3>2, ToldFields
    <3> QED BY <3>1, <3>3, <1>3 DEF Grown
  <2> QED BY <2>1, <2>2
<1> QED BY <1>1, <1>2, <1>3 DEF Grown

\* A history is grown from itself.
LEMMA GrownSame == ASSUME NEW h \in Seq(Version), NEW t PROVE Grown(h, h, t)
  BY DEF Grown

-----------------------------------------------------------------------------
\* The inductive invariant, of a database d.

Keys  == {NULL} \cup {p.key : p \in Proposal} \cup {r.key : r \in Revision}
Texts == {p.says : p \in Proposal} \cup {r.says : r \in Revision}

MemoryRow == [status: {"absent", "candidate", "active", "superseded", "rejected",
                       "forgotten", "expired"},
              key: Keys, texts: Seq(Texts), from: End, to: End, created: Nat,
              ttl: End, anchored: Nat]

Forceful == {"accepted", "contested"}

\* Rows are well formed, an absent memory has no text, and a claim is what
\* some text of its memory says.
Stored(d) ==
    /\ d = [memories |-> d.memories, claims |-> d.claims, possible |-> d.possible,
            relations |-> d.relations]
    /\ d.memories \in [Memory -> MemoryRow]
    /\ d.claims \in [Claim -> {NoClaim} \cup ClaimRow]
    /\ \A m \in Memory : /\ Len(d.memories[m].texts) <= MaxEditions
                         /\ d.memories[m].status = "absent" => d.memories[m].texts = << >>
    /\ \A c \in Claim : d.claims[c] # NoClaim =>
          /\ History(d.claims[c].versions)
          /\ EditionOf(c) <= Len(d.memories[MemoryOf(c)].texts)

\* AcceptedWasConfirmed of a database.
Warranted(d) ==
    \A c \in Claim :
        /\ (\E n \in DOMAIN d.claims[c].versions : d.claims[c].versions[n].status \in Forceful)
           => d.memories[MemoryOf(c)].status \notin {"candidate", "rejected"}
        /\ d.claims[c].status \in Forceful
           => d.memories[MemoryOf(c)].status \in {"active", "superseded"}

\* ContestedIsExplained of a database.
Explained(d) ==
    \A c \in Claim : d.claims[c].status = "contested" =>
        \E relation \in d.relations : relation.type = "contradicts" /\ c \in relation.pair

\* A claim whose validity is still the one it was extracted with.
Unended(d, c) ==
    \/ d.memories[MemoryOf(c)].status = "candidate"
    \/ d.claims[c].status \in Forceful

\* A pair on which a verdict is stored has two claims of different memories
\* between which the rules are uncertain, until the validity of one is cut.
Raised(d) ==
    \A pair \in DOMAIN d.possible :
        /\ d.possible[pair].status \in {"possible", "confirmed", "dismissed", "abstained"}
        /\ \E c, e \in Claim :
              /\ pair = {c, e} /\ MemoryOf(c) # MemoryOf(e)
              /\ d.claims[c] # NoClaim /\ d.claims[e] # NoClaim
              /\ Unended(d, c) /\ Unended(d, e) => Uncertain(d, c, e)

Base(d) == Stored(d) /\ Warranted(d) /\ Explained(d) /\ Raised(d)

HoldsIn(d, c, t) ==
    /\ d.memories[MemoryOf(c)].status = "active"
    /\ ~Lapsed(d.memories[MemoryOf(c)], t)
    /\ d.claims[c].validTo = NULL \/ t < d.claims[c].validTo

\* NoSilentConflict of a database at an instant.
Undisputed(d, t) ==
    \A c, e \in Claim :
        /\ d.claims[c].status = "accepted" /\ d.claims[e].status = "accepted"
        /\ MemoryOf(c) # MemoryOf(e) /\ HoldsIn(d, c, t) /\ HoldsIn(d, e, t)
        => ~ClaimsConflict(d, c, e)

-----------------------------------------------------------------------------
\* Relationships are between what two claims assert and when they hold.

Meet(from, to) == from = NULL \/ to = NULL \/ from < to

\* intervals_overlap, end by end.
LEMMA OverlapFields ==
    ASSUME NEW a, NEW b
    PROVE  Overlap(a, b) <=>
              /\ Meet(a.validFrom, a.validTo) /\ Meet(a.validFrom, b.validTo)
              /\ Meet(b.validFrom, a.validTo) /\ Meet(b.validFrom, b.validTo)
  BY DEF Overlap, Meet

\* A relationship depends on what the two claims assert and on when they hold.
LEMMA RelationshipOfFields ==
    ASSUME NEW d, NEW f, NEW c, NEW e,
           Assertion(f, c) = Assertion(d, c), Assertion(f, e) = Assertion(d, e),
           f.claims[c].validFrom = d.claims[c].validFrom,
           f.claims[c].validTo = d.claims[c].validTo,
           f.claims[e].validFrom = d.claims[e].validFrom,
           f.claims[e].validTo = d.claims[e].validTo
    PROVE  /\ Uncertain(f, c, e) <=> Uncertain(d, c, e)
           /\ Contradicts(f, c, e) <=> Contradicts(d, c, e)
<1>1. SameSlot(f, c, e) <=> SameSlot(d, c, e)
  BY OverlapFields DEF SameSlot
<1> QED BY <1>1 DEF Uncertain, Contradicts

\* They are symmetric.
LEMMA RelationshipSymmetric ==
    ASSUME NEW d, NEW c, NEW e
    PROVE  /\ Uncertain(d, c, e) <=> Uncertain(d, e, c)
           /\ Contradicts(d, c, e) <=> Contradicts(d, e, c)
           /\ ClaimsConflict(d, c, e) <=> ClaimsConflict(d, e, c)
<1>1. SameSlot(d, c, e) <=> SameSlot(d, e, c)
  BY OverlapFields DEF SameSlot
<1>2. Supports(Assertion(d, c), Assertion(d, e)) <=> Supports(Assertion(d, e), Assertion(d, c))
  BY DEF Supports
<1>3. IdentityOf(c) \in Single /\ SameSlot(d, c, e)
         <=> IdentityOf(e) \in Single /\ SameSlot(d, c, e)
  BY DEF SameSlot
<1>4. Uncertain(d, c, e) <=> Uncertain(d, e, c)
  BY <1>1, <1>2, <1>3 DEF Uncertain
<1>5. Contradicts(d, c, e) <=> Contradicts(d, e, c)
  BY <1>1, <1>2, <1>3 DEF Contradicts
<1>6. {c, e} = {e, c}
  OBVIOUS
<1> QED BY <1>4, <1>5, <1>6 DEF ClaimsConflict

\* The parts of a claim.
LEMMA ClaimParts ==
    ASSUME NEW c \in Claim
    PROVE  /\ MemoryOf(c) \in Memory /\ EditionOf(c) \in Edition /\ IdentityOf(c) \in Identity
           /\ EditionOf(c) \in Nat /\ EditionOf(c) >= 1
  BY BoundsAssumption DEF Claim, MemoryOf, EditionOf, IdentityOf, Edition

-----------------------------------------------------------------------------
\* Passes that put nothing in force and raise no question.

Prefix(s, r) == Len(s) <= Len(r) /\ \A n \in DOMAIN s : r[n] = s[n]

\* The last edition with anchored claims is one of the editions, and no
\* earlier one than before.
AnchorsKept(old, new) ==
    old.anchored <= Len(old.texts) =>
        old.anchored <= new.anchored /\ new.anchored <= Len(new.texts)

\* What such a pass may do to a memory, a new one included, ...
MemoryQuiet(old, new) ==
    /\ Prefix(old.texts, new.texts)
    /\ AnchorsKept(old, new)
    /\ new.status = "active" => \/ old.status = "absent"
                                \/ /\ old.status = "active"
                                   /\ new.created = old.created /\ new.ttl = old.ttl
    /\ new.status = "candidate" => old.status \in {"absent", "candidate"}
    /\ new.status = "rejected" => old.status \in {"candidate", "rejected"}

\* ... and to a claim.
ClaimQuiet(d, e, c, t) ==
    /\ d.claims[c] = NoClaim <=> e.claims[c] = NoClaim
    /\ Grown(d.claims[c].versions, e.claims[c].versions, t)
    /\ e.claims[c].status \in Forceful =>
          /\ d.claims[c].status = e.claims[c].status
          /\ d.memories[MemoryOf(c)].status = e.memories[MemoryOf(c)].status
    /\ Unended(e, c) => /\ e.claims[c].validFrom = d.claims[c].validFrom
                        /\ e.claims[c].validTo = d.claims[c].validTo
    /\ \A n \in DOMAIN e.claims[c].versions :
          e.claims[c].versions[n].status \in Forceful =>
             \/ d.claims[c].status \in Forceful
             \/ \E k \in DOMAIN d.claims[c].versions : d.claims[c].versions[k].status \in Forceful

Quiet(d, e, t) ==
    /\ Stored(e)
    /\ e.possible = d.possible /\ e.relations = d.relations
    /\ \A m \in Memory : MemoryQuiet(d.memories[m], e.memories[m])
    /\ \A c \in Claim : ClaimQuiet(d, e, c, t)

\* What a stored claim asserts no pass changes.
LEMMA AssertionKept ==
    ASSUME NEW d, NEW e, Stored(d), NEW c \in Claim, d.claims[c] # NoClaim,
           Prefix(d.memories[MemoryOf(c)].texts, e.memories[MemoryOf(c)].texts)
    PROVE  Assertion(e, c) = Assertion(d, c)
<1>1. MemoryOf(c) \in Memory /\ EditionOf(c) \in Nat /\ EditionOf(c) >= 1
  BY ClaimParts
<1>2. d.memories[MemoryOf(c)] \in MemoryRow
  BY <1>1 DEF Stored
<1>3. d.memories[MemoryOf(c)].texts \in Seq(Texts)
  BY <1>2 DEF MemoryRow
<1>4. EditionOf(c) <= Len(d.memories[MemoryOf(c)].texts)
  BY DEF Stored
<1>5. EditionOf(c) \in DOMAIN d.memories[MemoryOf(c)].texts
  BY <1>1, <1>3, <1>4
<1> QED BY <1>5 DEF Prefix, Assertion

\* A memory that has a claim is not absent.
LEMMA ClaimOfPresent ==
    ASSUME NEW d, Stored(d), NEW c \in Claim, d.claims[c] # NoClaim
    PROVE  /\ d.memories[MemoryOf(c)].status # "absent"
           /\ d.claims[c] \in ClaimRow /\ d.claims[c].status # "absent"
<1>1. MemoryOf(c) \in Memory /\ EditionOf(c) \in Nat /\ EditionOf(c) >= 1
  BY ClaimParts
<1>2. EditionOf(c) <= Len(d.memories[MemoryOf(c)].texts)
  BY DEF Stored
<1>3. d.memories[MemoryOf(c)].texts # << >>
  BY <1>1, <1>2
<1>4. d.claims[c] \in ClaimRow
  BY DEF Stored
<1>5. d.claims[c].status # "absent"
  BY <1>4 DEF ClaimRow, Status
<1> QED BY <1>1, <1>3, <1>4, <1>5 DEF Stored

\* A quiet pass keeps the invariant: what is in force after it was in force
\* before, with the same validity.
LEMMA QuietKeeps ==
    ASSUME NEW d, NEW e, NEW t, Base(d), Quiet(d, e, t)
    PROVE  /\ Base(e)
           /\ Undisputed(d, t) => Undisputed(e, t)
<1>0. Stored(d) /\ Stored(e) /\ \A c \in Claim : MemoryOf(c) \in Memory
  BY ClaimParts DEF Base, Quiet
<1>a. \A c \in Claim :
         /\ ClaimQuiet(d, e, c, t)
         /\ MemoryQuiet(d.memories[MemoryOf(c)], e.memories[MemoryOf(c)])
  BY <1>0 DEF Quiet
<1>b. ~("absent" \in Forceful) /\ NoClaim.status = "absent" /\ NoClaim.versions = << >>
  BY DEF Forceful, NoClaim
<1>1. Warranted(e)
  <2> SUFFICES ASSUME NEW c \in Claim
               PROVE  /\ (\E n \in DOMAIN e.claims[c].versions :
                             e.claims[c].versions[n].status \in Forceful)
                         => e.memories[MemoryOf(c)].status \notin {"candidate", "rejected"}
                      /\ e.claims[c].status \in Forceful
                         => e.memories[MemoryOf(c)].status \in {"active", "superseded"}
    BY DEF Warranted
  <2>1. CASE d.claims[c] = NoClaim
    <3>1. e.claims[c] = NoClaim
      BY <2>1, <1>a DEF ClaimQuiet
    <3> QED BY <3>1, <1>b
  <2>2. CASE d.claims[c] # NoClaim
    <3>1. d.memories[MemoryOf(c)].status # "absent"
      BY <2>2, <1>0, ClaimOfPresent
    <3>2. ASSUME NEW n \in DOMAIN e.claims[c].versions,
                 e.claims[c].versions[n].status \in Forceful
          PROVE  e.memories[MemoryOf(c)].status \notin {"candidate", "rejected"}
      <4>1. \/ d.claims[c].status \in Forceful
            \/ \E k \in DOMAIN d.claims[c].versions : d.claims[c].versions[k].status \in Forceful
        BY <3>2, <1>a DEF ClaimQuiet
      <4>2. d.memories[MemoryOf(c)].status \notin {"candidate", "rejected"}
        BY <4>1 DEF Base, Warranted
      <4> QED BY <4>2, <3>1, <1>a DEF MemoryQuiet
    <3>3. ASSUME e.claims[c].status \in Forceful
          PROVE  e.memories[MemoryOf(c)].status \in {"active", "superseded"}
      <4>1. d.claims[c].status \in Forceful
            /\ d.memories[MemoryOf(c)].status = e.memories[MemoryOf(c)].status
        BY <3>3, <1>a DEF ClaimQuiet
      <4> QED BY <4>1 DEF Base, Warranted
    <3> QED BY <3>2, <3>3
  <2> QED BY <2>1, <2>2
<1>2. Explained(e)
  <2>1. \A c \in Claim : e.claims[c].status = "contested" => d.claims[c].status = "contested"
    BY <1>a DEF ClaimQuiet, Forceful
  <2> QED BY <2>1 DEF Base, Explained, Quiet
<1>3. ASSUME NEW c \in Claim, d.claims[c] # NoClaim, Unended(e, c)
      PROVE  /\ Unended(d, c)
             /\ e.claims[c].validFrom = d.claims[c].validFrom
             /\ e.claims[c].validTo = d.claims[c].validTo
  <2>1. d.memories[MemoryOf(c)].status # "absent"
    BY <1>3, <1>0, ClaimOfPresent
  <2> QED BY <2>1, <1>3, <1>a DEF ClaimQuiet, MemoryQuiet, Unended
<1>4. \A c \in Claim : d.claims[c] # NoClaim =>
         e.claims[c] # NoClaim /\ Assertion(e, c) = Assertion(d, c)
  BY <1>0, <1>a, AssertionKept DEF ClaimQuiet, MemoryQuiet
<1>5. Raised(e)
  <2> SUFFICES ASSUME NEW pair \in DOMAIN d.possible
               PROVE  \E c, x \in Claim :
                         /\ pair = {c, x} /\ MemoryOf(c) # MemoryOf(x)
                         /\ e.claims[c] # NoClaim /\ e.claims[x] # NoClaim
                         /\ Unended(e, c) /\ Unended(e, x) => Uncertain(e, c, x)
    BY DEF Base, Quiet, Raised
  <2>1. PICK c \in Claim, x \in Claim :
              /\ pair = {c, x} /\ MemoryOf(c) # MemoryOf(x)
              /\ d.claims[c] # NoClaim /\ d.claims[x] # NoClaim
              /\ Unended(d, c) /\ Unended(d, x) => Uncertain(d, c, x)
    BY DEF Base, Raised
  <2>2. ASSUME Unended(e, c), Unended(e, x) PROVE Uncertain(e, c, x)
    BY <2>1, <2>2, <1>3, <1>4, RelationshipOfFields
  <2> QED BY <2>1, <2>2, <1>4
<1>6. ASSUME Undisputed(d, t) PROVE Undisputed(e, t)
  <2> SUFFICES ASSUME NEW c \in Claim, NEW x \in Claim,
                      e.claims[c].status = "accepted", e.claims[x].status = "accepted",
                      MemoryOf(c) # MemoryOf(x), HoldsIn(e, c, t), HoldsIn(e, x, t),
                      ClaimsConflict(e, c, x)
               PROVE  FALSE
    BY DEF Undisputed
  <2>1. ASSUME NEW y \in Claim, e.claims[y].status = "accepted", HoldsIn(e, y, t)
        PROVE  /\ d.claims[y].status = "accepted" /\ d.claims[y] # NoClaim
               /\ HoldsIn(d, y, t)
               /\ e.claims[y].validFrom = d.claims[y].validFrom
               /\ e.claims[y].validTo = d.claims[y].validTo
    <3>1. e.claims[y].status \in Forceful
      BY <2>1 DEF Forceful
    <3>2. /\ d.claims[y].status = "accepted"
          /\ e.claims[y].validFrom = d.claims[y].validFrom
          /\ e.claims[y].validTo = d.claims[y].validTo
          /\ d.memories[MemoryOf(y)].status = e.memories[MemoryOf(y)].status
      BY <2>1, <3>1, <1>a DEF ClaimQuiet, Unended
    <3>3. d.claims[y] # NoClaim
      BY <3>2, <1>b
    <3>4. d.memories[MemoryOf(y)].status # "absent"
      BY <3>3, <1>0, ClaimOfPresent
    <3>5. /\ e.memories[MemoryOf(y)].created = d.memories[MemoryOf(y)].created
          /\ e.memories[MemoryOf(y)].ttl = d.memories[MemoryOf(y)].ttl
      BY <2>1, <3>4, <1>a DEF MemoryQuiet, HoldsIn
    <3> QED BY <2>1, <3>2, <3>3, <3>5 DEF HoldsIn, Lapsed
  <2>2. /\ d.claims[c].status = "accepted" /\ d.claims[c] # NoClaim /\ HoldsIn(d, c, t)
        /\ d.claims[x].status = "accepted" /\ d.claims[x] # NoClaim /\ HoldsIn(d, x, t)
    BY <2>1
  <2>3. Contradicts(e, c, x) <=> Contradicts(d, c, x)
    BY <2>1, <2>2, <1>4, RelationshipOfFields
  <2>4. Confirmed(e, {c, x}) <=> Confirmed(d, {c, x})
    BY DEF Confirmed, Quiet
  <2>5. ClaimsConflict(d, c, x)
    BY <2>3, <2>4 DEF ClaimsConflict
  <2> QED BY <2>2, <2>5, <1>6 DEF Undisputed
<1> QED BY <1>0, <1>1, <1>2, <1>5, <1>6 DEF Base

-----------------------------------------------------------------------------
\* The passes, one by one.

\* A claim that is moved to fields that put nothing more in force.
LEMMA SuccessorQuiet ==
    ASSUME NEW d, NEW e, NEW t, NEW c \in Claim, NEW after,
           d.claims[c] \in ClaimRow,
           Successor(d.claims[c], after, e.claims[c], t),
           after.status \in Forceful =>
              /\ after.status = d.claims[c].status
              /\ d.memories[MemoryOf(c)].status = e.memories[MemoryOf(c)].status,
           Unended(e, c) => /\ after.validFrom = d.claims[c].validFrom
                            /\ after.validTo = d.claims[c].validTo
    PROVE  /\ ClaimQuiet(d, e, c, t)
           /\ e.claims[c] \in ClaimRow /\ History(e.claims[c].versions)
<1>1. e.claims[c] # NoClaim /\ d.claims[c] # NoClaim
  BY DEF Successor, ClaimRow, NoClaim, Status
<1> QED BY <1>1 DEF Successor, ClaimQuiet

\* A claim that is left alone.
LEMMA SameQuiet ==
    ASSUME NEW d, NEW e, NEW t, NEW c \in Claim, Stored(d),
           e.claims[c] = d.claims[c],
           d.claims[c].status \in Forceful =>
              d.memories[MemoryOf(c)].status = e.memories[MemoryOf(c)].status
    PROVE  ClaimQuiet(d, e, c, t)
<1>0. d.claims[c] = NoClaim \/ d.claims[c] \in ClaimRow
  BY DEF Stored
<1>1. d.claims[c].versions \in Seq(Version)
  <2>1. CASE d.claims[c] = NoClaim
    BY <2>1 DEF NoClaim
  <2>2. CASE d.claims[c] \in ClaimRow
    BY <2>2 DEF ClaimRow
  <2> QED BY <1>0, <2>1, <2>2
<1> QED BY <1>1, GrownSame DEF ClaimQuiet

\* A memory whose texts are as before.
LEMMA MemorySame ==
    ASSUME NEW old \in MemoryRow, NEW new, new.texts = old.texts,
           new.anchored = old.anchored,
           new.status = "active" => /\ old.status = "active"
                                    /\ new.created = old.created /\ new.ttl = old.ttl,
           new.status = "candidate" => old.status = "candidate",
           new.status = "rejected" => old.status \in {"candidate", "rejected"}
    PROVE  MemoryQuiet(old, new)
<1>1. old.texts \in Seq(Texts)
  BY DEF MemoryRow
<1>2. Prefix(old.texts, new.texts)
  BY <1>1 DEF Prefix
<1>3. AnchorsKept(old, new)
  BY DEF AnchorsKept, MemoryRow
<1> QED BY <1>2, <1>3 DEF MemoryQuiet

\* A database with new memories and claims.
LEMMA DatabaseWith ==
    ASSUME NEW d, NEW M, NEW C, Stored(d)
    PROVE  [d EXCEPT !.memories = M, !.claims = C] =
              [memories |-> M, claims |-> C, possible |-> d.possible,
               relations |-> d.relations]
<1> DEFINE f == [d EXCEPT !.memories = M]
<1>1. f = [memories |-> M, claims |-> d.claims, possible |-> d.possible,
           relations |-> d.relations]
  BY DEF Stored
<1>2. [d EXCEPT !.memories = M, !.claims = C] = [f EXCEPT !.claims = C]
  BY SMT
<1>3. [f EXCEPT !.claims = C] = [memories |-> M, claims |-> C, possible |-> d.possible,
                                 relations |-> d.relations]
  <2> HIDE DEF f
  <2> QED BY <1>1
<1> QED BY <1>2, <1>3

\* A pass moves a set S of claims to the fields of After and may change
\* memories.
Pass(d, e, S, After, t) ==
    /\ e = [memories |-> e.memories, claims |-> e.claims, possible |-> d.possible,
            relations |-> d.relations]
    /\ e.memories \in [Memory -> MemoryRow]
    /\ \A m \in Memory : /\ MemoryQuiet(d.memories[m], e.memories[m])
                         /\ Len(e.memories[m].texts) <= MaxEditions
                         /\ e.memories[m].status = "absent" => e.memories[m].texts = << >>
    /\ e.claims = [c \in Claim |-> IF c \in S THEN Transition(d.claims[c], After[c], t)
                                   ELSE d.claims[c]]
    /\ \A c \in Claim : c \in S =>
          /\ d.claims[c] # NoClaim /\ After[c] \in ClaimRow
          /\ After[c].status \in Forceful => After[c].status = d.claims[c].status
          /\ After[c].status \in Forceful \/ e.memories[MemoryOf(c)].status = "candidate" =>
                /\ After[c].validFrom = d.claims[c].validFrom
                /\ After[c].validTo = d.claims[c].validTo
    /\ \A c \in Claim : e.memories[MemoryOf(c)].status # d.memories[MemoryOf(c)].status =>
          IF c \in S THEN After[c].status \notin Forceful
          ELSE d.claims[c].status \notin Forceful

\* Such a pass is quiet.
LEMMA PassQuiet ==
    ASSUME NEW d, NEW e, NEW S, NEW After, NEW t \in Nat, Stored(d), Pass(d, e, S, After, t)
    PROVE  Quiet(d, e, t)
<1> USE DEF Pass
<1>1. ASSUME NEW c \in Claim
      PROVE  /\ ClaimQuiet(d, e, c, t)
             /\ \/ e.claims[c] = d.claims[c]
                \/ /\ d.claims[c] # NoClaim
                   /\ e.claims[c] \in ClaimRow /\ History(e.claims[c].versions)
  <2>1. CASE c \in S
    <3>1. d.claims[c] \in ClaimRow /\ d.claims[c] # NoClaim /\ After[c] \in ClaimRow
      BY <2>1 DEF Stored
    <3>2. History(d.claims[c].versions)
      BY <3>1 DEF Stored
    <3>3. e.claims[c] = Transition(d.claims[c], After[c], t)
      BY <2>1
    <3>4. Successor(d.claims[c], After[c], e.claims[c], t)
      BY <3>1, <3>2, <3>3, TransitionSucceeds
    <3>5. e.claims[c].status = After[c].status
      BY <3>4 DEF Successor
    <3>6. Unended(e, c) => /\ After[c].validFrom = d.claims[c].validFrom
                           /\ After[c].validTo = d.claims[c].validTo
      BY <2>1, <3>5 DEF Unended
    <3> QED BY <2>1, <3>1, <3>4, <3>6, SuccessorQuiet
  <2>2. CASE c \notin S
    <3>1. e.claims[c] = d.claims[c]
      BY <2>2
    <3>2. d.claims[c].status \in Forceful =>
             d.memories[MemoryOf(c)].status = e.memories[MemoryOf(c)].status
      BY <2>2
    <3> QED BY <3>1, <3>2, SameQuiet
  <2> QED BY <2>1, <2>2
<1>2. \A c \in Claim : e.claims[c] \in {NoClaim} \cup ClaimRow
  BY <1>1 DEF Stored
<1>3. e.claims \in [Claim -> {NoClaim} \cup ClaimRow]
  BY <1>2
<1>4. ASSUME NEW c \in Claim, e.claims[c] # NoClaim
      PROVE  /\ History(e.claims[c].versions)
             /\ EditionOf(c) <= Len(e.memories[MemoryOf(c)].texts)
  <2>1. d.claims[c] # NoClaim /\ MemoryOf(c) \in Memory
    BY <1>1, <1>4, ClaimParts
  <2>2. EditionOf(c) <= Len(d.memories[MemoryOf(c)].texts) /\ EditionOf(c) \in Nat
    BY <2>1, ClaimParts DEF Stored
  <2>3. Len(d.memories[MemoryOf(c)].texts) <= Len(e.memories[MemoryOf(c)].texts)
    BY <2>1 DEF MemoryQuiet, Prefix
  <2>4. /\ d.memories[MemoryOf(c)].texts \in Seq(Texts)
        /\ e.memories[MemoryOf(c)].texts \in Seq(Texts)
    BY <2>1 DEF Stored, MemoryRow
  <2> QED BY <1>1, <1>4, <2>1, <2>2, <2>3, <2>4 DEF Stored
<1>5. e.possible = d.possible /\ e.relations = d.relations
  OBVIOUS
<1>6. Stored(e)
  BY <1>3, <1>4, <1>5 DEF Stored
<1> QED BY <1>1, <1>5, <1>6 DEF Quiet

\* Expiry closes what is due and touches nothing else.
LEMMA ExpiredQuiet ==
    ASSUME NEW d, Base(d), clock \in Nat
    PROVE  /\ Quiet(d, Expired(d), clock)
           /\ \A m \in Memory : Expired(d).memories[m] =
                 IF Due(d.memories[m]) THEN [d.memories[m] EXCEPT !.status = "expired"]
                 ELSE d.memories[m]
<1> DEFINE e == Expired(d)
           due == {m \in Memory : Due(d.memories[m])}
           Close(row) == [row EXCEPT !.status = "historical",
                                     !.validTo = IF row.validTo = NULL THEN clock ELSE row.validTo]
           closed == UNION {LiveClaims(d, m) : m \in due}
           after == [c \in Claim |-> Close(d.claims[c])]
           moved == [c \in Claim |-> IF c \in closed
                                     THEN Transition(d.claims[c], after[c], clock)
                                     ELSE d.claims[c]]
           kept == [m \in Memory |-> IF m \in due THEN [d.memories[m] EXCEPT !.status = "expired"]
                                     ELSE d.memories[m]]
<1>0. Stored(d) /\ \A c \in Claim : MemoryOf(c) \in Memory
  BY ClaimParts DEF Base
<1>1. e = [memories |-> kept, claims |-> moved, possible |-> d.possible,
           relations |-> d.relations]
  <2>1. moved = Moved(d.claims, closed, Close)
    BY DEF Moved
  <2>2. e = [d EXCEPT !.memories = kept, !.claims = Moved(d.claims, closed, Close)]
    BY DEF Expired, Moved
  <2> HIDE DEF moved, kept, e
  <2> QED BY <1>0, <2>1, <2>2, DatabaseWith
<1> HIDE DEF e
<1>2. \A c \in Claim : c \in closed <=> /\ Due(d.memories[MemoryOf(c)])
                                        /\ d.claims[c].status \notin 
                                              {"absent", "historical", "rejected"}
  BY <1>0 DEF LiveClaims, ClaimsOf
<1>3. \A m \in Memory : /\ d.memories[m] \in MemoryRow
                        /\ kept[m] = IF Due(d.memories[m])
                                     THEN [d.memories[m] EXCEPT !.status = "expired"]
                                     ELSE d.memories[m]
  BY <1>0 DEF Stored
<1>4. \A m \in Memory : /\ kept[m] \in MemoryRow /\ kept[m].texts = d.memories[m].texts
                        /\ kept[m].created = d.memories[m].created
                        /\ kept[m].ttl = d.memories[m].ttl
                        /\ kept[m].anchored = d.memories[m].anchored
                        /\ kept[m].status = IF Due(d.memories[m]) THEN "expired"
                                            ELSE d.memories[m].status
  BY <1>3 DEF MemoryRow
<1>5. \A m \in Memory : /\ MemoryQuiet(d.memories[m], kept[m])
                        /\ Len(kept[m].texts) <= MaxEditions
                        /\ kept[m].status = "absent" => kept[m].texts = << >>
  <2> SUFFICES ASSUME NEW m \in Memory
               PROVE  /\ MemoryQuiet(d.memories[m], kept[m])
                      /\ Len(kept[m].texts) <= MaxEditions
                      /\ kept[m].status = "absent" => kept[m].texts = << >>
    OBVIOUS
  <2> HIDE DEF kept
  <2>1. MemoryQuiet(d.memories[m], kept[m])
    <3>1. /\ d.memories[m] \in MemoryRow
          /\ kept[m].texts = d.memories[m].texts /\ kept[m].anchored = d.memories[m].anchored
          /\ kept[m].created = d.memories[m].created /\ kept[m].ttl = d.memories[m].ttl
      BY <1>3, <1>4
    <3>2. kept[m].status = "expired" \/ kept[m].status = d.memories[m].status
      BY <1>4
    <3> QED BY <3>1, <3>2, MemorySame
  <2>2. /\ Len(d.memories[m].texts) <= MaxEditions
        /\ d.memories[m].status = "absent" => d.memories[m].texts = << >>
        /\ "expired" # "absent"
    BY <1>0 DEF Stored
  <2>3. kept[m].status \in {"expired", d.memories[m].status} /\ kept[m].texts = d.memories[m].texts
    BY <1>4
  <2> QED BY <2>1, <2>2, <2>3
<1>6. kept \in [Memory -> MemoryRow]
  BY <1>4
<1>7. \A c \in Claim : c \in closed =>
         /\ d.claims[c] # NoClaim /\ after[c] \in ClaimRow /\ after[c].status = "historical"
  <2> SUFFICES ASSUME NEW c \in Claim, c \in closed
               PROVE  d.claims[c] # NoClaim /\ after[c] \in ClaimRow
                      /\ after[c].status = "historical"
    OBVIOUS
  <2>1. d.claims[c].status # "absent"
    BY <1>2
  <2>2. d.claims[c] \in ClaimRow /\ d.claims[c] # NoClaim
    BY <2>1, <1>0 DEF Stored, NoClaim
  <2>3. d.claims[c].validTo \in End /\ "historical" \in Status /\ clock \in End
    BY <2>2 DEF ClaimRow, Status, End
  <2> QED BY <2>2, <2>3 DEF ClaimRow
<1>8. \A c \in Claim : kept[MemoryOf(c)].status # d.memories[MemoryOf(c)].status =>
         c \in closed \/ d.claims[c].status \notin Forceful
  BY <1>0, <1>2, <1>4 DEF Forceful
<1>9. \A c \in Claim : c \in closed => kept[MemoryOf(c)].status = "expired"
  BY <1>0, <1>2, <1>4
<1>10. "historical" \notin Forceful
  BY DEF Forceful
<1>11. e.memories = kept /\ e.claims = moved
  BY <1>1
<1> HIDE DEF kept, after, closed
<1>12. Quiet(d, e, clock)
  <2>1. e = [memories |-> e.memories, claims |-> e.claims, possible |-> d.possible,
             relations |-> d.relations]
    BY <1>1
  <2>2. e.claims = [c \in Claim |-> IF c \in closed THEN Transition(d.claims[c], after[c], clock)
                                    ELSE d.claims[c]]
    BY <1>11
  <2>3. \A c \in Claim : c \in closed =>
           /\ d.claims[c] # NoClaim /\ after[c] \in ClaimRow
           /\ after[c].status \in Forceful => after[c].status = d.claims[c].status
           /\ after[c].status \in Forceful \/ e.memories[MemoryOf(c)].status = "candidate" =>
                 /\ after[c].validFrom = d.claims[c].validFrom
                 /\ after[c].validTo = d.claims[c].validTo
    BY <1>7, <1>9, <1>10, <1>11
  <2>4. \A c \in Claim : e.memories[MemoryOf(c)].status # d.memories[MemoryOf(c)].status =>
           IF c \in closed THEN after[c].status \notin Forceful
           ELSE d.claims[c].status \notin Forceful
    BY <1>7, <1>8, <1>10, <1>11
  <2> HIDE DEF moved
  <2>5. /\ e.memories \in [Memory -> MemoryRow]
        /\ \A m \in Memory : /\ MemoryQuiet(d.memories[m], e.memories[m])
                             /\ Len(e.memories[m].texts) <= MaxEditions
                             /\ e.memories[m].status = "absent" => e.memories[m].texts = << >>
    BY <1>5, <1>6, <1>11
  <2>6. Pass(d, e, closed, after, clock)
    BY <2>1, <2>2, <2>3, <2>4, <2>5 DEF Pass
  <2> QED BY <1>0, <2>6, PassQuiet
<1> QED BY <1>3, <1>11, <1>12 DEF e

\* A database with other memories or other claims.
LEMMA DatabaseWithOne ==
    ASSUME NEW d, NEW M, NEW C, Stored(d)
    PROVE  /\ [d EXCEPT !.memories = M] =
                 [memories |-> M, claims |-> d.claims, possible |-> d.possible,
                  relations |-> d.relations]
           /\ [d EXCEPT !.claims = C] =
                 [memories |-> d.memories, claims |-> C, possible |-> d.possible,
                  relations |-> d.relations]
  BY DEF Stored

\* Claims stay as they are when only memories change.
LEMMA MemoriesQuiet ==
    ASSUME NEW d, NEW M, NEW t \in Nat, Stored(d), M \in [Memory -> MemoryRow],
           \A m \in Memory : /\ MemoryQuiet(d.memories[m], M[m])
                             /\ Len(M[m].texts) <= MaxEditions
                             /\ M[m].status = "absent" => M[m].texts = << >>,
           \A c \in Claim : d.claims[c].status \in Forceful =>
              M[MemoryOf(c)].status = d.memories[MemoryOf(c)].status
    PROVE  Quiet(d, [d EXCEPT !.memories = M], t)
<1> DEFINE e == [d EXCEPT !.memories = M]
           none == [c \in Claim |-> d.claims[c]]
<1>1. e = [memories |-> M, claims |-> d.claims, possible |-> d.possible,
           relations |-> d.relations]
  BY DatabaseWithOne
<1> HIDE DEF e
<1>2. /\ e = [memories |-> e.memories, claims |-> e.claims, possible |-> d.possible,
              relations |-> d.relations]
      /\ e.memories = M /\ e.claims = d.claims
  BY <1>1
<1>3. e.claims = [c \in Claim |-> IF c \in {} THEN Transition(d.claims[c], none[c], t)
                                  ELSE d.claims[c]]
  BY <1>2 DEF Stored
<1> HIDE DEF none
<1>4. Pass(d, e, {}, none, t)
  BY <1>2, <1>3 DEF Pass
<1> QED BY <1>4, PassQuiet DEF e

\* reject_claims and forget_claims move every claim of the memory.
Unlike(d, m, status) == {c \in ClaimsOf(d, m) : d.claims[c].status # status}

Brought(d, S, status) ==
    [c \in Claim |-> IF c \in S
                     THEN Transition(d.claims[c], [d.claims[c] EXCEPT !.status = status], clock)
                     ELSE d.claims[c]]

Settled(d, m, ms, cs) ==
    [d EXCEPT !.memories = WithStatus(d, {m}, ms), !.claims = Brought(d, Unlike(d, m, cs), cs)]

\* It puts nothing in force.
LEMMA SettledQuiet ==
    ASSUME NEW d, Stored(d), clock \in Nat, NEW m \in Memory,
           NEW ms \in {"rejected", "forgotten"}, NEW cs \in {"rejected", "historical"},
           ms = "rejected" => d.memories[m].status = "candidate"
    PROVE  Quiet(d, Settled(d, m, ms, cs), clock)
<1> DEFINE e == Settled(d, m, ms, cs)
           S == Unlike(d, m, cs)
           C == Brought(d, S, cs)
<1>a. /\ S = {c \in ClaimsOf(d, m) : d.claims[c].status # cs}
      /\ C = [c \in Claim |-> IF c \in S
                              THEN Transition(d.claims[c],
                                              [d.claims[c] EXCEPT !.status = cs], clock)
                              ELSE d.claims[c]]
      /\ e = [d EXCEPT !.memories = WithStatus(d, {m}, ms), !.claims = C]
  BY DEF Unlike, Brought, Settled
<1> HIDE DEF e, S, C
<1> DEFINE M == WithStatus(d, {m}, ms)
           after == [c \in Claim |-> [d.claims[c] EXCEPT !.status = cs]]
<1>1. e = [memories |-> M, claims |-> C, possible |-> d.possible,
           relations |-> d.relations]
  <2>1. e = [d EXCEPT !.memories = M, !.claims = C]  BY <1>a
  <2> HIDE DEF M
  <2> QED  BY <2>1, DatabaseWith
<1>2. \A k \in Memory : d.memories[k] \in MemoryRow
  BY DEF Stored
<1>3. M = [k \in Memory |-> IF k = m THEN [d.memories[k] EXCEPT !.status = ms] ELSE d.memories[k]]
  BY DEF WithStatus
<1> HIDE DEF M
<1>4. \A k \in Memory : /\ M[k] \in MemoryRow /\ M[k].texts = d.memories[k].texts
                        /\ M[k].created = d.memories[k].created /\ M[k].ttl = d.memories[k].ttl
                        /\ M[k].anchored = d.memories[k].anchored
                        /\ M[k].status = IF k = m THEN ms ELSE d.memories[k].status
  <2> SUFFICES ASSUME NEW k \in Memory
               PROVE  /\ M[k] \in MemoryRow /\ M[k].texts = d.memories[k].texts
                      /\ M[k].created = d.memories[k].created /\ M[k].ttl = d.memories[k].ttl
                      /\ M[k].anchored = d.memories[k].anchored
                      /\ M[k].status = IF k = m THEN ms ELSE d.memories[k].status
    OBVIOUS
  <2>1. CASE k = m
    BY <2>1, <1>2, <1>3 DEF MemoryRow
  <2>2. CASE k # m
    BY <2>2, <1>2, <1>3
  <2> QED BY <2>1, <2>2
<1>5. \A k \in Memory : /\ MemoryQuiet(d.memories[k], M[k])
                        /\ Len(M[k].texts) <= MaxEditions
                        /\ M[k].status = "absent" => M[k].texts = << >>
  <2> SUFFICES ASSUME NEW k \in Memory
               PROVE  /\ MemoryQuiet(d.memories[k], M[k])
                      /\ Len(M[k].texts) <= MaxEditions
                      /\ M[k].status = "absent" => M[k].texts = << >>
    OBVIOUS
  <2>1. MemoryQuiet(d.memories[k], M[k])
    BY <1>2, <1>4, MemorySame
  <2> QED BY <2>1, <1>4 DEF Stored
<1>6. M \in [Memory -> MemoryRow]
  BY <1>3, <1>4
<1>7. \A c \in Claim : MemoryOf(c) \in Memory
                       /\ (c \in S => d.claims[c].status # "absent" /\ MemoryOf(c) = m)
                       /\ (c \notin S /\ MemoryOf(c) = m => d.claims[c].status \notin Forceful)
  BY <1>a, ClaimParts DEF ClaimsOf, Forceful
<1>8. \A c \in Claim : c \in S =>
         /\ d.claims[c] # NoClaim /\ after[c] \in ClaimRow /\ after[c].status = cs
         /\ after[c].status \notin Forceful /\ MemoryOf(c) = m
  <2> SUFFICES ASSUME NEW c \in Claim, c \in S
               PROVE  /\ d.claims[c] # NoClaim /\ after[c] \in ClaimRow /\ after[c].status = cs
                      /\ after[c].status \notin Forceful /\ MemoryOf(c) = m
    OBVIOUS
  <2>1. d.claims[c].status # "absent" /\ MemoryOf(c) = m
    BY <1>7
  <2>2. d.claims[c] \in ClaimRow /\ d.claims[c] # NoClaim
    BY <2>1 DEF Stored, NoClaim
  <2>3. cs \in Status /\ cs \notin Forceful
    BY DEF Status, Forceful
  <2> QED BY <2>1, <2>2, <2>3 DEF ClaimRow
<1>9. C = [c \in Claim |-> IF c \in S THEN Transition(d.claims[c], after[c], clock)
                           ELSE d.claims[c]]
  BY <1>a, Zenon
<1> HIDE DEF after
<1>10. /\ e = [memories |-> e.memories, claims |-> e.claims, possible |-> d.possible,
               relations |-> d.relations]
       /\ e.memories = M /\ e.claims = C
  BY ONLY <1>1
<1>11. \A c \in Claim : c \in S =>
         /\ d.claims[c] # NoClaim /\ after[c] \in ClaimRow
         /\ after[c].status \in Forceful => after[c].status = d.claims[c].status
         /\ after[c].status \in Forceful \/ e.memories[MemoryOf(c)].status = "candidate" =>
               /\ after[c].validFrom = d.claims[c].validFrom
               /\ after[c].validTo = d.claims[c].validTo
  BY <1>4, <1>8, <1>10
<1>12. \A c \in Claim : e.memories[MemoryOf(c)].status # d.memories[MemoryOf(c)].status =>
         IF c \in S THEN after[c].status \notin Forceful ELSE d.claims[c].status \notin Forceful
  BY <1>4, <1>7, <1>8, <1>10
<1>13. Pass(d, e, S, after, clock)
  BY <1>5, <1>6, <1>9, <1>10, <1>11, <1>12 DEF Pass
<1> QED BY <1>13, PassQuiet DEF e

\* mark_memory_stale puts no claim in force: a claim that is not stale keeps
\* its status.
LEMMA MarkedQuiet ==
    ASSUME NEW d, Stored(d), clock \in Nat, NEW m \in Memory, NEW state \in StaleState
    PROVE  Quiet(d, Marked(d, m, state), clock)
<1> DEFINE e == Marked(d, m, state)
           S == {c \in ClaimsOf(d, m) : MarkedRow(d.claims[c], state) # d.claims[c]}
           after == [c \in Claim |-> MarkedRow(d.claims[c], state)]
           C == [c \in Claim |-> IF c \in S THEN Transition(d.claims[c], after[c], clock)
                                 ELSE d.claims[c]]
<1>1. e = [d EXCEPT !.claims = C]
  BY DEF Marked, Moved
<1> HIDE DEF e
<1>2. \A c \in Claim : c \in S =>
         /\ d.claims[c] # NoClaim /\ after[c] \in ClaimRow
         /\ after[c].status \in Forceful => after[c].status = d.claims[c].status
         /\ after[c].validFrom = d.claims[c].validFrom
         /\ after[c].validTo = d.claims[c].validTo
  <2> SUFFICES ASSUME NEW c \in Claim, c \in S
               PROVE  /\ d.claims[c] # NoClaim /\ after[c] \in ClaimRow
                      /\ after[c].status \in Forceful => after[c].status = d.claims[c].status
                      /\ after[c].validFrom = d.claims[c].validFrom
                      /\ after[c].validTo = d.claims[c].validTo
    OBVIOUS
  <2>1. d.claims[c].status # "absent"
    BY DEF ClaimsOf
  <2>2. d.claims[c] \in ClaimRow /\ d.claims[c] # NoClaim
    BY <2>1 DEF Stored, NoClaim
  <2>3. after[c] = MarkedRow(d.claims[c], state)
    OBVIOUS
  <2>4. "stale" \in Status /\ "stale" \notin Forceful
    BY DEF Status, Forceful
  <2> HIDE DEF after
  <2>5. CASE state = "stale"
    BY <2>2, <2>3, <2>4, <2>5 DEF MarkedRow, ClaimRow
  <2>6. CASE state # "stale"
    BY <2>2, <2>3, <2>6 DEF MarkedRow, ClaimRow
  <2> QED BY <2>5, <2>6
<1> HIDE DEF after, S
<1>3. e = [memories |-> d.memories, claims |-> C, possible |-> d.possible,
           relations |-> d.relations]
  <2> HIDE DEF C
  <2> QED BY <1>1, DatabaseWithOne
<1>4. /\ e = [memories |-> e.memories, claims |-> e.claims, possible |-> d.possible,
              relations |-> d.relations]
      /\ e.memories = d.memories /\ e.claims = C
  BY <1>3
<1>5. \A k \in Memory : /\ MemoryQuiet(d.memories[k], e.memories[k])
                        /\ Len(e.memories[k].texts) <= MaxEditions
                        /\ e.memories[k].status = "absent" => e.memories[k].texts = << >>
  BY <1>4, MemorySame DEF Stored
<1>6. e.memories \in [Memory -> MemoryRow]
  BY <1>4 DEF Stored
<1>7. Pass(d, e, S, after, clock)
  BY <1>2, <1>4, <1>5, <1>6 DEF Pass
<1> QED BY <1>7, PassQuiet DEF e

\* The text of a candidate is replaced and its claims are retired.
LEMMA EditedQuiet ==
    ASSUME NEW d, Stored(d), clock \in Nat, NEW m \in Memory, NEW e, NEW M, NEW C, NEW row,
           d.memories[m].status = "candidate", row \in MemoryRow,
           row.status = "candidate", Prefix(d.memories[m].texts, row.texts),
           AnchorsKept(d.memories[m], row),
           Len(row.texts) <= MaxEditions,
           M = [d.memories EXCEPT ![m] = row],
           C = [c \in Claim |-> IF c \in LiveClaims(d, m)
                                THEN Transition(d.claims[c],
                                                [d.claims[c] EXCEPT !.status = "historical"], clock)
                                ELSE d.claims[c]],
           e = [d EXCEPT !.memories = M, !.claims = C]
    PROVE  Quiet(d, e, clock)
<1> DEFINE after == [c \in Claim |-> [d.claims[c] EXCEPT !.status = "historical"]]
           S == LiveClaims(d, m)
<1>1. e = [memories |-> M, claims |-> C, possible |-> d.possible,
           relations |-> d.relations]
  BY DatabaseWith
<1>2. /\ e = [memories |-> e.memories, claims |-> e.claims, possible |-> d.possible,
              relations |-> d.relations]
      /\ e.memories = M /\ e.claims = C
  BY <1>1
<1>3. M \in [Memory -> MemoryRow] /\ M[m] = row /\ \A k \in Memory \ {m} : M[k] = d.memories[k]
  BY DEF Stored
<1>4. \A k \in Memory : /\ MemoryQuiet(d.memories[k], e.memories[k])
                        /\ Len(e.memories[k].texts) <= MaxEditions
                        /\ e.memories[k].status = "absent" => e.memories[k].texts = << >>
                        /\ e.memories[k].status = d.memories[k].status
  <2> SUFFICES ASSUME NEW k \in Memory
               PROVE  /\ MemoryQuiet(d.memories[k], e.memories[k])
                      /\ Len(e.memories[k].texts) <= MaxEditions
                      /\ e.memories[k].status = "absent" => e.memories[k].texts = << >>
                      /\ e.memories[k].status = d.memories[k].status
    OBVIOUS
  <2>1. CASE k = m
    BY <2>1, <1>2, <1>3 DEF MemoryQuiet
  <2>2. CASE k # m
    <3>1. e.memories[k] = d.memories[k] /\ d.memories[k] \in MemoryRow
      BY <2>2, <1>2, <1>3 DEF Stored
    <3> QED BY <3>1, MemorySame DEF Stored
  <2> QED BY <2>1, <2>2
<1>5. \A c \in Claim : c \in S =>
         /\ d.claims[c] # NoClaim /\ after[c] \in ClaimRow
         /\ after[c].status \notin Forceful
         /\ after[c].validFrom = d.claims[c].validFrom
         /\ after[c].validTo = d.claims[c].validTo
  <2> SUFFICES ASSUME NEW c \in Claim, c \in S
               PROVE  /\ d.claims[c] # NoClaim /\ after[c] \in ClaimRow
                      /\ after[c].status \notin Forceful
                      /\ after[c].validFrom = d.claims[c].validFrom
                      /\ after[c].validTo = d.claims[c].validTo
    OBVIOUS
  <2>1. d.claims[c].status # "absent"
    BY DEF LiveClaims, ClaimsOf
  <2>2. d.claims[c] \in ClaimRow /\ d.claims[c] # NoClaim
    BY <2>1 DEF Stored, NoClaim
  <2>3. "historical" \in Status /\ "historical" \notin Forceful
    BY DEF Status, Forceful
  <2> QED BY <2>2, <2>3 DEF ClaimRow
<1>6. e.claims = [c \in Claim |-> IF c \in S THEN Transition(d.claims[c], after[c], clock)
                                  ELSE d.claims[c]]
  BY <1>2
<1> HIDE DEF after, S
<1>7. \A c \in Claim : e.memories[MemoryOf(c)].status = d.memories[MemoryOf(c)].status
  BY <1>4, ClaimParts
<1>8. Pass(d, e, S, after, clock)
  BY <1>2, <1>3, <1>4, <1>5, <1>6, <1>7 DEF Pass
<1> QED BY <1>8, PassQuiet

-----------------------------------------------------------------------------
\* From d to e no history is rewritten and no text changed, and no relation
\* and no anchor is lost.
Advances(d, e, t) ==
    /\ \A c \in Claim : Grown(d.claims[c].versions, e.claims[c].versions, t)
    /\ \A m \in Memory : /\ Prefix(d.memories[m].texts, e.memories[m].texts)
                         /\ AnchorsKept(d.memories[m], e.memories[m])
    /\ d.relations \subseteq e.relations

\* A quiet pass only adds.
LEMMA QuietAdvances ==
    ASSUME NEW d, NEW e, NEW t, Quiet(d, e, t)
    PROVE  Advances(d, e, t)
  BY DEF Quiet, Advances, ClaimQuiet, MemoryQuiet

\* Rows of a stored database.
LEMMA StoredRows ==
    ASSUME NEW d, Stored(d)
    PROVE  /\ \A c \in Claim : /\ d.claims[c].versions \in Seq(Version)
                               /\ d.claims[c].status # "absent" => d.claims[c] # NoClaim
                               /\ d.claims[c] # NoClaim => d.claims[c] \in ClaimRow
           /\ \A m \in Memory : /\ d.memories[m] \in MemoryRow
                                /\ d.memories[m].texts \in Seq(Texts)
                                /\ d.memories[m].anchored \in Nat
<1>1. ASSUME NEW c \in Claim
      PROVE  /\ d.claims[c].versions \in Seq(Version)
             /\ d.claims[c].status # "absent" => d.claims[c] # NoClaim
             /\ d.claims[c] # NoClaim => d.claims[c] \in ClaimRow
  <2>0. d.claims[c] = NoClaim \/ d.claims[c] \in ClaimRow
    BY DEF Stored
  <2>1. CASE d.claims[c] = NoClaim
    BY <2>1 DEF NoClaim
  <2>2. CASE d.claims[c] \in ClaimRow
    BY <2>2 DEF ClaimRow, NoClaim
  <2> QED BY <2>0, <2>1, <2>2
<1>2. ASSUME NEW m \in Memory
      PROVE  /\ d.memories[m] \in MemoryRow /\ d.memories[m].texts \in Seq(Texts)
             /\ d.memories[m].anchored \in Nat
  <2>1. d.memories[m] \in MemoryRow
    BY DEF Stored
  <2> QED BY <2>1 DEF MemoryRow
<1> QED BY <1>1, <1>2

\* A memory keeps what it has.
LEMMA SameMemory ==
    ASSUME NEW d, Stored(d), NEW m \in Memory, NEW new, new.texts = d.memories[m].texts,
           new.anchored = d.memories[m].anchored
    PROVE  /\ Prefix(d.memories[m].texts, new.texts)
           /\ AnchorsKept(d.memories[m], new)
  BY StoredRows DEF Prefix, AnchorsKept

\* So do two passes, one after the other, ...
LEMMA AdvancesTwice ==
    ASSUME NEW t \in Nat, NEW d, NEW e, NEW f, Stored(d), Stored(e), Stored(f),
           Advances(d, e, t), Advances(e, f, t)
    PROVE  Advances(d, f, t)
<1>1. ASSUME NEW c \in Claim
      PROVE  Grown(d.claims[c].versions, f.claims[c].versions, t)
  BY StoredRows, GrownTwice DEF Advances
<1>2. ASSUME NEW m \in Memory PROVE Prefix(d.memories[m].texts, f.memories[m].texts)
  <2>1. /\ Prefix(d.memories[m].texts, e.memories[m].texts)
        /\ Prefix(e.memories[m].texts, f.memories[m].texts)
    BY DEF Advances
  <2>2. /\ d.memories[m].texts \in Seq(Texts) /\ e.memories[m].texts \in Seq(Texts)
        /\ f.memories[m].texts \in Seq(Texts)
    BY StoredRows
  <2>3. ASSUME NEW n \in DOMAIN d.memories[m].texts
        PROVE  f.memories[m].texts[n] = d.memories[m].texts[n]
    <3>1. n \in DOMAIN e.memories[m].texts
      BY <2>1, <2>2 DEF Prefix
    <3> QED BY <3>1, <2>1 DEF Prefix
  <2>4. Len(d.memories[m].texts) <= Len(f.memories[m].texts)
    <3> DEFINE x == d.memories[m].texts
               y == e.memories[m].texts
               z == f.memories[m].texts
    <3>1. x \in Seq(Texts) /\ y \in Seq(Texts) /\ z \in Seq(Texts)
      BY <2>2
    <3>2. Len(x) <= Len(y) /\ Len(y) <= Len(z)
      BY <2>1 DEF Prefix
    <3> HIDE DEF x, y, z
    <3>3. Len(x) \in Nat /\ Len(y) \in Nat /\ Len(z) \in Nat
      BY <3>1
    <3>4. Len(x) <= Len(z)
      BY <3>2, <3>3
    <3> QED BY <3>4 DEF x, z
  <2> QED BY <2>3, <2>4 DEF Prefix
<1>3. ASSUME NEW m \in Memory PROVE AnchorsKept(d.memories[m], f.memories[m])
  <2>1. /\ AnchorsKept(d.memories[m], e.memories[m])
        /\ AnchorsKept(e.memories[m], f.memories[m])
    BY DEF Advances
  <2>2. /\ d.memories[m].anchored \in Nat /\ e.memories[m].anchored \in Nat
        /\ f.memories[m].anchored \in Nat
    BY StoredRows
  <2> QED BY <2>1, <2>2 DEF AnchorsKept
<1> QED BY <1>1, <1>2, <1>3 DEF Advances

\* ... and no pass at all.
LEMMA AdvancesSame ==
    ASSUME NEW t, NEW d, NEW e, Stored(d), e.claims = d.claims, e.memories = d.memories,
           e.relations = d.relations
    PROVE  Advances(d, e, t)
<1>1. \A m \in Memory : /\ Prefix(d.memories[m].texts, d.memories[m].texts)
                        /\ AnchorsKept(d.memories[m], d.memories[m])
  BY StoredRows, SameMemory
<1>2. \A c \in Claim : Grown(d.claims[c].versions, d.claims[c].versions, t)
  BY StoredRows, GrownSame
<1> QED BY <1>1, <1>2 DEF Advances

-----------------------------------------------------------------------------
\* Extraction.

\* The claims of a text that has none yet are recorded now, accepted if and
\* only if their memory is active.
LEMMA ExtractedKeeps ==
    ASSUME NEW d, Base(d), clock \in Nat, NEW m \in Memory, NEW e, e = Extracted(d, m),
           d.memories[m].status \in {"candidate", "active"},
           \A c \in Claim : MemoryOf(c) = m /\ EditionOf(c) = Len(d.memories[m].texts)
                               => d.claims[c] = NoClaim
    PROVE  /\ Base(e) /\ Advances(d, e, clock)
           /\ e.memories = d.memories /\ e.possible = d.possible
           /\ \A c \in Claim : MemoryOf(c) # m => e.claims[c] = d.claims[c]
           /\ \A c \in Claim : d.claims[c] # NoClaim => e.claims[c] = d.claims[c]
           /\ \A c \in Claim : \/ e.claims[c] = d.claims[c]
                               \/ e.claims[c].status = IF d.memories[m].status = "active"
                                                       THEN "accepted" ELSE "candidate"
<1> DEFINE memory == d.memories[m]
           status == IF memory.status = "active" THEN "accepted" ELSE "candidate"
           row == [NoClaim EXCEPT !.status = status, !.validFrom = memory.from,
                                  !.validTo = memory.to, !.recorded = clock]
           New(c) == /\ MemoryOf(c) = m /\ EditionOf(c) = Len(memory.texts)
                     /\ Assertion(d, c) # NULL
           first == RecordInitial(row)
           v == Snapshot(row, clock)
           C == [c \in Claim |-> IF New(c) THEN first ELSE d.claims[c]]
<1>0. Stored(d) /\ memory \in MemoryRow
  BY StoredRows DEF Base
<1>1. e = [d EXCEPT !.claims = C]
  BY DEF Extracted
<1>2. e = [memories |-> d.memories, claims |-> C, possible |-> d.possible,
           relations |-> d.relations]
  <2> HIDE DEF C
  <2> QED BY <1>0, <1>1, DatabaseWithOne
<1>3. /\ e = [memories |-> e.memories, claims |-> e.claims, possible |-> e.possible,
              relations |-> e.relations]
      /\ e.memories = d.memories /\ e.claims = C /\ e.possible = d.possible
      /\ e.relations = d.relations
  BY ONLY <1>2
<1>4. memory.from \in End /\ memory.to \in End
  BY <1>0 DEF MemoryRow
<1>5. status \in Status /\ row.versions = << >> /\ row.recorded = clock
      /\ row.status = status
  BY DEF NoClaim, Status
<1>6. v = [status |-> status, stale |-> "unknown", validFrom |-> memory.from,
           validTo |-> memory.to, from |-> clock, to |-> NULL]
  BY DEF NoClaim, Snapshot
<1>7. v \in Version /\ v.to = NULL /\ v.status = status /\ v.from = clock
  BY <1>4, <1>5, <1>6 DEF Version, End, StaleState
<1>8. first = [row EXCEPT !.versions = << v >>]
  BY <1>5 DEF RecordInitial
<1>9. row \in [status: Status, stale: StaleState, validFrom: End, validTo: End,
               recorded: Nat, versions: {<< >>}]
  BY <1>4, <1>5 DEF NoClaim, StaleState, End
<1>10. first \in ClaimRow /\ first.versions = << v >> /\ first.status = status
  <2> HIDE DEF row, v
  <2>1. << v >> \in Seq(Version)
    BY <1>7
  <2>2. /\ row.status \in Status /\ row.stale \in StaleState /\ row.validFrom \in End
        /\ row.validTo \in End /\ row.recorded \in Nat
    BY <1>9
  <2>3. first = [status |-> row.status, stale |-> row.stale, validFrom |-> row.validFrom,
                 validTo |-> row.validTo, recorded |-> row.recorded, versions |-> << v >>]
    BY <1>8, <1>9
  <2> QED BY <1>5, <2>1, <2>2, <2>3 DEF ClaimRow
<1>11. History(first.versions) /\ Grown(<< >>, first.versions, clock)
  <2> HIDE DEF first, v
  <2>1. /\ << v >> \in Seq(Version) /\ Len(<< v >>) = 1 /\ DOMAIN << v >> = {1}
        /\ << v >>[1] = v /\ << v >> # << >>
    BY <1>7
  <2>2. History(<< v >>)
    BY <2>1, <1>7 DEF History
  <2>3. Grown(<< >>, << v >>, clock)
    <3>1. clock <= clock /\ Len(<< >>) <= 1
      OBVIOUS
    <3> QED BY <2>1, <3>1, <1>7 DEF Grown
  <2> QED BY <2>2, <2>3, <1>10
<1> HIDE DEF first, v, row
<1>12. \A c \in Claim : \/ e.claims[c] = d.claims[c]
                        \/ /\ New(c) /\ d.claims[c] = NoClaim /\ e.claims[c] = first
  BY <1>3
<1>13. first # NoClaim /\ NoClaim.versions = << >> /\ NoClaim.status = "absent"
  BY <1>10 DEF ClaimRow, NoClaim, Status
<1>14. Stored(e)
  <2>1. e.claims \in [Claim -> {NoClaim} \cup ClaimRow]
    BY <1>0, <1>3, <1>10 DEF Stored
  <2>2. ASSUME NEW c \in Claim, e.claims[c] # NoClaim
        PROVE  /\ History(e.claims[c].versions)
               /\ EditionOf(c) <= Len(e.memories[MemoryOf(c)].texts)
    <3>1. CASE e.claims[c] = d.claims[c]
      BY <2>2, <3>1, <1>0, <1>3 DEF Stored
    <3>2. CASE New(c) /\ e.claims[c] = first
      <4>1. EditionOf(c) <= EditionOf(c)
        BY ClaimParts
      <4> QED BY <3>2, <4>1, <1>3, <1>11
    <3> QED BY <3>1, <3>2, <1>12
  <2> QED BY <2>1, <2>2, <1>0, <1>3 DEF Stored
<1>15. Warranted(e)
  <2> SUFFICES ASSUME NEW c \in Claim
               PROVE  /\ (\E n \in DOMAIN e.claims[c].versions :
                             e.claims[c].versions[n].status \in Forceful)
                         => e.memories[MemoryOf(c)].status \notin {"candidate", "rejected"}
                      /\ e.claims[c].status \in Forceful
                         => e.memories[MemoryOf(c)].status \in {"active", "superseded"}
    BY DEF Warranted
  <2>1. CASE e.claims[c] = d.claims[c]
    BY <2>1, <1>3 DEF Base, Warranted
  <2>2. CASE New(c) /\ e.claims[c] = first
    <3>1. status \in Forceful => memory.status = "active"
      BY DEF Forceful
    <3>2. \A n \in DOMAIN << v >> : << v >>[n] = v
      OBVIOUS
    <3> QED BY <2>2, <3>1, <3>2, <1>3, <1>7, <1>10
  <2> QED BY <2>1, <2>2, <1>12
<1>16. Explained(e)
  <2>1. \A c \in Claim : e.claims[c].status = "contested" => d.claims[c].status = "contested"
    BY <1>10, <1>12
  <2> QED BY <2>1, <1>3 DEF Base, Explained
<1>17. \A c \in Claim : d.claims[c] # NoClaim => e.claims[c] = d.claims[c]
  BY <1>12
<1>18. Raised(e)
  <2> SUFFICES ASSUME NEW pair \in DOMAIN d.possible
               PROVE  \E c, x \in Claim :
                         /\ pair = {c, x} /\ MemoryOf(c) # MemoryOf(x)
                         /\ e.claims[c] # NoClaim /\ e.claims[x] # NoClaim
                         /\ Unended(e, c) /\ Unended(e, x) => Uncertain(e, c, x)
    BY <1>3 DEF Base, Raised
  <2>1. PICK c \in Claim, x \in Claim :
              /\ pair = {c, x} /\ MemoryOf(c) # MemoryOf(x)
              /\ d.claims[c] # NoClaim /\ d.claims[x] # NoClaim
              /\ Unended(d, c) /\ Unended(d, x) => Uncertain(d, c, x)
    BY DEF Base, Raised
  <2>2. /\ e.claims[c] = d.claims[c] /\ e.claims[x] = d.claims[x]
        /\ Assertion(e, c) = Assertion(d, c) /\ Assertion(e, x) = Assertion(d, x)
    BY <2>1, <1>3, <1>17 DEF Assertion
  <2>3. Unended(e, c) /\ Unended(e, x) => Uncertain(e, c, x)
    BY <2>1, <2>2, <1>3, RelationshipOfFields DEF Unended
  <2> QED BY <2>1, <2>2, <2>3
<1>19. Advances(d, e, clock)
  <2>1. \A c \in Claim : Grown(d.claims[c].versions, e.claims[c].versions, clock)
    BY <1>0, <1>11, <1>12, <1>13, StoredRows, GrownSame
  <2>2. \A k \in Memory : /\ Prefix(d.memories[k].texts, e.memories[k].texts)
                          /\ AnchorsKept(d.memories[k], e.memories[k])
    BY <1>0, <1>3, SameMemory
  <2> QED BY <1>3, <2>1, <2>2 DEF Advances
<1> QED BY <1>3, <1>10, <1>12, <1>14, <1>15, <1>16, <1>17, <1>18, <1>19 DEF Base

-----------------------------------------------------------------------------
\* Judging.

\* The pairs a confirm asks about.
LEMMA UncertainPair ==
    ASSUME NEW d, NEW m \in Memory, Stored(d), NEW pair \in UncertainPairs(d, m)
    PROVE  \E c \in LiveClaims(d, m), e \in ActiveClaims(d, m) :
              /\ pair = {c, e} /\ Uncertain(d, c, e)
<1>1. PICK c \in LiveClaims(d, m), e \in ActiveClaims(d, m) :
            pair = {c, e} /\ \E x, y \in pair : Uncertain(d, x, y)
  BY DEF UncertainPairs
<1>2. PICK x \in pair, y \in pair : Uncertain(d, x, y)
  BY <1>1
<1>3. x # y
  BY <1>2 DEF Uncertain
<1>4. Uncertain(d, c, e)
  BY <1>1, <1>2, <1>3, RelationshipSymmetric
<1> QED BY <1>1, <1>4

\* Their claims are those of the memory and of other memories.
LEMMA LiveAndActive ==
    ASSUME NEW d, NEW m \in Memory, Stored(d)
    PROVE  /\ \A c \in LiveClaims(d, m) : /\ c \in Claim /\ MemoryOf(c) = m
                                          /\ d.claims[c] # NoClaim
           /\ \A e \in ActiveClaims(d, m) : /\ e \in Claim /\ MemoryOf(e) # m
                                            /\ d.claims[e] # NoClaim /\ Unended(d, e)
<1>1. NoClaim.status = "absent"
  BY DEF NoClaim
<1> QED BY <1>1 DEF LiveClaims, ClaimsOf, ActiveClaims, Unended, Forceful

\* The verdicts on the pairs asked change neither memories nor claims.
LEMMA JudgedKeeps ==
    ASSUME NEW d, Base(d), NEW m \in Memory, NEW verdict \in [Asked(d, m) -> Verdict],
           NEW e, e = Judged(d, verdict)
    PROVE  /\ Base(e) /\ e.memories = d.memories /\ e.claims = d.claims
           /\ d.relations \subseteq e.relations
           /\ \A pair : Confirmed(e, pair) => \/ Confirmed(d, pair)
                                              \/ \E c \in pair : c \in LiveClaims(d, m)
<1> DEFINE P == [pair \in DOMAIN d.possible \cup DOMAIN verdict |->
                    IF pair \in DOMAIN verdict THEN [status |-> verdict[pair], resolved |-> FALSE]
                    ELSE d.possible[pair]]
           K == d.relations \cup {Relation("contradicts", pair) :
                    pair \in {p \in DOMAIN verdict : verdict[p] = "confirmed"}}
<1>0. Stored(d)
  BY DEF Base
<1>1. e = [d EXCEPT !.possible = P, !.relations = K]
  BY DEF Judged
<1>2. /\ e = [memories |-> e.memories, claims |-> e.claims, possible |-> e.possible,
              relations |-> e.relations]
      /\ e.memories = d.memories /\ e.claims = d.claims /\ e.possible = P
      /\ e.relations = K
  <2> DEFINE f == [d EXCEPT !.possible = P]
  <2> HIDE DEF P, K
  <2>1. f = [memories |-> d.memories, claims |-> d.claims, possible |-> P,
             relations |-> d.relations]
    BY <1>0 DEF Stored
  <2>2. e = [f EXCEPT !.relations = K]
    BY <1>1, SMT
  <2>3. e = [memories |-> d.memories, claims |-> d.claims, possible |-> P,
             relations |-> K]
    <3> HIDE DEF f
    <3> QED BY <2>1, <2>2
  <2> QED BY ONLY <2>3
<1>3. DOMAIN verdict = Asked(d, m) /\ \A pair \in Asked(d, m) : verdict[pair] \in Verdict
  OBVIOUS
<1>4. Verdict \subseteq {"possible", "confirmed", "dismissed", "abstained"}
  BY DEF Verdict
<1>5. /\ DOMAIN P = DOMAIN d.possible \cup Asked(d, m)
      /\ \A pair \in Asked(d, m) : P[pair].status = verdict[pair]
      /\ \A pair \in DOMAIN d.possible : pair \notin Asked(d, m) => P[pair] = d.possible[pair]
  BY <1>3
<1> HIDE DEF P
<1>6. Stored(e)
  BY <1>0, <1>2 DEF Stored
<1>7. Warranted(e)
  BY <1>2 DEF Base, Warranted
<1>8. Explained(e)
  BY <1>2 DEF Base, Explained
<1>9. \A c, x : /\ Unended(e, c) <=> Unended(d, c)
                /\ Uncertain(e, c, x) <=> Uncertain(d, c, x)
  BY <1>2 DEF Unended, Uncertain, Assertion, SameSlot
<1>10. Raised(e)
  <2> SUFFICES ASSUME NEW pair \in DOMAIN P
               PROVE  /\ P[pair].status \in {"possible", "confirmed", "dismissed", "abstained"}
                      /\ \E c, x \in Claim :
                            /\ pair = {c, x} /\ MemoryOf(c) # MemoryOf(x)
                            /\ d.claims[c] # NoClaim /\ d.claims[x] # NoClaim
                            /\ Unended(d, c) /\ Unended(d, x) => Uncertain(d, c, x)
    BY <1>2, <1>9 DEF Raised
  <2>1. CASE pair \in Asked(d, m)
    <3>1. pair \in UncertainPairs(d, m)
      BY <2>1 DEF Asked
    <3>2. PICK c \in LiveClaims(d, m), x \in ActiveClaims(d, m) :
                pair = {c, x} /\ Uncertain(d, c, x)
      BY <3>1, <1>0, UncertainPair
    <3>3. /\ c \in Claim /\ x \in Claim /\ MemoryOf(c) # MemoryOf(x)
          /\ d.claims[c] # NoClaim /\ d.claims[x] # NoClaim
      BY <1>0, LiveAndActive
    <3>4. P[pair].status \in {"possible", "confirmed", "dismissed", "abstained"}
      BY <2>1, <1>3, <1>4, <1>5
    <3> QED BY <3>2, <3>3, <3>4
  <2>2. CASE pair \notin Asked(d, m)
    <3>1. pair \in DOMAIN d.possible /\ P[pair] = d.possible[pair]
      BY <2>2, <1>5
    <3> QED BY <3>1 DEF Base, Raised
  <2> QED BY <2>1, <2>2
<1>11. ASSUME NEW pair, Confirmed(e, pair)
       PROVE  Confirmed(d, pair) \/ \E c \in pair : c \in LiveClaims(d, m)
  <2>1. CASE pair \in Asked(d, m)
    <3>1. pair \in UncertainPairs(d, m)
      BY <2>1 DEF Asked
    <3> QED BY <3>1 DEF UncertainPairs
  <2>2. CASE pair \notin Asked(d, m)
    BY <2>2, <1>2, <1>5, <1>11 DEF Confirmed
  <2> QED BY <2>1, <2>2
<1> QED BY <1>2, <1>6, <1>7, <1>8, <1>10, <1>11 DEF Base

-----------------------------------------------------------------------------
\* What keeps NoSilentConflict when a memory comes into force.

\* A claim of m whose memory is not among the conflicts of m does not conflict
\* with a claim of m: a stored confirmation is about an uncertain pair.
LEMMA NoConflictNoDispute ==
    ASSUME NEW d, Base(d), NEW m \in Memory, NEW c \in LiveClaims(d, m),
           NEW x \in ActiveClaims(d, m), Unended(d, c), MemoryOf(x) \notin Conflicts(d, m)
    PROVE  ~ClaimsConflict(d, c, x)
<1>1. /\ c \in Claim /\ x \in Claim /\ MemoryOf(x) \in Memory \ {m}
      /\ d.memories[MemoryOf(x)].status = "active" /\ Unended(d, x)
  BY ClaimParts, LiveAndActive DEF Base, LiveClaims, ClaimsOf, ActiveClaims
<1>2. ~Contradicts(d, c, x) /\ ~(Uncertain(d, c, x) /\ Confirmed(d, {c, x}))
  BY <1>1 DEF Conflicts
<1>3. ASSUME Confirmed(d, {c, x}) PROVE Uncertain(d, c, x)
  <2>1. PICK p \in Claim, q \in Claim :
              /\ {c, x} = {p, q}
              /\ Unended(d, p) /\ Unended(d, q) => Uncertain(d, p, q)
    BY <1>3 DEF Confirmed, Base, Raised
  <2>2. (p = c /\ q = x) \/ (p = x /\ q = c)
    BY <2>1
  <2> QED BY <2>1, <2>2, <1>1, RelationshipSymmetric
<1> QED BY <1>2, <1>3 DEF ClaimsConflict

\* Only the claims of m are new.
LEMMA UndisputedBeyond ==
    ASSUME NEW d, NEW e, NEW t, NEW m \in Memory, Undisputed(d, t),
           \A k \in Memory : k # m => e.memories[k] = d.memories[k],
           \A c \in Claim : MemoryOf(c) # m => e.claims[c] = d.claims[c],
           \A c, x \in Claim : MemoryOf(c) # m /\ MemoryOf(x) # m /\ Confirmed(e, {c, x})
                                  => Confirmed(d, {c, x}),
           \A c, x \in Claim :
              /\ MemoryOf(c) = m /\ MemoryOf(x) # m
              /\ e.claims[c].status = "accepted" /\ e.claims[x].status = "accepted"
              /\ HoldsIn(e, c, t) /\ HoldsIn(e, x, t)
              => ~ClaimsConflict(e, c, x)
    PROVE  Undisputed(e, t)
<1> SUFFICES ASSUME NEW c \in Claim, NEW x \in Claim,
                    e.claims[c].status = "accepted", e.claims[x].status = "accepted",
                    MemoryOf(c) # MemoryOf(x), HoldsIn(e, c, t), HoldsIn(e, x, t)
             PROVE  ~ClaimsConflict(e, c, x)
  BY DEF Undisputed
<1>1. CASE MemoryOf(c) = m
  BY <1>1
<1>2. CASE MemoryOf(x) = m
  BY <1>2, RelationshipSymmetric
<1>3. CASE MemoryOf(c) # m /\ MemoryOf(x) # m
  <2>1. /\ e.memories[MemoryOf(c)] = d.memories[MemoryOf(c)] /\ e.claims[c] = d.claims[c]
        /\ e.memories[MemoryOf(x)] = d.memories[MemoryOf(x)] /\ e.claims[x] = d.claims[x]
    BY <1>3, ClaimParts
  <2>2. HoldsIn(d, c, t) /\ HoldsIn(d, x, t)
    BY <2>1 DEF HoldsIn
  <2>3. ~ClaimsConflict(d, c, x)
    BY <2>1, <2>2 DEF Undisputed
  <2>4. Assertion(e, c) = Assertion(d, c) /\ Assertion(e, x) = Assertion(d, x)
    BY <2>1 DEF Assertion
  <2>5. Contradicts(e, c, x) <=> Contradicts(d, c, x)
    BY <2>1, <2>4, RelationshipOfFields
  <2> QED BY <1>3, <2>3, <2>5 DEF ClaimsConflict
<1> QED BY <1>1, <1>2, <1>3

\* Nothing is in force of a candidate.
LEMMA CandidateUnheld ==
    ASSUME NEW d, NEW c, NEW t, d.memories[MemoryOf(c)].status = "candidate"
    PROVE  ~HoldsIn(d, c, t)
  BY DEF HoldsIn

\* commit makes the database the one the call has built.
LEMMA Committed ==
    ASSUME NEW d, Commit(d),
           d = [memories |-> d.memories, claims |-> d.claims, possible |-> d.possible,
                relations |-> d.relations]
    PROVE  db' = d
<1>1. db' = [memories |-> d.memories, claims |-> d.claims, possible |-> d.possible,
             relations |-> d.relations]
  BY DEF db, Commit
<1> QED BY ONLY <1>1, d = [memories |-> d.memories, claims |-> d.claims,
                           possible |-> d.possible, relations |-> d.relations]

\* What the invariant says of a database at an instant, and of a step.
Sound(d, t) == Base(d) /\ Undisputed(d, t)

Follows(d, e, t) == Sound(e, t) /\ Advances(d, e, t)

\* A quiet pass is a sound step, ...
LEMMA QuietFollows ==
    ASSUME NEW d, NEW e, NEW t, Sound(d, t), Quiet(d, e, t)
    PROVE  Follows(d, e, t)
  BY QuietKeeps, QuietAdvances DEF Sound, Follows

\* ... and two sound steps are one.
LEMMA FollowsTwice ==
    ASSUME NEW d, NEW e, NEW f, NEW t \in Nat, Sound(d, t), Follows(d, e, t), Follows(e, f, t)
    PROVE  Follows(d, f, t)
  BY AdvancesTwice DEF Sound, Follows, Base

-----------------------------------------------------------------------------
\* Proposing.

\* The row of a proposal goes into an empty slot.
LEMMA RowQuiet ==
    ASSUME NEW d, Stored(d), NEW t \in Nat, NEW m \in Memory, NEW row \in MemoryRow,
           d.memories[m].status = "absent", row.status # "absent", row.status # "rejected",
           row.anchored = 0,
           Len(row.texts) <= MaxEditions, NEW M, M = [d.memories EXCEPT ![m] = row]
    PROVE  /\ Quiet(d, [d EXCEPT !.memories = M], t)
           /\ \A c \in Claim : MemoryOf(c) = m => d.claims[c] = NoClaim
<1>1. M \in [Memory -> MemoryRow] /\ M[m] = row /\ \A k \in Memory \ {m} : M[k] = d.memories[k]
  BY DEF Stored
<1>2. d.memories[m].texts = << >> /\ \A k \in Memory : d.memories[k] \in MemoryRow
  BY DEF Stored
<1>3. \A k \in Memory : /\ MemoryQuiet(d.memories[k], M[k])
                        /\ Len(M[k].texts) <= MaxEditions
                        /\ M[k].status = "absent" => M[k].texts = << >>
  <2> SUFFICES ASSUME NEW k \in Memory
               PROVE  /\ MemoryQuiet(d.memories[k], M[k])
                      /\ Len(M[k].texts) <= MaxEditions
                      /\ M[k].status = "absent" => M[k].texts = << >>
    OBVIOUS
  <2>1. CASE k = m
    <3>1. row.texts \in Seq(Texts)
      BY DEF MemoryRow
    <3>2. Prefix(<< >>, row.texts)
      BY <3>1 DEF Prefix
    <3>3. Len(<< >>) = 0 /\ Len(row.texts) \in Nat /\ d.memories[m].anchored \in Nat
      BY <3>1, StoredRows
    <3>4. AnchorsKept(d.memories[m], row)
      BY <3>3, <1>2 DEF AnchorsKept
    <3> QED BY <2>1, <3>2, <3>4, <1>1, <1>2 DEF MemoryQuiet
  <2>2. CASE k # m
    BY <2>2, <1>1, <1>2, MemorySame DEF Stored
  <2> QED BY <2>1, <2>2
<1>4. \A c \in Claim : MemoryOf(c) = m => d.claims[c] = NoClaim
  BY ClaimOfPresent
<1>5. \A c \in Claim : d.claims[c].status \in Forceful =>
         M[MemoryOf(c)].status = d.memories[MemoryOf(c)].status
  BY <1>1, <1>4, ClaimParts DEF NoClaim, Forceful
<1> QED BY <1>1, <1>3, <1>4, <1>5, MemoriesQuiet

\* Payloads become rows.
LEMMA RowOfPayload ==
    ASSUME NEW p \in Proposal, clock \in Nat, NEW row,
           row = [NoMemory EXCEPT
                     !.status = IF p.manual THEN "active" ELSE "candidate",
                     !.key = p.key, !.texts = << p.says >>, !.from = p.from,
                     !.to = p.to, !.created = clock, !.ttl = p.ttl]
    PROVE  /\ row \in MemoryRow /\ Len(row.texts) <= MaxEditions /\ row.anchored = 0
           /\ row.status = IF p.manual THEN "active" ELSE "candidate"
<1>1. row = [status |-> IF p.manual THEN "active" ELSE "candidate", key |-> p.key,
             texts |-> << p.says >>, from |-> p.from, to |-> p.to, created |-> clock,
             ttl |-> p.ttl, anchored |-> 0]
  BY DEF NoMemory
<1>2. p.key \in Keys /\ p.says \in Texts
  BY DEF Keys, Texts
<1>3. << p.says >> \in Seq(Texts) /\ Len(<< p.says >>) = 1
  BY <1>2
<1>4. p.from \in End /\ p.to \in End /\ p.ttl \in End
  BY PayloadAssumption
<1>5. 1 <= MaxEditions
  BY BoundsAssumption
<1>6. /\ row.status = IF p.manual THEN "active" ELSE "candidate"
      /\ row.texts = << p.says >> /\ row.anchored = 0
  BY ONLY <1>1
<1>7. row \in MemoryRow
  <2> DEFINE status == IF p.manual THEN "active" ELSE "candidate"
  <2>1. row = [status |-> status, key |-> p.key, texts |-> << p.says >>, from |-> p.from,
               to |-> p.to, created |-> clock, ttl |-> p.ttl, anchored |-> 0]
    BY <1>1
  <2>2. status \in {"absent", "candidate", "active", "superseded", "rejected",
                    "forgotten", "expired"}
    OBVIOUS
  <2> HIDE DEF status
  <2>3. clock \in Nat /\ 0 \in Nat
    OBVIOUS
  <2> QED BY ONLY <1>2, <1>3, <1>4, <2>1, <2>2, <2>3 DEF MemoryRow
<1> QED BY <1>3, <1>5, <1>6, <1>7

\* A proposal's row with its claims.
LEMMA CreatedKeeps ==
    ASSUME NEW d, Sound(d, clock), clock \in Nat, NEW m \in Memory, NEW p \in Proposal,
           d.memories[m].status = "absent", NEW e, e = Created(d, m, p)
    PROVE  /\ Base(e) /\ Advances(d, e, clock)
           /\ e.memories[m].status = IF p.manual THEN "active" ELSE "candidate"
           /\ e.possible = d.possible
           /\ \A k \in Memory : k # m => e.memories[k] = d.memories[k]
           /\ \A c \in Claim : MemoryOf(c) # m => e.claims[c] = d.claims[c]
<1> DEFINE row == [NoMemory EXCEPT
                     !.status = IF p.manual THEN "active" ELSE "candidate",
                     !.key = p.key, !.texts = << p.says >>, !.from = p.from,
                     !.to = p.to, !.created = clock, !.ttl = p.ttl]
           M == [d.memories EXCEPT ![m] = row]
           f == [d EXCEPT !.memories = M]
<1>0. Base(d) /\ Stored(d) /\ Undisputed(d, clock)
  BY DEF Sound, Base
<1>1. e = Extracted(f, m)
  BY DEF Created
<1>2. row \in MemoryRow /\ Len(row.texts) <= MaxEditions /\ row.anchored = 0
      /\ row.status = IF p.manual THEN "active" ELSE "candidate"
  BY RowOfPayload
<1> HIDE DEF row
<1>3. M[m] = row /\ \A k \in Memory : k # m => M[k] = d.memories[k]
  BY <1>0 DEF Stored
<1>4. row.status # "absent" /\ row.status # "rejected"
  BY <1>2
<1>5. /\ Quiet(d, f, clock)
      /\ \A c \in Claim : MemoryOf(c) = m => d.claims[c] = NoClaim
  <2> HIDE DEF f, M
  <2>1. f = [d EXCEPT !.memories = M] /\ M = [d.memories EXCEPT ![m] = row]
    BY DEF f, M
  <2> QED BY <1>0, <1>2, <1>4, <2>1, RowQuiet
<1>6. f.memories = M /\ f.claims = d.claims /\ f.possible = d.possible
  <2> HIDE DEF M
  <2>1. f = [memories |-> M, claims |-> d.claims, possible |-> d.possible,
             relations |-> d.relations]
    BY <1>0, DatabaseWithOne
  <2> QED BY ONLY <2>1
<1> HIDE DEF f, M
<1>7. Base(f) /\ Advances(d, f, clock) /\ Stored(f)
  BY <1>0, <1>5, QuietKeeps, QuietAdvances DEF Base
<1>8. f.memories[m].status \in {"candidate", "active"}
  BY <1>2, <1>3, <1>6
<1>9. \A c \in Claim : MemoryOf(c) = m /\ EditionOf(c) = Len(f.memories[m].texts)
                          => f.claims[c] = NoClaim
  BY <1>5, <1>6
<1>10. /\ Base(e) /\ Advances(f, e, clock)
       /\ e.memories = f.memories /\ e.possible = f.possible
       /\ \A c \in Claim : MemoryOf(c) # m => e.claims[c] = f.claims[c]
  BY <1>1, <1>7, <1>8, <1>9, ExtractedKeeps
<1>11. Advances(d, e, clock)
  BY <1>0, <1>7, <1>10, AdvancesTwice DEF Base
<1> QED BY <1>2, <1>3, <1>6, <1>10, <1>11

\* propose.
LEMMA ProposeFollows ==
    ASSUME Sound(db, clock), clock \in Nat, NEW m \in Memory, NEW p \in Proposal,
           Propose(m, p)
    PROVE  Follows(db, db', clock)
<1> DEFINE e == Created(db, m, p)
<1>1. db.memories[m].status = "absent"
  BY DEF Propose, Present, db
<1>0. Base(db) /\ Stored(db) /\ Undisputed(db, clock)
  BY DEF Sound, Base
<1>2. /\ Base(e) /\ Advances(db, e, clock)
      /\ e.memories[m].status = IF p.manual THEN "active" ELSE "candidate"
      /\ e.possible = db.possible
      /\ \A k \in Memory : k # m => e.memories[k] = db.memories[k]
      /\ \A c \in Claim : MemoryOf(c) # m => e.claims[c] = db.claims[c]
  BY <1>1, CreatedKeeps
<1> HIDE DEF e
<1>3. CASE ~p.manual /\ Commit(e)
  <2>1. db' = e
    BY <1>2, <1>3, Committed DEF Base, Stored
  <2>2. \A c \in Claim : MemoryOf(c) = m => ~HoldsIn(e, c, clock)
    BY <1>2, <1>3, CandidateUnheld
  <2>3. Undisputed(e, clock)
    <3>1. \A c, x : Confirmed(e, {c, x}) => Confirmed(db, {c, x})
      BY <1>2 DEF Confirmed
    <3> QED BY <1>0, <1>2, <2>2, <3>1, UndisputedBeyond
  <2> QED BY <1>2, <2>1, <2>3 DEF Follows, Sound
<1>4. ASSUME p.manual, NEW verdict \in [Asked(e, m) -> Verdict],
             Conflicts(Judged(e, verdict), m) = {}, Commit(Judged(e, verdict))
      PROVE  Follows(db, db', clock)
  <2> DEFINE g == Judged(e, verdict)
  <2>1. /\ Base(g) /\ g.memories = e.memories /\ g.claims = e.claims
        /\ e.relations \subseteq g.relations
        /\ \A pair : Confirmed(g, pair) => \/ Confirmed(e, pair)
                                           \/ \E c \in pair : c \in LiveClaims(e, m)
    BY <1>2, <1>4, JudgedKeeps
  <2>2. Conflicts(g, m) = {} /\ Commit(g)
    BY <1>4
  <2> HIDE DEF g
  <2>3. db' = g
    BY <2>1, <2>2, Committed DEF Base, Stored
  <2>4. Advances(db, g, clock)
    BY <1>2, <2>1 DEF Advances
  <2>5. Undisputed(g, clock)
    <3>1. \A c, x \in Claim : MemoryOf(c) # m /\ MemoryOf(x) # m /\ Confirmed(g, {c, x})
                                 => Confirmed(db, {c, x})
      BY <1>2, <2>1 DEF Confirmed, LiveClaims, ClaimsOf
    <3>2. ASSUME NEW c \in Claim, NEW x \in Claim, MemoryOf(c) = m, MemoryOf(x) # m,
                 g.claims[c].status = "accepted", g.claims[x].status = "accepted",
                 HoldsIn(g, x, clock)
          PROVE  ~ClaimsConflict(g, c, x)
      <4>1. c \in LiveClaims(g, m) /\ Unended(g, c)
        BY <3>2 DEF LiveClaims, ClaimsOf, Unended, Forceful
      <4>2. x \in ActiveClaims(g, m)
        BY <3>2 DEF ActiveClaims, HoldsIn
      <4> QED BY <2>1, <2>2, <4>1, <4>2, NoConflictNoDispute
    <3>3. /\ \A k \in Memory : k # m => g.memories[k] = db.memories[k]
          /\ \A c \in Claim : MemoryOf(c) # m => g.claims[c] = db.claims[c]
      BY <1>2, <2>1
    <3> QED BY <1>0, <3>1, <3>2, <3>3, UndisputedBeyond
  <2> QED BY <2>1, <2>3, <2>4, <2>5 DEF Follows, Sound
<1> QED BY <1>3, <1>4 DEF Propose, e

-----------------------------------------------------------------------------
\* Editing and rescheduling.

\* The claims of a candidate change nothing that is in force.
LEMMA ExtractedFollows ==
    ASSUME NEW d, Sound(d, clock), clock \in Nat, NEW m \in Memory,
           d.memories[m].status = "candidate",
           \A c \in Claim : MemoryOf(c) = m /\ EditionOf(c) = Len(d.memories[m].texts)
                               => d.claims[c] = NoClaim
    PROVE  Follows(d, Extracted(d, m), clock)
<1> DEFINE e == Extracted(d, m)
<1>0. Base(d) /\ Undisputed(d, clock)
  BY DEF Sound
<1>1. /\ Base(e) /\ Advances(d, e, clock)
      /\ e.memories = d.memories /\ e.possible = d.possible
      /\ \A c \in Claim : MemoryOf(c) # m => e.claims[c] = d.claims[c]
  BY <1>0, ExtractedKeeps
<1> HIDE DEF e
<1>2. \A c \in Claim : MemoryOf(c) = m => ~HoldsIn(e, c, clock)
  BY <1>1, CandidateUnheld
<1>3. \A c, x : Confirmed(e, {c, x}) => Confirmed(d, {c, x})
  BY <1>1 DEF Confirmed
<1>4. Undisputed(e, clock)
  BY <1>0, <1>1, <1>2, <1>3, UndisputedBeyond
<1> QED BY <1>1, <1>4 DEF Follows, Sound, e

\* An edited row.
LEMMA EditedRow ==
    ASSUME NEW old \in MemoryRow, NEW r \in Revision, Len(old.texts) < MaxEditions,
           NEW row, row = [old EXCEPT !.texts = Append(@, r.says), !.key = r.key]
    PROVE  /\ row \in MemoryRow /\ row.status = old.status
           /\ Prefix(old.texts, row.texts) /\ AnchorsKept(old, row)
           /\ Len(row.texts) = Len(old.texts) + 1 /\ Len(row.texts) <= MaxEditions
<1>1. r.key \in Keys /\ r.says \in Texts /\ old.texts \in Seq(Texts)
  BY DEF Keys, Texts, MemoryRow
<1> DEFINE s == old.texts
           g == Append(s, r.says)
<1>2. g \in Seq(Texts) /\ Len(g) = Len(s) + 1 /\ \A n \in DOMAIN s : g[n] = s[n]
  BY <1>1
<1>3. Len(s) \in Nat /\ MaxEditions \in Nat
  BY <1>1, BoundsAssumption
<1>4. Prefix(s, g) /\ Len(g) <= MaxEditions
  BY <1>2, <1>3 DEF Prefix
<1> HIDE DEF g
<1>5. row = [old EXCEPT !.texts = g, !.key = r.key]
  BY DEF g
<1>6. row \in MemoryRow /\ row.status = old.status /\ row.texts = g
      /\ row.anchored = old.anchored /\ old.anchored \in Nat
  BY <1>1, <1>2, <1>5 DEF MemoryRow
<1>7. AnchorsKept(old, row)
  BY <1>2, <1>3, <1>6 DEF AnchorsKept
<1> QED BY <1>2, <1>4, <1>6, <1>7

\* update of a text.
LEMMA EditFollows ==
    ASSUME Sound(db, clock), clock \in Nat, NEW m \in Memory, NEW r \in Revision, Edit(m, r)
    PROVE  Follows(db, db', clock)
<1> DEFINE old == memories[m]
           row == [old EXCEPT !.texts = Append(@, r.says), !.key = r.key]
           M == [memories EXCEPT ![m] = row]
           C == [c \in Claim |-> IF c \in LiveClaims(db, m)
                                 THEN Transition(claims[c],
                                                 [claims[c] EXCEPT !.status = "historical"], clock)
                                 ELSE claims[c]]
           d == [db EXCEPT !.memories = M, !.claims = C]
<1>0. /\ Base(db) /\ Stored(db) /\ db.memories = memories /\ db.claims = claims
      /\ memories \in [Memory -> MemoryRow]
  BY DEF Sound, Base, Stored, db
<1>1. old.status = "candidate" /\ Len(old.texts) < MaxEditions /\ old \in MemoryRow
  BY <1>0 DEF Edit
<1>2. /\ row \in MemoryRow /\ row.status = "candidate" /\ Prefix(old.texts, row.texts)
      /\ AnchorsKept(old, row)
      /\ Len(row.texts) = Len(old.texts) + 1 /\ Len(row.texts) <= MaxEditions
  BY <1>1, EditedRow
<1>3. [memories EXCEPT ![m].texts = Append(@, r.says), ![m].key = r.key] = M
  OBVIOUS
<1>4. Commit(Extracted(d, m))
  BY <1>0, <1>3 DEF Edit, Moved
<1>5. Quiet(db, d, clock)
  <2> HIDE DEF row
  <2>1. M = [db.memories EXCEPT ![m] = row] /\ db.memories[m] = old
    BY <1>0
  <2>2. C = [c \in Claim |-> IF c \in LiveClaims(db, m)
                             THEN Transition(db.claims[c],
                                             [db.claims[c] EXCEPT !.status = "historical"], clock)
                             ELSE db.claims[c]]
    BY <1>0
  <2> HIDE DEF M, C, old
  <2>3. d = [db EXCEPT !.memories = M, !.claims = C]
    OBVIOUS
  <2> HIDE DEF d
  <2> QED BY <1>0, <1>1, <1>2, <2>1, <2>2, <2>3, EditedQuiet
<1>6. d.memories = M /\ M[m] = row
  <2>1. M[m] = row
    BY <1>0
  <2> HIDE DEF M, C
  <2>2. d = [memories |-> M, claims |-> C, possible |-> db.possible,
             relations |-> db.relations]
    BY <1>0, DatabaseWith
  <2> QED BY ONLY <2>1, <2>2
<1> HIDE DEF d, M, C, row
<1>7. Follows(db, d, clock) /\ Sound(d, clock)
  BY <1>5, QuietFollows DEF Follows
<1>8. \A c \in Claim : MemoryOf(c) = m /\ EditionOf(c) = Len(d.memories[m].texts)
                          => d.claims[c] = NoClaim
  <2> SUFFICES ASSUME NEW c \in Claim, MemoryOf(c) = m, EditionOf(c) = Len(row.texts),
                      d.claims[c] # NoClaim
               PROVE  FALSE
    BY <1>6
  <2>1. db.claims[c] # NoClaim
    BY <1>5 DEF Quiet, ClaimQuiet
  <2>2. EditionOf(c) <= Len(old.texts)
    BY <1>0, <2>1 DEF Stored
  <2>3. Len(old.texts) \in Nat
    <3>1. old.texts \in Seq(Texts)
      BY <1>1 DEF MemoryRow
    <3> HIDE DEF old
    <3> QED BY <3>1
  <2> HIDE DEF old
  <2> QED BY <1>2, <2>2, <2>3
<1>9. Follows(d, Extracted(d, m), clock)
  BY <1>2, <1>6, <1>7, <1>8, ExtractedFollows
<1>10. db' = Extracted(d, m)
  BY <1>4, <1>9, Committed DEF Follows, Sound, Base, Stored
<1> QED BY <1>7, <1>9, <1>10, FollowsTwice

\* update of the validity.
LEMMA RescheduleFollows ==
    ASSUME Sound(db, clock), clock \in Nat, NEW m \in Memory, NEW s \in Schedule,
           Reschedule(m, s)
    PROVE  Follows(db, db', clock)
<1> DEFINE old == memories[m]
           row == [old EXCEPT !.from = s.from, !.to = s.to, !.ttl = s.ttl]
           M == [memories EXCEPT ![m] = row]
<1>0. /\ Base(db) /\ Stored(db) /\ db.memories = memories /\ db.claims = claims
      /\ memories \in [Memory -> MemoryRow]
  BY DEF Sound, Base, Stored, db
<1>1. old.status = "candidate" /\ old \in MemoryRow
  BY <1>0 DEF Reschedule
<1>2. /\ row \in MemoryRow /\ row.status = "candidate" /\ row.texts = old.texts
      /\ row.anchored = old.anchored
  BY <1>1, PayloadAssumption DEF MemoryRow
<1>3. memories' = M
  BY DEF Reschedule
<1>4. M \in [Memory -> MemoryRow] /\ M[m] = row /\ \A k \in Memory \ {m} : M[k] = memories[k]
  BY <1>0, <1>2
<1> HIDE DEF M, row
<1>5. \A k \in Memory : /\ MemoryQuiet(db.memories[k], M[k])
                        /\ Len(M[k].texts) <= MaxEditions
                        /\ M[k].status = "absent" => M[k].texts = << >>
                        /\ M[k].status = db.memories[k].status
  <2> SUFFICES ASSUME NEW k \in Memory
               PROVE  /\ MemoryQuiet(db.memories[k], M[k])
                      /\ Len(M[k].texts) <= MaxEditions
                      /\ M[k].status = "absent" => M[k].texts = << >>
                      /\ M[k].status = db.memories[k].status
    OBVIOUS
  <2>1. /\ M[k].status = memories[k].status /\ M[k].texts = memories[k].texts
        /\ M[k].anchored = memories[k].anchored
    BY <1>1, <1>2, <1>4
  <2>2. M[k].status = "active" => M[k] = memories[k]
    BY <1>2, <1>4
  <2>3. memories[k] \in MemoryRow
    BY <1>0
  <2>4. MemoryQuiet(memories[k], M[k])
    BY <2>1, <2>2, <2>3, MemorySame
  <2> QED BY <1>0, <2>1, <2>4 DEF Stored
<1>6. db' = [db EXCEPT !.memories = M]
  BY <1>3 DEF Reschedule, db
<1>7. Quiet(db, db', clock)
  BY <1>0, <1>4, <1>5, <1>6, ClaimParts, MemoriesQuiet
<1> QED BY <1>7, QuietFollows

-----------------------------------------------------------------------------
\* Anchors, expiry, rejecting and forgetting.

\* SourceAnchorService.create
LEMMA AnchorFollows ==
    ASSUME Sound(db, clock), clock \in Nat, NEW m \in Memory, Anchor(m)
    PROVE  Follows(db, db', clock)
<1> DEFINE last == Len(memories[m].texts)
           row == [memories[m] EXCEPT !.anchored = last]
           M == [memories EXCEPT ![m] = row]
           d == [db EXCEPT !.memories = M]
<1>0. /\ Base(db) /\ Stored(db) /\ db.memories = memories /\ db.claims = claims
      /\ memories \in [Memory -> MemoryRow] /\ memories[m] \in MemoryRow
  BY DEF Sound, Base, Stored, db
<1>1. [memories EXCEPT ![m].anchored = last] = M
  OBVIOUS
<1>2. Commit(Marked(d, m, "fresh"))
  BY <1>1 DEF Anchor
<1>3. /\ row \in MemoryRow /\ row.status = memories[m].status /\ row.texts = memories[m].texts
      /\ row.created = memories[m].created /\ row.ttl = memories[m].ttl
      /\ row.anchored = Len(row.texts) /\ Len(row.texts) \in Nat
  <2>1. memories[m].texts \in Seq(Texts)
    BY <1>0 DEF MemoryRow
  <2>2. last \in Nat /\ last = Len(memories[m].texts)
    BY <2>1
  <2> HIDE DEF last
  <2>3. /\ row \in MemoryRow /\ row.status = memories[m].status
        /\ row.texts = memories[m].texts /\ row.created = memories[m].created
        /\ row.ttl = memories[m].ttl /\ row.anchored = last
    BY <1>0, <2>2 DEF MemoryRow
  <2> HIDE DEF row
  <2> QED BY <2>2, <2>3
<1>4. M \in [Memory -> MemoryRow] /\ M[m] = row /\ \A k \in Memory \ {m} : M[k] = memories[k]
  BY <1>0, <1>3
<1> HIDE DEF row, M
<1>5. \A k \in Memory : /\ MemoryQuiet(db.memories[k], M[k])
                        /\ Len(M[k].texts) <= MaxEditions
                        /\ M[k].status = "absent" => M[k].texts = << >>
                        /\ M[k].status = db.memories[k].status
  <2> SUFFICES ASSUME NEW k \in Memory
               PROVE  /\ MemoryQuiet(db.memories[k], M[k])
                      /\ Len(M[k].texts) <= MaxEditions
                      /\ M[k].status = "absent" => M[k].texts = << >>
                      /\ M[k].status = db.memories[k].status
    OBVIOUS
  <2>1. /\ M[k].status = memories[k].status /\ M[k].texts = memories[k].texts
        /\ M[k].created = memories[k].created /\ M[k].ttl = memories[k].ttl
    BY <1>3, <1>4
  <2>2. memories[k] \in MemoryRow
    BY <1>0
  <2>3. MemoryQuiet(memories[k], M[k])
    <3>1. CASE k # m
      BY <2>1, <2>2, <3>1, <1>4, MemorySame
    <3>2. CASE k = m
      <4>1. AnchorsKept(memories[m], row) /\ Prefix(memories[m].texts, row.texts)
        BY <1>3, <2>2, <3>2 DEF AnchorsKept, Prefix, MemoryRow
      <4> QED BY <4>1, <2>1, <3>2, <1>4 DEF MemoryQuiet
    <3> QED BY <3>1, <3>2
  <2> QED BY <1>0, <2>1, <2>3 DEF Stored
<1>6. Quiet(db, d, clock)
  BY <1>0, <1>4, <1>5, ClaimParts, MemoriesQuiet
<1> HIDE DEF d
<1>7. Follows(db, d, clock) /\ Sound(d, clock) /\ Stored(d)
  BY <1>6, QuietFollows DEF Follows, Sound, Base
<1>8. Quiet(d, Marked(d, m, "fresh"), clock)
  BY <1>7, MarkedQuiet DEF StaleState
<1>9. Follows(d, Marked(d, m, "fresh"), clock)
  BY <1>7, <1>8, QuietFollows
<1>10. db' = Marked(d, m, "fresh")
  BY <1>2, <1>8, Committed DEF Quiet, Stored
<1> QED BY <1>7, <1>9, <1>10, FollowsTwice

\* SourceAnchorService.refresh
LEMMA RefreshFollows ==
    ASSUME Sound(db, clock), clock \in Nat, NEW m \in Memory, NEW state \in Observed,
           Refresh(m, state)
    PROVE  Follows(db, db', clock)
<1>1. state \in StaleState
  BY PayloadAssumption
<1>2. Quiet(db, Marked(db, m, state), clock)
  BY <1>1, MarkedQuiet DEF Sound, Base
<1>3. db' = Marked(db, m, state)
  BY <1>2, Committed DEF Refresh, Quiet, Stored
<1> QED BY <1>2, <1>3, QuietFollows

\* Every read sweeps first.
LEMMA ExpireDueFollows ==
    ASSUME Sound(db, clock), clock \in Nat, ExpireDue
    PROVE  Follows(db, db', clock)
<1>1. Quiet(db, Expired(db), clock)
  BY ExpiredQuiet DEF Sound
<1>2. db' = Expired(db)
  BY <1>1, Committed DEF ExpireDue, Quiet, Stored
<1> QED BY <1>1, <1>2, QuietFollows

\* reject_claims on a candidate.
LEMMA RefusedQuiet ==
    ASSUME NEW d, Stored(d), clock \in Nat, NEW m \in Memory,
           d.memories[m].status = "candidate"
    PROVE  Quiet(d, Refused(d, m), clock)
<1>1. Refused(d, m) = Settled(d, m, "rejected", "rejected")
  BY DEF Refused, Moved, Settled, Unlike, Brought
<1>2. Quiet(d, Settled(d, m, "rejected", "rejected"), clock)
  BY SettledQuiet
<1> QED BY <1>1, <1>2

\* reject
LEMMA RejectFollows ==
    ASSUME Sound(db, clock), clock \in Nat, NEW m \in Memory, Reject(m)
    PROVE  Follows(db, db', clock)
<1>1. Quiet(db, Refused(db, m), clock)
  BY RefusedQuiet DEF Sound, Base, Reject, db
<1>2. db' = Refused(db, m)
  BY <1>1, Committed DEF Reject, Quiet, Stored
<1> QED BY <1>1, <1>2, QuietFollows

\* forget
LEMMA ForgetFollows ==
    ASSUME Sound(db, clock), clock \in Nat, NEW m \in Memory, Forget(m)
    PROVE  Follows(db, db', clock)
<1> DEFINE e == Settled(db, m, "forgotten", "historical")
<1>0. db.claims = claims /\ Stored(db)
  BY DEF db, Sound, Base
<1>1. Commit(e)
  BY <1>0 DEF Forget, Moved, Settled, Unlike, Brought
<1>2. Quiet(db, e, clock)
  BY <1>0, SettledQuiet
<1> HIDE DEF e
<1>3. db' = e
  BY <1>1, <1>2, Committed DEF Quiet, Stored
<1> QED BY <1>2, <1>3, QuietFollows

-----------------------------------------------------------------------------
\* What a confirm starts from: what is due has expired, the judge has answered.
LEMMA JudgedDue ==
    ASSUME Sound(db, clock), clock \in Nat, NEW m \in Memory, Reviewable(m),
           NEW verdict \in [Asked(Expired(db), m) -> Verdict],
           NEW d, d = Judged(Expired(db), verdict)
    PROVE  Follows(db, d, clock) /\ Stored(d) /\ d.memories[m].status = "candidate"
<1> DEFINE due == Expired(db)
<1>1. Quiet(db, due, clock)
  BY ExpiredQuiet DEF Sound
<1>2. Follows(db, due, clock) /\ due.memories[m].status = "candidate"
  BY <1>1, QuietFollows DEF Reviewable
<1> HIDE DEF due
<1>3. /\ Base(d) /\ d.memories = due.memories /\ d.claims = due.claims
      /\ due.relations \subseteq d.relations
      /\ \A pair : Confirmed(d, pair) => \/ Confirmed(due, pair)
                                         \/ \E c \in pair : c \in LiveClaims(due, m)
  <2>1. Base(due) /\ verdict \in [Asked(due, m) -> Verdict] /\ d = Judged(due, verdict)
    BY <1>2 DEF Follows, Sound, due
  <2> QED BY <2>1, JudgedKeeps
<1>4. Undisputed(d, clock)
  <2>1. \A c, x \in Claim : MemoryOf(c) # m /\ MemoryOf(x) # m /\ Confirmed(d, {c, x})
                               => Confirmed(due, {c, x})
    BY <1>3 DEF LiveClaims, ClaimsOf
  <2>2. \A c \in Claim : MemoryOf(c) = m => ~HoldsIn(d, c, clock)
    BY <1>2, <1>3, CandidateUnheld
  <2>3. Undisputed(due, clock)
    BY <1>2 DEF Follows, Sound
  <2> QED BY <1>3, <2>1, <2>2, <2>3, UndisputedBeyond
<1>5. Advances(db, d, clock)
  BY <1>2, <1>3 DEF Follows, Advances
<1> QED BY <1>2, <1>3, <1>4, <1>5 DEF Follows, Sound, Base

\* confirm with strategy reject
LEMMA ConfirmRejectFollows ==
    ASSUME Sound(db, clock), clock \in Nat, NEW m \in Memory, ConfirmReject(m)
    PROVE  Follows(db, db', clock)
<1>1. PICK verdict \in [Asked(Expired(db), m) -> Verdict] :
            Commit(Refused(Judged(Expired(db), verdict), m))
  BY DEF ConfirmReject
<1> DEFINE d == Judged(Expired(db), verdict)
<1>2. Reviewable(m)
  BY DEF ConfirmReject
<1>3. Follows(db, d, clock) /\ Stored(d) /\ d.memories[m].status = "candidate"
  BY <1>2, JudgedDue
<1>4. Commit(Refused(d, m))
  BY <1>1
<1> HIDE DEF d
<1>5. Quiet(d, Refused(d, m), clock)
  BY <1>3, RefusedQuiet
<1>6. db' = Refused(d, m)
  BY <1>4, <1>5, Committed DEF Quiet, Stored
<1>7. Sound(d, clock)
  BY <1>3 DEF Follows
<1> QED BY <1>3, <1>5, <1>6, <1>7, QuietFollows, FollowsTwice

-----------------------------------------------------------------------------
\* Confirming.

\* From row to new the versions grow; both are rows.
Reaches(row, new, t) ==
    /\ new \in ClaimRow /\ History(new.versions)
    /\ Grown(row.versions, new.versions, t)

\* A transition to a new status.
LEMMA StatusReaches ==
    ASSUME NEW row \in ClaimRow, History(row.versions), NEW t \in Nat,
           NEW status \in Status, NEW new,
           new = Transition(row, [row EXCEPT !.status = status], t)
    PROVE  /\ Reaches(row, new, t) /\ new.status = status
           /\ new.validFrom = row.validFrom /\ new.validTo = row.validTo
<1> DEFINE a == [row EXCEPT !.status = status]
<1>1. /\ a \in ClaimRow /\ a.status = status
      /\ a.validFrom = row.validFrom /\ a.validTo = row.validTo
  BY DEF ClaimRow
<1> HIDE DEF a
<1>2. Successor(row, a, Transition(row, a, t), t)
  BY <1>1, TransitionSucceeds
<1>3. new = Transition(row, a, t)
  BY DEF a
<1> QED BY <1>1, <1>2, <1>3 DEF Successor, Reaches

\* The claims of the memories in conflict that claims of m conflict with.
Clash(d, m, conflicts) ==
    {pair \in LiveClaims(d, m) \X {e \in Claim : /\ MemoryOf(e) \in conflicts
                                                 /\ d.claims[e].status \in Forceful} :
        ClaimsConflict(d, pair[1], pair[2])}

Clashing(d, m, conflicts) == {pair[1] : pair \in Clash(d, m, conflicts)}

Beaten(d, m, conflicts) == {pair[2] : pair \in Clash(d, m, conflicts)}

\* What activate_claims does to a claim of the memory ...
OwnRow(d, e, m, strategy, conflicts, c) ==
    /\ Reaches(d.claims[c], e.claims[c], clock)
    /\ e.claims[c].validFrom = d.claims[c].validFrom
    /\ e.claims[c].validTo = d.claims[c].validTo
    /\ e.claims[c].status = IF strategy = "keep_both" /\ c \in Clashing(d, m, conflicts)
                            THEN "contested" ELSE "accepted"

\* ... and to one it beats.
BeatenRow(d, e, strategy, c) ==
    /\ Reaches(d.claims[c], e.claims[c], clock)
    /\ e.claims[c].validFrom = d.claims[c].validFrom
    /\ IF strategy = "supersede" THEN e.claims[c].status = "superseded"
       ELSE /\ strategy = "keep_both" => /\ e.claims[c].status = "contested"
                                         /\ e.claims[c].validTo = d.claims[c].validTo
            /\ strategy # "keep_both" => e.claims[c] = d.claims[c]

\* The two sides of a clash.
LEMMA ClashParts ==
    ASSUME NEW d, NEW m \in Memory, NEW conflicts, m \notin conflicts
    PROVE  /\ \A c \in Clashing(d, m, conflicts) :
                 /\ c \in LiveClaims(d, m)
                 /\ \E x \in Claim : <<c, x>> \in Clash(d, m, conflicts)
           /\ \A x \in Beaten(d, m, conflicts) :
                 /\ x \in Claim /\ MemoryOf(x) \in conflicts /\ x \notin LiveClaims(d, m)
                 /\ d.claims[x].status \in Forceful
                 /\ \E c \in Claim : <<c, x>> \in Clash(d, m, conflicts)
           /\ \A c \in LiveClaims(d, m), x \in Claim :
                 /\ MemoryOf(x) \in conflicts /\ d.claims[x].status \in Forceful
                 /\ ClaimsConflict(d, c, x)
                 => c \in Clashing(d, m, conflicts) /\ x \in Beaten(d, m, conflicts)
<1>1. \A pair \in Clash(d, m, conflicts) :
         /\ pair = <<pair[1], pair[2]>> /\ pair[1] \in LiveClaims(d, m) /\ pair[2] \in Claim
         /\ pair[1] \in Claim /\ MemoryOf(pair[1]) = m
         /\ MemoryOf(pair[2]) \in conflicts /\ d.claims[pair[2]].status \in Forceful
  BY DEF Clash, LiveClaims, ClaimsOf
<1>2. \A c \in Clashing(d, m, conflicts) :
         /\ c \in LiveClaims(d, m)
         /\ \E x \in Claim : <<c, x>> \in Clash(d, m, conflicts)
  BY <1>1 DEF Clashing
<1>3. \A x \in Beaten(d, m, conflicts) :
         /\ x \in Claim /\ MemoryOf(x) \in conflicts /\ x \notin LiveClaims(d, m)
         /\ d.claims[x].status \in Forceful
         /\ \E c \in Claim : <<c, x>> \in Clash(d, m, conflicts)
  BY <1>1 DEF Beaten, LiveClaims, ClaimsOf
<1>4. ASSUME NEW c \in LiveClaims(d, m), NEW x \in Claim, MemoryOf(x) \in conflicts,
             d.claims[x].status \in Forceful, ClaimsConflict(d, c, x)
      PROVE  c \in Clashing(d, m, conflicts) /\ x \in Beaten(d, m, conflicts)
  <2>1. <<c, x>> \in Clash(d, m, conflicts)
    BY <1>4 DEF Clash
  <2>2. <<c, x>>[1] = c /\ <<c, x>>[2] = x
    OBVIOUS
  <2> QED BY <2>1, <2>2 DEF Clashing, Beaten
<1> QED BY <1>2, <1>3, <1>4

\* The relations of activate_claims.
Related(d, m, strategy, conflicts) ==
    {Relation(IF strategy = "supersede" THEN "supersedes" ELSE "contradicts",
              {pair[1], pair[2]}) : pair \in Clash(d, m, conflicts)}

\* activate_claims, claim by claim.
Activates(d, e, m, strategy, conflicts) ==
    /\ e = [memories |-> e.memories, claims |-> e.claims, possible |-> e.possible,
            relations |-> e.relations]
    /\ e.memories = d.memories /\ e.possible = d.possible
    /\ e.relations = d.relations \cup Related(d, m, strategy, conflicts)
    /\ e.claims = [c \in Claim |-> e.claims[c]]
    /\ \A c \in Claim :
          /\ c \in LiveClaims(d, m) => OwnRow(d, e, m, strategy, conflicts, c)
          /\ c \in Beaten(d, m, conflicts) => BeatenRow(d, e, strategy, c)
          /\ c \notin LiveClaims(d, m) \cup Beaten(d, m, conflicts) => e.claims[c] = d.claims[c]

\* The rows of activate_claims.
LEMMA ActivatedRows ==
    ASSUME NEW d, Stored(d), clock \in Nat, NEW m \in Memory, NEW conflicts, m \notin conflicts,
           NEW strategy,
           \A c \in LiveClaims(d, m) : d.claims[c].status \notin Forceful
    PROVE  Activates(d, Activated(d, m, strategy, conflicts), m, strategy, conflicts)
<1> DEFINE e == Activated(d, m, strategy, conflicts)
<1> DEFINE own == LiveClaims(d, m)
           clash == Clash(d, m, conflicts)
           beaten == Beaten(d, m, conflicts)
           disputed == IF strategy = "keep_both" THEN Clashing(d, m, conflicts) \cup beaten
                       ELSE {}
           End1(row) == IF row.validTo = NULL THEN clock ELSE row.validTo
           one == [c \in Claim |->
                     IF c \in {x \in own : d.claims[x].status # "accepted"}
                     THEN Transition(d.claims[c], [d.claims[c] EXCEPT !.status = "accepted"], clock)
                     ELSE d.claims[c]]
           lost == [c \in Claim |->
                     IF c \in beaten
                     THEN Transition(one[c], [one[c] EXCEPT !.status = "superseded",
                                                            !.validTo = End1(one[c])], clock)
                     ELSE one[c]]
           two == IF strategy = "supersede" THEN lost ELSE one
           three == [c \in Claim |->
                     IF c \in {x \in disputed : two[x].status # "contested"}
                     THEN Transition(two[c], [two[c] EXCEPT !.status = "contested"], clock)
                     ELSE two[c]]
           K == d.relations \cup Related(d, m, strategy, conflicts)
<1>1. e = [d EXCEPT !.claims = three, !.relations = K]
  BY Zenon DEF Activated, Moved, Clash, Clashing, Beaten, Forceful, Related
<1> HIDE DEF e
<1>2. e = [memories |-> d.memories, claims |-> three, possible |-> d.possible,
           relations |-> K]
  <2> HIDE DEF three, K
  <2> DEFINE f == [d EXCEPT !.claims = three]
  <2>1. f = [memories |-> d.memories, claims |-> three, possible |-> d.possible,
             relations |-> d.relations]
    BY DatabaseWithOne
  <2>2. e = [f EXCEPT !.relations = K]
    BY <1>1, SMT
  <2> HIDE DEF f
  <2> QED BY <2>1, <2>2
<1>3. /\ e = [memories |-> e.memories, claims |-> e.claims, possible |-> e.possible,
              relations |-> e.relations]
      /\ e.memories = d.memories /\ e.possible = d.possible
      /\ e.relations = K /\ e.claims = three
  BY ONLY <1>2
<1>4. ASSUME NEW c \in Claim
      PROVE  /\ c \in own => OwnRow(d, e, m, strategy, conflicts, c)
             /\ c \in beaten => BeatenRow(d, e, strategy, c)
             /\ c \notin own \cup beaten => e.claims[c] = d.claims[c]
  <2> DEFINE r0 == d.claims[c]
             r1 == one[c]
             r2 == two[c]
             r3 == three[c]
  <2>0. /\ r1 = IF c \in own /\ r0.status # "accepted"
                THEN Transition(r0, [r0 EXCEPT !.status = "accepted"], clock) ELSE r0
        /\ r2 = IF strategy = "supersede" /\ c \in beaten
                THEN Transition(r1,
                                [r1 EXCEPT !.status = "superseded", !.validTo = End1(r1)], clock)
                ELSE r1
        /\ r3 = IF c \in disputed /\ r2.status # "contested"
                THEN Transition(r2, [r2 EXCEPT !.status = "contested"], clock) ELSE r2
        /\ e.claims[c] = r3
    <3>1. r1 = IF c \in own /\ r0.status # "accepted"
                THEN Transition(r0, [r0 EXCEPT !.status = "accepted"], clock) ELSE r0
      BY Zenon
    <3>2. r2 = IF strategy = "supersede" /\ c \in beaten
               THEN Transition(r1, [r1 EXCEPT !.status = "superseded", !.validTo = End1(r1)], clock)
               ELSE r1
      <4> HIDE DEF one, beaten
      <4> QED BY Zenon
    <3>3. r3 = IF c \in disputed /\ r2.status # "contested"
               THEN Transition(r2, [r2 EXCEPT !.status = "contested"], clock) ELSE r2
      <4> HIDE DEF two, disputed
      <4> QED BY Zenon
    <3>4. e.claims[c] = r3
      BY <1>3
    <3> QED BY <3>1, <3>2, <3>3, <3>4
  <2>1. \A status \in {"accepted", "contested", "superseded"} : status \in Status
    BY DEF Status
  <2>2. c \in own \cup beaten => /\ r0 \in ClaimRow /\ History(r0.versions)
                                 /\ r0.versions \in Seq(Version)
    BY StoredRows, ClashParts DEF Stored, LiveClaims, ClaimsOf, Forceful, NoClaim
  <2>3. /\ c \in own => r0.status \notin Forceful /\ c \notin beaten
        /\ c \in beaten => r0.status \in Forceful /\ c \notin own
        /\ c \in Clashing(d, m, conflicts) => c \in own
    BY ClashParts
  <2>4. r0 = d.claims[c] /\ e.claims[c] = r3
    BY <2>0
  <2> HIDE DEF r0, r1, r2, r3, one, two, three, lost, own, beaten
  <2>5. CASE c \in own
    <3>1. r1 = Transition(r0, [r0 EXCEPT !.status = "accepted"], clock) /\ r2 = r1
      BY <2>0, <2>3, <2>5 DEF Forceful
    <3>2. /\ Reaches(r0, r1, clock) /\ r1.status = "accepted"
          /\ r1.validFrom = r0.validFrom /\ r1.validTo = r0.validTo
      BY <2>1, <2>2, <2>5, <3>1, StatusReaches
    <3>3. CASE strategy = "keep_both" /\ c \in Clashing(d, m, conflicts)
      <4>1. r3 = Transition(r1, [r1 EXCEPT !.status = "contested"], clock)
        BY <2>0, <3>1, <3>2, <3>3
      <4>2. r1 \in ClaimRow /\ History(r1.versions) /\ r1.versions \in Seq(Version)
        BY <3>2 DEF Reaches, ClaimRow
      <4>3. /\ Reaches(r1, r3, clock) /\ r3.status = "contested"
            /\ r3.validFrom = r1.validFrom /\ r3.validTo = r1.validTo
        BY <2>1, <4>1, <4>2, StatusReaches
      <4>4. r3.versions \in Seq(Version)
        BY <4>3 DEF Reaches, ClaimRow
      <4>5. Reaches(r0, r3, clock)
        BY <2>2, <2>5, <3>2, <4>2, <4>3, <4>4, GrownTwice DEF Reaches
      <4> QED BY <2>3, <2>4, <2>5, <3>2, <3>3, <4>3, <4>5 DEF OwnRow
    <3>4. CASE ~(strategy = "keep_both" /\ c \in Clashing(d, m, conflicts))
      <4>1. r3 = r1
        BY <2>0, <2>3, <2>5, <3>1, <3>4
      <4> QED BY <2>3, <2>4, <2>5, <3>2, <3>4, <4>1 DEF OwnRow
    <3> QED BY <3>3, <3>4
  <2>6. CASE c \in beaten
    <3>1. r1 = r0
      BY <2>0, <2>3, <2>6
    <3>2. Reaches(r0, r0, clock)
      BY <2>2, <2>6, GrownSame DEF Reaches
    <3>3. CASE strategy = "supersede"
      <4>1. r3 = Transition(r0, [r0 EXCEPT !.status = "superseded", !.validTo = End1(r0)], clock)
        BY <2>0, <2>6, <3>1, <3>3
      <4>2. End1(r0) \in End
        BY <2>2, <2>6 DEF ClaimRow, End
      <4>3. /\ Reaches(r0, r3, clock) /\ r3.status = "superseded"
            /\ r3.validFrom = r0.validFrom
        <5> DEFINE after == [r0 EXCEPT !.status = "superseded", !.validTo = End1(r0)]
        <5>1. r3 = Transition(r0, after, clock)
          BY <4>1
        <5> HIDE DEF End1
        <5>2. r0 \in ClaimRow /\ History(r0.versions) /\ "superseded" \in Status
          BY <2>1, <2>2, <2>6
        <5>3. /\ after \in ClaimRow /\ after.status = "superseded"
              /\ after.validFrom = r0.validFrom
          BY ONLY <4>2, <5>2 DEF ClaimRow
        <5> HIDE DEF after
        <5>4. Successor(r0, after, r3, clock)
          BY <5>1, <5>2, <5>3, TransitionSucceeds
        <5> QED BY <5>3, <5>4 DEF Successor, Reaches
      <4> QED BY <2>3, <2>4, <2>6, <3>3, <4>3 DEF BeatenRow
    <3>4. CASE strategy = "keep_both"
      <4>1. r3 = IF r0.status # "contested"
                 THEN Transition(r0, [r0 EXCEPT !.status = "contested"], clock) ELSE r0
        BY <2>0, <2>6, <3>1, <3>4
      <4>2. /\ Reaches(r0, r3, clock) /\ r3.status = "contested"
            /\ r3.validFrom = r0.validFrom /\ r3.validTo = r0.validTo
        <5>1. CASE r0.status = "contested"
          BY <3>2, <4>1, <5>1
        <5>2. CASE r0.status # "contested"
          BY <2>1, <2>2, <2>6, <4>1, <5>2, StatusReaches
        <5> QED BY <5>1, <5>2
      <4> QED BY <2>3, <2>4, <2>6, <3>4, <4>2 DEF BeatenRow
    <3>5. CASE strategy \notin {"supersede", "keep_both"}
      <4>1. r3 = r0
        BY <2>0, <3>1, <3>5
      <4> QED BY <2>3, <2>4, <2>6, <3>2, <3>5, <4>1 DEF BeatenRow
    <3> QED BY <3>3, <3>4, <3>5
  <2>7. CASE c \notin own \cup beaten
    <3>1. r1 = r0 /\ r2 = r1 /\ r3 = r2
      BY <2>0, <2>3, <2>7
    <3> QED BY <2>4, <2>7, <3>1
  <2> QED BY <2>5, <2>6, <2>7
<1>5. e.claims = [c \in Claim |-> e.claims[c]]
  BY <1>3
<1> HIDE DEF three
<1> QED BY <1>3, <1>4, <1>5 DEF Activates, e

-----------------------------------------------------------------------------
\* A confirm as a step of the database.

\* The memories a confirm leaves.
Confirmation(d, m, replaced) ==
    WithStatus([memories |-> WithStatus(d, replaced, "superseded")], {m}, "active")

Replaces(d, M, m, replaced) ==
    /\ M \in [Memory -> MemoryRow]
    /\ \A k \in Memory :
          /\ M[k].status = IF k = m THEN "active"
                           ELSE IF k \in replaced THEN "superseded"
                           ELSE d.memories[k].status
          /\ M[k].texts = d.memories[k].texts /\ M[k].anchored = d.memories[k].anchored
          /\ k # m /\ k \notin replaced => M[k] = d.memories[k]

\* The rows of a confirm.
LEMMA ConfirmedMemories ==
    ASSUME NEW d, Stored(d), NEW m \in Memory, NEW replaced, m \notin replaced
    PROVE  Replaces(d, Confirmation(d, m, replaced), m, replaced)
<1> DEFINE M == Confirmation(d, m, replaced)
<1> DEFINE N == WithStatus(d, replaced, "superseded")
<1>1. \A k \in Memory : d.memories[k] \in MemoryRow
  BY DEF Stored
<1>2. N = [k \in Memory |-> IF k \in replaced THEN [d.memories[k] EXCEPT !.status = "superseded"]
                            ELSE d.memories[k]]
  BY DEF WithStatus
<1>3. M = [k \in Memory |-> IF k \in {m} THEN [N[k] EXCEPT !.status = "active"] ELSE N[k]]
  BY DEF WithStatus, Confirmation
<1> HIDE DEF N, M
<1>4. \A k \in Memory :
         /\ N[k] \in MemoryRow /\ N[k].texts = d.memories[k].texts
         /\ N[k].anchored = d.memories[k].anchored
         /\ N[k].status = IF k \in replaced THEN "superseded" ELSE d.memories[k].status
         /\ k \notin replaced => N[k] = d.memories[k]
  <2> SUFFICES ASSUME NEW k \in Memory
               PROVE  /\ N[k] \in MemoryRow /\ N[k].texts = d.memories[k].texts
                      /\ N[k].anchored = d.memories[k].anchored
                      /\ N[k].status = IF k \in replaced THEN "superseded"
                                       ELSE d.memories[k].status
                      /\ k \notin replaced => N[k] = d.memories[k]
    OBVIOUS
  <2>1. CASE k \in replaced
    BY <1>1, <1>2, <2>1 DEF MemoryRow
  <2>2. CASE k \notin replaced
    BY <1>1, <1>2, <2>2
  <2> QED BY <2>1, <2>2
<1>5. \A k \in Memory :
         /\ M[k] \in MemoryRow /\ M[k].texts = N[k].texts
         /\ M[k].anchored = N[k].anchored
         /\ M[k].status = IF k = m THEN "active" ELSE N[k].status
         /\ k # m => M[k] = N[k]
  <2> SUFFICES ASSUME NEW k \in Memory
               PROVE  /\ M[k] \in MemoryRow /\ M[k].texts = N[k].texts
                      /\ M[k].anchored = N[k].anchored
                      /\ M[k].status = IF k = m THEN "active" ELSE N[k].status
                      /\ k # m => M[k] = N[k]
    OBVIOUS
  <2>1. CASE k = m
    <3>1. M[k] = [N[k] EXCEPT !.status = "active"] /\ N[k] \in MemoryRow
      BY <1>3, <1>4, <2>1
    <3>2. /\ M[k] \in MemoryRow /\ M[k].texts = N[k].texts /\ M[k].status = "active"
          /\ M[k].anchored = N[k].anchored
      BY ONLY <3>1 DEF MemoryRow
    <3> QED BY <2>1, <3>2
  <2>2. CASE k # m
    BY <1>3, <1>4, <2>2
  <2> QED BY <2>1, <2>2
<1>6. M \in [Memory -> MemoryRow]
  BY <1>3, <1>5
<1> QED BY <1>4, <1>5, <1>6 DEF Replaces, M

\* What a confirm does, in one predicate: the memory m comes into force, those
\* in conflict with it are replaced or not, and its claims and those they beat
\* have moved.
Confirms(d, e, m, strategy) ==
    LET conflicts == Conflicts(d, m)
        replaced == IF strategy = "supersede" THEN conflicts ELSE {}
    IN  /\ e = [memories |-> e.memories, claims |-> e.claims, possible |-> e.possible,
                relations |-> e.relations]
        /\ e.possible = d.possible
        /\ e.relations = d.relations \cup Related(d, m, strategy, conflicts)
        /\ Replaces(d, e.memories, m, replaced)
        /\ e.claims = [c \in Claim |-> e.claims[c]]
        /\ \A c \in Claim :
              /\ c \in LiveClaims(d, m) => OwnRow(d, e, m, strategy, conflicts, c)
              /\ c \in Beaten(d, m, conflicts) => BeatenRow(d, e, strategy, c)
              /\ c \notin LiveClaims(d, m) \cup Beaten(d, m, conflicts)
                    => e.claims[c] = d.claims[c]

\* confirm, after the judge has answered, does this.
LEMMA ConfirmConfirms ==
    ASSUME NEW d, Base(d), clock \in Nat, NEW m \in Memory, d.memories[m].status = "candidate",
           NEW strategy, NEW conflicts, conflicts = Conflicts(d, m),
           NEW replaced, replaced = IF strategy = "supersede" THEN conflicts ELSE {},
           NEW active, active = [d EXCEPT !.memories = Confirmation(d, m, replaced)]
    PROVE  Confirms(d, Activated(active, m, strategy, conflicts), m, strategy)
<1> DEFINE M == Confirmation(d, m, replaced)
           e == Activated(active, m, strategy, conflicts)
<1>0. Stored(d) /\ m \notin conflicts /\ m \notin replaced
  BY DEF Base, Conflicts
<1>1. active = [memories |-> M, claims |-> d.claims, possible |-> d.possible,
                relations |-> d.relations]
  <2> HIDE DEF M
  <2>1. active = [d EXCEPT !.memories = M]
    BY DEF M
  <2> QED BY <1>0, <2>1, DatabaseWithOne
<1>2. /\ active = [memories |-> active.memories, claims |-> active.claims,
                   possible |-> active.possible, relations |-> active.relations]
      /\ active.memories = M /\ active.claims = d.claims /\ active.possible = d.possible
      /\ active.relations = d.relations
  BY ONLY <1>1
<1>a. /\ active.memories = M /\ active.claims = d.claims /\ active.possible = d.possible
      /\ active.relations = d.relations
  BY ONLY <1>2
<1>b. Replaces(d, M, m, replaced)
  BY <1>0, ConfirmedMemories
<1> HIDE DEF M, e
<1>3. /\ M \in [Memory -> MemoryRow]
      /\ \A k \in Memory :
            /\ M[k].status = IF k = m THEN "active"
                             ELSE IF k \in replaced THEN "superseded"
                             ELSE d.memories[k].status
            /\ M[k].texts = d.memories[k].texts
  BY ONLY <1>b DEF Replaces
<1>4. Stored(active)
  <2>1. \A k \in Memory : /\ Len(M[k].texts) <= MaxEditions
                          /\ M[k].status = "absent" => M[k].texts = << >>
    BY <1>0, <1>3 DEF Stored
  <2>2. \A c \in Claim : d.claims[c] # NoClaim =>
           /\ History(d.claims[c].versions)
           /\ EditionOf(c) <= Len(M[MemoryOf(c)].texts)
    BY <1>0, <1>3, ClaimParts DEF Stored
  <2>3. d.claims \in [Claim -> {NoClaim} \cup ClaimRow]
    BY <1>0 DEF Stored
  <2> QED BY ONLY <1>2, <1>3, <2>1, <2>2, <2>3 DEF Stored
<1>5. LiveClaims(active, m) = LiveClaims(d, m)
  BY ONLY <1>a DEF LiveClaims, ClaimsOf
<1>6. \A c, x \in Claim : ClaimsConflict(active, c, x) <=> ClaimsConflict(d, c, x)
  <2> SUFFICES ASSUME NEW c \in Claim, NEW x \in Claim
               PROVE  ClaimsConflict(active, c, x) <=> ClaimsConflict(d, c, x)
    OBVIOUS
  <2>1. Assertion(active, c) = Assertion(d, c) /\ Assertion(active, x) = Assertion(d, x)
    BY <1>2, <1>3, ClaimParts DEF Assertion
  <2>2. Contradicts(active, c, x) <=> Contradicts(d, c, x)
    <3>1. /\ active.claims[c].validFrom = d.claims[c].validFrom
          /\ active.claims[c].validTo = d.claims[c].validTo
          /\ active.claims[x].validFrom = d.claims[x].validFrom
          /\ active.claims[x].validTo = d.claims[x].validTo
      BY <1>a
    <3> QED BY ONLY <2>1, <3>1, RelationshipOfFields
  <2> QED BY <1>a, <2>2 DEF ClaimsConflict, Confirmed
<1>7. /\ Clash(active, m, conflicts) = Clash(d, m, conflicts)
      /\ Clashing(active, m, conflicts) = Clashing(d, m, conflicts)
      /\ Beaten(active, m, conflicts) = Beaten(d, m, conflicts)
      /\ Related(active, m, strategy, conflicts) = Related(d, m, strategy, conflicts)
  <2>1. \A pair \in LiveClaims(d, m) \X Claim :
           ClaimsConflict(active, pair[1], pair[2]) <=> ClaimsConflict(d, pair[1], pair[2])
    BY <1>6 DEF LiveClaims, ClaimsOf
  <2>2. Clash(active, m, conflicts) = Clash(d, m, conflicts)
    BY <1>a, <1>5, <2>1 DEF Clash
  <2> QED BY <2>2 DEF Clashing, Beaten, Related
<1>8. \A c \in LiveClaims(active, m) : active.claims[c].status \notin Forceful
  BY <1>a, <1>5 DEF LiveClaims, ClaimsOf, Base, Warranted
<1>9. Activates(active, e, m, strategy, conflicts)
  <2>1. m \in Memory /\ clock \in Nat
    OBVIOUS
  <2> QED BY ONLY <1>0, <1>4, <1>8, <2>1, ActivatedRows DEF e
<1>10. \A c \in Claim :
          /\ c \in LiveClaims(d, m) => OwnRow(d, e, m, strategy, conflicts, c)
          /\ c \in Beaten(d, m, conflicts) => BeatenRow(d, e, strategy, c)
          /\ c \notin LiveClaims(d, m) \cup Beaten(d, m, conflicts) => e.claims[c] = d.claims[c]
  BY ONLY <1>a, <1>5, <1>7, <1>9 DEF OwnRow, BeatenRow, Activates
<1>11. /\ e = [memories |-> e.memories, claims |-> e.claims, possible |-> e.possible,
               relations |-> e.relations]
       /\ e.memories = M /\ e.possible = d.possible
       /\ e.relations = d.relations \cup Related(d, m, strategy, conflicts)
       /\ e.claims = [c \in Claim |-> e.claims[c]]
  BY ONLY <1>a, <1>7, <1>9 DEF Activates
<1>12. /\ conflicts = Conflicts(d, m)
       /\ replaced = IF strategy = "supersede" THEN conflicts ELSE {}
  OBVIOUS
<1> QED BY ONLY <1>b, <1>10, <1>11, <1>12 DEF Confirms, e

\* A confirm keeps the invariant: a claim that is accepted by it conflicts with
\* none that holds, or both have been contested, or the other has ended.
LEMMA ConfirmsFollows ==
    ASSUME NEW d, Sound(d, clock), clock \in Nat, NEW m \in Memory,
           d.memories[m].status = "candidate", NEW strategy, NEW e,
           Confirms(d, e, m, strategy),
           strategy \in {"supersede", "keep_both"} \/ Conflicts(d, m) = {}
    PROVE  Follows(d, e, clock)
<1> DEFINE conflicts == Conflicts(d, m)
           own == LiveClaims(d, m)
           beaten == Beaten(d, m, conflicts)
           replaced == IF strategy = "supersede" THEN conflicts ELSE {}
<1>0. /\ Base(d) /\ Stored(d) /\ Undisputed(d, clock)
      /\ m \notin conflicts /\ conflicts \subseteq Memory
      /\ \A k \in conflicts : d.memories[k].status = "active"
  BY DEF Sound, Base, Conflicts
<1>1. /\ e = [memories |-> e.memories, claims |-> e.claims, possible |-> e.possible,
              relations |-> e.relations]
      /\ e.possible = d.possible
      /\ e.relations = d.relations \cup Related(d, m, strategy, conflicts)
      /\ Replaces(d, e.memories, m, replaced)
      /\ e.claims = [c \in Claim |-> e.claims[c]]
      /\ \A c \in Claim :
            /\ c \in own => OwnRow(d, e, m, strategy, conflicts, c)
            /\ c \in beaten => BeatenRow(d, e, strategy, c)
            /\ c \notin own \cup beaten => e.claims[c] = d.claims[c]
  BY DEF Confirms
<1>2. /\ \A c \in own : c \in Claim /\ MemoryOf(c) = m /\ d.claims[c] # NoClaim
      /\ \A c \in Claim : MemoryOf(c) = m /\ c \notin own => d.claims[c].status \notin Forceful
      /\ \A c \in beaten : /\ c \in Claim /\ MemoryOf(c) \in conflicts /\ c \notin own
                           /\ d.claims[c].status \in Forceful
      /\ \A c \in own, x \in Claim :
            /\ MemoryOf(x) \in conflicts /\ d.claims[x].status \in Forceful
            /\ ClaimsConflict(d, c, x)
            => c \in Clashing(d, m, conflicts) /\ x \in beaten
  <2>1. \A c \in own : c \in Claim /\ MemoryOf(c) = m /\ d.claims[c] # NoClaim
    BY <1>0, LiveAndActive DEF LiveClaims, ClaimsOf
  <2>2. \A c \in Claim : MemoryOf(c) = m /\ c \notin own => d.claims[c].status \notin Forceful
    BY <1>0, LiveAndActive DEF LiveClaims, ClaimsOf, Forceful
  <2>3. \A c \in beaten : /\ c \in Claim /\ MemoryOf(c) \in conflicts /\ c \notin own
                          /\ d.claims[c].status \in Forceful
    BY <1>0, <2>1, ClashParts, LiveAndActive DEF Forceful
  <2>4. \A c \in own, x \in Claim :
           /\ MemoryOf(x) \in conflicts /\ d.claims[x].status \in Forceful
           /\ ClaimsConflict(d, c, x)
           => c \in Clashing(d, m, conflicts) /\ x \in beaten
    BY <1>0, ClashParts, LiveAndActive DEF Forceful
  <2> QED BY <2>1, <2>2, <2>3, <2>4
<1>a. \A k \in Memory :
         /\ e.memories[k].status = IF k = m THEN "active"
                                   ELSE IF k \in replaced THEN "superseded"
                                   ELSE d.memories[k].status
         /\ e.memories[k].texts = d.memories[k].texts
         /\ e.memories[k].anchored = d.memories[k].anchored
         /\ k # m /\ k \notin replaced => e.memories[k] = d.memories[k]
  BY <1>1 DEF Replaces
<1>b. \A c \in Claim : MemoryOf(c) \in Memory
  BY ClaimParts
<1>c. beaten # {} => strategy \in {"supersede", "keep_both"}
  BY <1>2
<1>d. replaced = IF strategy = "supersede" THEN conflicts ELSE {}
  OBVIOUS
<1> HIDE DEF conflicts, own, beaten, replaced
<1>3. \A c \in Claim :
         /\ c \in own \cup beaten => Reaches(d.claims[c], e.claims[c], clock)
         /\ c \notin own \cup beaten => e.claims[c] = d.claims[c]
         /\ e.claims[c].validFrom = d.claims[c].validFrom
         /\ e.claims[c].validTo # d.claims[c].validTo =>
               c \in beaten /\ strategy = "supersede" /\ e.claims[c].status = "superseded"
         /\ c \in own => e.claims[c].status \in Forceful
         /\ c \in beaten => e.claims[c].status # "accepted"
  BY <1>1, <1>2, <1>c DEF OwnRow, BeatenRow, Forceful
<1>4. \A c \in Claim : \/ e.claims[c] = d.claims[c]
                       \/ /\ e.claims[c] \in ClaimRow /\ History(e.claims[c].versions)
                          /\ e.claims[c] # NoClaim /\ d.claims[c] # NoClaim
  <2> SUFFICES ASSUME NEW c \in Claim, c \in own \cup beaten
               PROVE  /\ e.claims[c] \in ClaimRow /\ History(e.claims[c].versions)
                      /\ e.claims[c] # NoClaim /\ d.claims[c] # NoClaim
    BY <1>3
  <2>1. e.claims[c] \in ClaimRow /\ History(e.claims[c].versions)
    BY <1>3 DEF Reaches
  <2>2. d.claims[c] # NoClaim
    BY <1>2 DEF NoClaim, Forceful
  <2>3. e.claims[c] # NoClaim
    BY <2>1 DEF ClaimRow, Status, NoClaim
  <2> QED BY <2>1, <2>2, <2>3
<1>5. Stored(e)
  <2>1. \A c \in Claim : e.claims[c] \in {NoClaim} \cup ClaimRow
    BY <1>0, <1>4 DEF Stored
  <2>2. e.claims \in [Claim -> {NoClaim} \cup ClaimRow]
    <3>1. e.claims = [c \in Claim |-> e.claims[c]]
      BY <1>1
    <3> QED BY <2>1, <3>1
  <2>3. e.memories \in [Memory -> MemoryRow]
    BY <1>1 DEF Replaces
  <2>4. \A k \in Memory : /\ Len(e.memories[k].texts) <= MaxEditions
                          /\ e.memories[k].status = "absent" => e.memories[k].texts = << >>
    BY <1>0, <1>a DEF Stored
  <2>5. ASSUME NEW c \in Claim, e.claims[c] # NoClaim
        PROVE  /\ History(e.claims[c].versions)
               /\ EditionOf(c) <= Len(e.memories[MemoryOf(c)].texts)
    <3>1. d.claims[c] # NoClaim /\ History(e.claims[c].versions)
      BY <1>0, <1>4, <2>5 DEF Stored
    <3>2. e.memories[MemoryOf(c)].texts = d.memories[MemoryOf(c)].texts
      BY <1>a, <1>b
    <3> QED BY <1>0, <3>1, <3>2 DEF Stored
  <2> QED BY <1>1, <2>2, <2>3, <2>4, <2>5 DEF Stored
<1>6. Warranted(e)
  <2> SUFFICES ASSUME NEW c \in Claim
               PROVE  /\ (\E n \in DOMAIN e.claims[c].versions :
                             e.claims[c].versions[n].status \in Forceful)
                         => e.memories[MemoryOf(c)].status \notin {"candidate", "rejected"}
                      /\ e.claims[c].status \in Forceful
                         => e.memories[MemoryOf(c)].status \in {"active", "superseded"}
    BY DEF Warranted
  <2>1. CASE MemoryOf(c) \in {m} \cup conflicts
    BY <1>0, <1>a, <1>b, <1>d, <2>1
  <2>2. CASE MemoryOf(c) \notin {m} \cup conflicts
    <3>1. /\ e.memories[MemoryOf(c)] = d.memories[MemoryOf(c)]
          /\ e.claims[c] = d.claims[c]
      BY <1>2, <1>3, <1>a, <1>b, <1>d, <2>2
    <3> QED BY <1>0, <3>1 DEF Base, Warranted
  <2> QED BY <2>1, <2>2
<1>7. Explained(e)
  <2> SUFFICES ASSUME NEW c \in Claim, e.claims[c].status = "contested"
               PROVE  \E relation \in e.relations :
                         relation.type = "contradicts" /\ c \in relation.pair
    BY DEF Explained
  <2>1. CASE e.claims[c] = d.claims[c]
    BY <1>0, <1>1, <2>1 DEF Base, Explained
  <2>2. CASE e.claims[c] # d.claims[c]
    <3>1. strategy = "keep_both" /\ c \in Clashing(d, m, conflicts) \cup beaten
      BY <1>1, <1>3, <2>2, <1>c DEF OwnRow, BeatenRow
    <3>2. \E x, y \in Claim : <<x, y>> \in Clash(d, m, conflicts) /\ c \in {x, y}
      <4>1. CASE c \in Clashing(d, m, conflicts)
        <5>1. \E x \in Claim : <<c, x>> \in Clash(d, m, conflicts)
          BY <1>0, <4>1, ClashParts
        <5> QED BY <5>1
      <4>2. CASE c \in beaten
        <5>1. \E x \in Claim : <<x, c>> \in Clash(d, m, conflicts)
          BY <1>0, <4>2, ClashParts DEF beaten
        <5> QED BY <5>1
      <4> QED BY <3>1, <4>1, <4>2
    <3>3. PICK x \in Claim, y \in Claim : <<x, y>> \in Clash(d, m, conflicts) /\ c \in {x, y}
      BY <3>2
    <3>4. Relation("contradicts", {x, y}) \in Related(d, m, strategy, conflicts)
      BY <3>1, <3>3 DEF Related
    <3>5. /\ Relation("contradicts", {x, y}).type = "contradicts"
          /\ Relation("contradicts", {x, y}).pair = {x, y}
      BY DEF Relation
    <3> QED BY <1>1, <3>3, <3>4, <3>5
  <2> QED BY <2>1, <2>2
<1>8. \A c \in Claim : Assertion(e, c) = Assertion(d, c)
  BY <1>a, <1>b DEF Assertion
<1>9. ASSUME NEW c \in Claim, Unended(e, c)
      PROVE  Unended(d, c) /\ e.claims[c].validTo = d.claims[c].validTo
  <2>1. e.claims[c].validTo = d.claims[c].validTo
    <3> SUFFICES ASSUME e.claims[c].status = "superseded", c \in beaten, strategy = "supersede"
                 PROVE  FALSE
      BY <1>3
    <3>1. e.memories[MemoryOf(c)].status = "superseded"
      BY <1>0, <1>2, <1>a, <1>d
    <3> QED BY <1>9, <3>1 DEF Unended, Forceful
  <2>2. Unended(d, c)
    <3>1. CASE MemoryOf(c) = m
      BY <3>1 DEF Unended
    <3>2. CASE c \in beaten
      BY <1>2, <3>2 DEF Unended
    <3>3. CASE MemoryOf(c) # m /\ c \notin beaten
      <4>1. e.claims[c] = d.claims[c]
        BY <1>2, <1>3, <3>3
      <4>2. e.memories[MemoryOf(c)].status = "candidate"
             => d.memories[MemoryOf(c)].status = "candidate"
        BY <1>a, <1>b
      <4> QED BY <1>9, <4>1, <4>2 DEF Unended
    <3> QED BY <3>1, <3>2, <3>3
  <2> QED BY <2>1, <2>2
<1>10. Raised(e)
  <2> SUFFICES ASSUME NEW pair \in DOMAIN d.possible
               PROVE  \E c, x \in Claim :
                         /\ pair = {c, x} /\ MemoryOf(c) # MemoryOf(x)
                         /\ e.claims[c] # NoClaim /\ e.claims[x] # NoClaim
                         /\ Unended(e, c) /\ Unended(e, x) => Uncertain(e, c, x)
    BY <1>0, <1>1 DEF Base, Raised
  <2>1. PICK c \in Claim, x \in Claim :
              /\ pair = {c, x} /\ MemoryOf(c) # MemoryOf(x)
              /\ d.claims[c] # NoClaim /\ d.claims[x] # NoClaim
              /\ Unended(d, c) /\ Unended(d, x) => Uncertain(d, c, x)
    BY <1>0 DEF Base, Raised
  <2>2. ASSUME Unended(e, c), Unended(e, x) PROVE Uncertain(e, c, x)
    BY <1>3, <1>8, <1>9, <2>1, <2>2, RelationshipOfFields
  <2>3. e.claims[c] # NoClaim /\ e.claims[x] # NoClaim
    BY <1>4, <2>1
  <2> QED BY <2>1, <2>2, <2>3
<1>11. ASSUME NEW c \in Claim, e.claims[c].status = "accepted", HoldsIn(e, c, clock),
              MemoryOf(c) # m
       PROVE  /\ e.claims[c] = d.claims[c] /\ HoldsIn(d, c, clock) /\ c \notin beaten
              /\ MemoryOf(c) \notin replaced
  <2>1. e.claims[c] = d.claims[c] /\ c \notin beaten
    BY <1>2, <1>3, <1>11
  <2>2. MemoryOf(c) \notin replaced
    BY <1>11, <1>a, <1>b DEF HoldsIn
  <2>3. e.memories[MemoryOf(c)] = d.memories[MemoryOf(c)]
    BY <1>11, <2>2, <1>a, <1>b
  <2> QED BY <1>11, <2>1, <2>2, <2>3 DEF HoldsIn
<1>12. ASSUME NEW c \in Claim, NEW x \in Claim, MemoryOf(c) = m, MemoryOf(x) # m,
              e.claims[c].status = "accepted", e.claims[x].status = "accepted",
              HoldsIn(e, x, clock)
       PROVE  ~ClaimsConflict(d, c, x)
  <2>1. c \in own
    BY <1>2, <1>3, <1>12 DEF Forceful
  <2>2. /\ d.claims[x].status = "accepted" /\ HoldsIn(d, x, clock) /\ x \notin beaten
        /\ MemoryOf(x) \notin replaced
    BY <1>11, <1>12
  <2>3. CASE MemoryOf(x) \in conflicts
    BY <1>2, <2>1, <2>2, <2>3 DEF Forceful
  <2>4. CASE MemoryOf(x) \notin conflicts
    <3>1. x \in ActiveClaims(d, m)
      BY <1>12, <2>2 DEF ActiveClaims, HoldsIn
    <3>2. Unended(d, c)
      BY <1>12 DEF Unended
    <3> QED BY <1>0, <2>1, <2>4, <3>1, <3>2, NoConflictNoDispute DEF own, conflicts
  <2> QED BY <2>3, <2>4
<1>13. \A c, x \in Claim : /\ e.claims[c].status = "accepted" /\ e.claims[x].status = "accepted"
                           => (ClaimsConflict(e, c, x) <=> ClaimsConflict(d, c, x))
  <2> SUFFICES ASSUME NEW c \in Claim, NEW x \in Claim,
                      e.claims[c].status = "accepted", e.claims[x].status = "accepted"
               PROVE  ClaimsConflict(e, c, x) <=> ClaimsConflict(d, c, x)
    OBVIOUS
  <2>1. /\ e.claims[c].validTo = d.claims[c].validTo /\ e.claims[x].validTo = d.claims[x].validTo
    BY <1>3
  <2>2. Contradicts(e, c, x) <=> Contradicts(d, c, x)
    BY <1>3, <1>8, <2>1, RelationshipOfFields
  <2> QED BY <1>1, <2>2 DEF ClaimsConflict, Confirmed
<1>14. Undisputed(e, clock)
  <2> SUFFICES ASSUME NEW c \in Claim, NEW x \in Claim,
                      e.claims[c].status = "accepted", e.claims[x].status = "accepted",
                      MemoryOf(c) # MemoryOf(x), HoldsIn(e, c, clock), HoldsIn(e, x, clock)
               PROVE  ~ClaimsConflict(d, c, x)
    BY <1>13 DEF Undisputed
  <2>1. CASE MemoryOf(c) = m
    BY <1>12, <2>1
  <2>2. CASE MemoryOf(x) = m
    BY <1>12, <2>2, RelationshipSymmetric
  <2>3. CASE MemoryOf(c) # m /\ MemoryOf(x) # m
    BY <1>0, <1>11, <2>3 DEF Undisputed
  <2> QED BY <2>1, <2>2, <2>3
<1>15. Advances(d, e, clock)
  <2>1. \A c \in Claim : Grown(d.claims[c].versions, e.claims[c].versions, clock)
    BY <1>0, <1>3, StoredRows, GrownSame DEF Reaches
  <2>2. \A k \in Memory : /\ Prefix(d.memories[k].texts, e.memories[k].texts)
                          /\ AnchorsKept(d.memories[k], e.memories[k])
    BY <1>0, <1>a, SameMemory
  <2> QED BY <1>1, <2>1, <2>2 DEF Advances
<1> QED BY <1>5, <1>6, <1>7, <1>10, <1>14, <1>15 DEF Follows, Sound, Base

\* confirm
LEMMA ConfirmFollows ==
    ASSUME Sound(db, clock), clock \in Nat, NEW m \in Memory,
           NEW strategy \in {NULL} \cup Strategy, Confirm(m, strategy)
    PROVE  Follows(db, db', clock)
<1>1. Reviewable(m)
  BY DEF Confirm
<1>2. PICK verdict \in [Asked(Expired(db), m) -> Verdict] :
          LET d == Judged(Expired(db), verdict)
              replaced == IF strategy = "supersede" THEN Conflicts(d, m) ELSE {}
              active == [d EXCEPT !.memories = Confirmation(d, m, replaced)]
          IN  /\ strategy = NULL => Conflicts(d, m) = {}
              /\ Commit(Activated(active, m, strategy, Conflicts(d, m)))
  BY DEF Confirm, Confirmation
<1> DEFINE d == Judged(Expired(db), verdict)
           conflicts == Conflicts(d, m)
           replaced == IF strategy = "supersede" THEN conflicts ELSE {}
           active == [d EXCEPT !.memories = Confirmation(d, m, replaced)]
           e == Activated(active, m, strategy, conflicts)
<1>3. Follows(db, d, clock) /\ Stored(d) /\ d.memories[m].status = "candidate"
  BY <1>1, JudgedDue
<1>4. Commit(e) /\ (strategy \in {"supersede", "keep_both"} \/ Conflicts(d, m) = {})
  BY <1>2, PayloadAssumption
<1>5. Confirms(d, e, m, strategy)
  <2> HIDE DEF d
  <2>1. Base(d)
    BY <1>3 DEF Follows, Sound
  <2>2. /\ conflicts = Conflicts(d, m)
        /\ replaced = IF strategy = "supersede" THEN conflicts ELSE {}
        /\ active = [d EXCEPT !.memories = Confirmation(d, m, replaced)]
    OBVIOUS
  <2> HIDE DEF conflicts, replaced, active
  <2>3. Confirms(d, Activated(active, m, strategy, conflicts), m, strategy)
    BY <1>3, <2>1, <2>2, ConfirmConfirms
  <2> QED BY <2>3
<1> HIDE DEF d, e
<1>6. Follows(d, e, clock)
  BY <1>3, <1>4, <1>5, ConfirmsFollows DEF Follows
<1>7. db' = e
  BY <1>4, <1>6, Committed DEF Follows, Sound, Base, Stored
<1> QED BY <1>3, <1>6, <1>7, FollowsTwice

-----------------------------------------------------------------------------
\* A person decides a possible conflict.
LEMMA ResolveFollows ==
    ASSUME Sound(db, clock), clock \in Nat, NEW pair \in DOMAIN possible,
           NEW confirmed \in BOOLEAN, Resolve(pair, confirmed)
    PROVE  Follows(db, db', clock)
<1> DEFINE standing == {c \in pair : claims[c].status = "accepted"}
           live == \A c \in pair : memories[MemoryOf(c)].status = "active"
           S == IF confirmed /\ live THEN standing ELSE {}
           C == [c \in Claim |-> IF c \in S
                                 THEN Transition(claims[c],
                                                 [claims[c] EXCEPT !.status = "contested"], clock)
                                 ELSE claims[c]]
           P == [possible EXCEPT ![pair] = 
                     [status |-> IF confirmed THEN "confirmed" ELSE "dismissed",
                                            resolved |-> TRUE]]
           K == WithRelation(pair, confirmed)
           e == [memories |-> memories, claims |-> C, possible |-> P, relations |-> K]
<1>0. /\ db.memories = memories /\ db.claims = claims /\ db.possible = possible
      /\ db.relations = relations
      /\ Base(db) /\ Stored(db) /\ Undisputed(db, clock)
  BY DEF db, Sound, Base
<1>1. claims = [c \in Claim |-> claims[c]]
  BY <1>0 DEF Stored
<1>2. claims' = C
  <2>1. CASE confirmed /\ live
    BY <2>1 DEF Resolve, Moved
  <2>2. CASE ~(confirmed /\ live)
    <3>1. claims' = claims
      BY <2>2 DEF Resolve
    <3>2. C = [c \in Claim |-> claims[c]]
      BY <2>2
    <3> HIDE DEF C
    <3> QED BY <1>1, <3>1, <3>2
  <2> QED BY <2>1, <2>2
<1>3. memories' = memories /\ possible' = P /\ relations' = K
  BY DEF Resolve
<1>4. db' = e
  <2> HIDE DEF C, P, K
  <2> QED BY <1>2, <1>3 DEF db
<1>5. /\ e = [memories |-> e.memories, claims |-> e.claims, possible |-> e.possible,
              relations |-> e.relations]
      /\ e.memories = db.memories /\ e.claims = C /\ e.possible = P /\ e.relations = K
  <2> HIDE DEF C, P, K
  <2> QED BY <1>0
<1> HIDE DEF e
<1>6. PICK p \in Claim, q \in Claim :
            /\ pair = {p, q} /\ MemoryOf(p) # MemoryOf(q)
            /\ claims[p] # NoClaim /\ claims[q] # NoClaim
  BY <1>0 DEF Base, Raised
<1>7. \A c \in S : /\ c \in Claim /\ confirmed /\ live
                   /\ c \in pair /\ claims[c].status = "accepted"
                   /\ memories[MemoryOf(c)].status = "active"
                   /\ claims[c] \in ClaimRow /\ History(claims[c].versions)
                   /\ claims[c] # NoClaim
  <2> SUFFICES ASSUME NEW c \in S
               PROVE  /\ c \in Claim /\ confirmed /\ live
                      /\ c \in pair /\ claims[c].status = "accepted"
                      /\ memories[MemoryOf(c)].status = "active"
                      /\ claims[c] \in ClaimRow /\ History(claims[c].versions)
                      /\ claims[c] # NoClaim
    OBVIOUS
  <2>1. c \in Claim /\ confirmed /\ live /\ c \in pair /\ claims[c].status = "accepted"
    BY <1>6
  <2>2. claims[c] # NoClaim
    BY <2>1 DEF NoClaim
  <2> QED BY <1>0, <2>1, <2>2 DEF Stored
<1>8. \A c \in Claim : /\ c \in S =>
                              C[c] = Transition(claims[c], [claims[c] EXCEPT !.status = "contested"], clock)
                       /\ c \notin S => C[c] = claims[c]
  <2> HIDE DEF S
  <2> QED BY Zenon
<1>a. C = [c \in Claim |-> C[c]]
  <2> HIDE DEF S
  <2> QED BY Zenon
<1>9. DOMAIN P = DOMAIN possible
      /\ \A x \in DOMAIN possible : x # pair => P[x] = possible[x]
      /\ P[pair].status = IF confirmed THEN "confirmed" ELSE "dismissed"
  OBVIOUS
<1>e. /\ P[pair].status \in {"confirmed", "dismissed"}
      /\ P[pair].status = "confirmed" => confirmed
  <2>1. CASE confirmed
    BY <2>1
  <2>2. CASE ~confirmed
    BY <2>2
  <2> QED BY <2>1, <2>2
<1>10. K = IF confirmed THEN relations \cup {Relation("contradicts", pair)} ELSE relations
  BY DEF WithRelation
<1>b. live => \A c \in pair : memories[MemoryOf(c)].status = "active"
  OBVIOUS
<1>c. \A c \in Claim : /\ c \in pair /\ claims[c].status = "accepted" /\ confirmed /\ live
                       => c \in S
  OBVIOUS
<1>d. live <=> memories[MemoryOf(p)].status = "active" /\ memories[MemoryOf(q)].status = "active"
  BY <1>6
<1> HIDE DEF C, P, K, S, live
<1>11. \A c \in S : /\ Reaches(claims[c], C[c], clock) /\ C[c].status = "contested"
                    /\ C[c].validFrom = claims[c].validFrom /\ C[c].validTo = claims[c].validTo
                    /\ C[c] # NoClaim
  <2> SUFFICES ASSUME NEW c \in S
               PROVE  /\ Reaches(claims[c], C[c], clock) /\ C[c].status = "contested"
                      /\ C[c].validFrom = claims[c].validFrom /\ C[c].validTo = claims[c].validTo
                      /\ C[c] # NoClaim
    OBVIOUS
  <2>1. C[c] = Transition(claims[c], [claims[c] EXCEPT !.status = "contested"], clock)
    BY <1>7, <1>8
  <2>2. /\ Reaches(claims[c], C[c], clock) /\ C[c].status = "contested"
        /\ C[c].validFrom = claims[c].validFrom /\ C[c].validTo = claims[c].validTo
    <3>1. "contested" \in Status
      BY DEF Status
    <3> QED BY <1>7, <2>1, <3>1, StatusReaches
  <2> QED BY <2>2 DEF NoClaim
<1>12. Stored(e)
  <2>1. \A c \in Claim : C[c] \in {NoClaim} \cup ClaimRow
    BY <1>0, <1>8, <1>11 DEF Stored, Reaches
  <2>2. C \in [Claim -> {NoClaim} \cup ClaimRow]
    BY <1>a, <2>1
  <2>3. \A c \in Claim : C[c] # NoClaim => claims[c] # NoClaim /\ History(C[c].versions)
    BY <1>0, <1>7, <1>8, <1>11 DEF Stored, Reaches
  <2> QED BY <1>0, <1>5, <2>2, <2>3 DEF Stored
<1>13. Warranted(e)
  <2> SUFFICES ASSUME NEW c \in Claim
               PROVE  /\ (\E n \in DOMAIN C[c].versions : C[c].versions[n].status \in Forceful)
                         => memories[MemoryOf(c)].status \notin {"candidate", "rejected"}
                      /\ C[c].status \in Forceful
                         => memories[MemoryOf(c)].status \in {"active", "superseded"}
    BY <1>0, <1>5 DEF Warranted
  <2>1. CASE c \in S
    BY <1>7, <2>1
  <2>2. CASE c \notin S
    BY <1>0, <1>8, <2>2 DEF Base, Warranted
  <2> QED BY <2>1, <2>2
<1>14. Explained(e)
  <2> SUFFICES ASSUME NEW c \in Claim, C[c].status = "contested"
               PROVE  \E x \in K : x.type = "contradicts" /\ c \in x.pair
    BY <1>5 DEF Explained
  <2>1. CASE c \in S
    <3>1. c \in pair /\ Relation("contradicts", pair) \in K
      BY <1>7, <1>10, <2>1
    <3>2. /\ Relation("contradicts", pair).type = "contradicts"
          /\ Relation("contradicts", pair).pair = pair
      BY DEF Relation
    <3> QED BY <3>1, <3>2
  <2>2. CASE c \notin S
    BY <1>0, <1>8, <1>10, <2>2 DEF Base, Explained
  <2> QED BY <2>1, <2>2
<1>15. \A c \in Claim : /\ C[c].validFrom = claims[c].validFrom
                        /\ C[c].validTo = claims[c].validTo
                        /\ C[c].status \in Forceful => claims[c].status \in Forceful
                        /\ claims[c] # NoClaim => C[c] # NoClaim
                        /\ C[c].status = "accepted" => C[c] = claims[c] /\ c \notin S
  BY <1>7, <1>8, <1>11 DEF Forceful
<1>16. \A c, x \in Claim : /\ Contradicts(e, c, x) <=> Contradicts(db, c, x)
                           /\ Uncertain(e, c, x) <=> Uncertain(db, c, x)
  <2> SUFFICES ASSUME NEW c \in Claim, NEW x \in Claim
               PROVE  /\ Contradicts(e, c, x) <=> Contradicts(db, c, x)
                      /\ Uncertain(e, c, x) <=> Uncertain(db, c, x)
    OBVIOUS
  <2>1. Assertion(e, c) = Assertion(db, c) /\ Assertion(e, x) = Assertion(db, x)
    BY <1>5 DEF Assertion
  <2> QED BY <1>0, <1>5, <1>15, <2>1, RelationshipOfFields
<1>17. Raised(e)
  <2> SUFFICES ASSUME NEW y \in DOMAIN possible
               PROVE  /\ P[y].status \in {"possible", "confirmed", "dismissed", "abstained"}
                      /\ \E c, x \in Claim :
                           /\ y = {c, x} /\ MemoryOf(c) # MemoryOf(x)
                           /\ C[c] # NoClaim /\ C[x] # NoClaim
                           /\ Unended(e, c) /\ Unended(e, x) => Uncertain(e, c, x)
    BY <1>5, <1>9 DEF Raised
  <2>1. possible[y].status \in {"possible", "confirmed", "dismissed", "abstained"}
    BY <1>0 DEF Base, Raised
  <2>2. P[y].status \in {"possible", "confirmed", "dismissed", "abstained"}
    <3>1. CASE y = pair
      BY <1>e, <3>1
    <3>2. CASE y # pair
      BY <1>9, <2>1, <3>2
    <3> QED BY <3>1, <3>2
  <2>3. PICK c \in Claim, x \in Claim :
              /\ y = {c, x} /\ MemoryOf(c) # MemoryOf(x)
              /\ claims[c] # NoClaim /\ claims[x] # NoClaim
              /\ Unended(db, c) /\ Unended(db, x) => Uncertain(db, c, x)
    BY <1>0 DEF Base, Raised
  <2>4. \A z \in Claim : Unended(e, z) => Unended(db, z)
    BY <1>0, <1>5, <1>15 DEF Unended
  <2> QED BY <1>15, <1>16, <2>2, <2>3, <2>4
<1>18. Undisputed(e, clock)
  <2> SUFFICES ASSUME NEW c \in Claim, NEW x \in Claim,
                      C[c].status = "accepted", C[x].status = "accepted",
                      MemoryOf(c) # MemoryOf(x), HoldsIn(e, c, clock), HoldsIn(e, x, clock),
                      ClaimsConflict(e, c, x)
               PROVE  FALSE
    BY <1>5 DEF Undisputed
  <2>1. /\ C[c] = claims[c] /\ C[x] = claims[x] /\ c \notin S /\ x \notin S
        /\ HoldsIn(db, c, clock) /\ HoldsIn(db, x, clock)
    BY <1>0, <1>5, <1>15 DEF HoldsIn
  <2>2. ~ClaimsConflict(db, c, x)
    BY <1>0, <2>1 DEF Undisputed
  <2>3. Confirmed(e, {c, x}) /\ ~Confirmed(db, {c, x})
    BY <1>16, <2>2 DEF ClaimsConflict
  <2>4. {c, x} = pair /\ confirmed
    <3>1. {c, x} \in DOMAIN possible /\ P[{c, x}].status = "confirmed"
      BY <1>5, <1>9, <2>3 DEF Confirmed
    <3>2. {c, x} = pair
      BY <1>0, <1>9, <2>3, <3>1 DEF Confirmed
    <3>3. confirmed
      BY <1>e, <3>1, <3>2
    <3> QED BY <3>2, <3>3
  <2>5. live
    BY <1>0, <1>d, <1>6, <2>1, <2>4 DEF HoldsIn
  <2> QED BY <1>c, <2>1, <2>4, <2>5
<1>19. Advances(db, e, clock)
  <2>1. \A c \in Claim : Grown(db.claims[c].versions, C[c].versions, clock)
    BY <1>0, <1>8, <1>11, StoredRows, GrownSame DEF Reaches
  <2>2. \A k \in Memory : /\ Prefix(db.memories[k].texts, e.memories[k].texts)
                          /\ AnchorsKept(db.memories[k], e.memories[k])
    BY <1>0, <1>5, SameMemory
  <2> QED BY <1>0, <1>5, <1>10, <2>1, <2>2 DEF Advances
<1> QED BY <1>4, <1>12, <1>13, <1>14, <1>17, <1>18, <1>19 DEF Follows, Sound, Base

-----------------------------------------------------------------------------
\* The invariant.

TruthInv == clock \in 1 .. MaxClock /\ Sound(db, clock)

\* What holds when the clock has advanced held before.
LEMMA TickSound ==
    ASSUME NEW d, NEW t \in Nat, Sound(d, t)
    PROVE  Sound(d, t + 1)
<1>1. Stored(d)
  BY DEF Sound, Base
<1>2. ASSUME NEW c \in Claim, HoldsIn(d, c, t + 1), d.claims[c].status = "accepted"
      PROVE  HoldsIn(d, c, t)
  <2>1. d.memories[MemoryOf(c)] \in MemoryRow /\ d.claims[c] \in ClaimRow
    BY <1>1, <1>2, ClaimParts, StoredRows
  <2>2. /\ d.memories[MemoryOf(c)].created \in Nat /\ d.memories[MemoryOf(c)].ttl \in End
        /\ d.claims[c].validTo \in End
    BY <2>1 DEF MemoryRow, ClaimRow
  <2>3. ~Lapsed(d.memories[MemoryOf(c)], t)
    BY <1>2, <2>2 DEF HoldsIn, Lapsed, End
  <2>4. d.claims[c].validTo = NULL \/ t < d.claims[c].validTo
    BY <1>2, <2>2 DEF HoldsIn, End
  <2> QED BY <1>2, <2>3, <2>4 DEF HoldsIn
<1> QED BY <1>2 DEF Sound, Undisputed

\* The empty database is sound.
LEMMA InitTruth == Init => TruthInv
<1> SUFFICES ASSUME Init PROVE TruthInv
  OBVIOUS
<1>1. /\ db = [memories |-> [m \in Memory |-> NoMemory], claims |-> [c \in Claim |-> NoClaim],
               possible |-> << >>, relations |-> {}]
  BY DEF Init, db
<1>2. /\ db = [memories |-> db.memories, claims |-> db.claims, possible |-> db.possible,
               relations |-> db.relations]
      /\ db.memories = [m \in Memory |-> NoMemory]
      /\ db.claims = [c \in Claim |-> NoClaim]
      /\ db.possible = << >>
  BY <1>1
<1>3. NoMemory \in MemoryRow /\ NoMemory.texts = << >> /\ Len(NoMemory.texts) <= MaxEditions
  <2>1. << >> \in Seq(Texts) /\ Len(<< >>) <= MaxEditions
    BY BoundsAssumption
  <2>2. NULL \in Keys /\ NULL \in End
    BY DEF Keys, End
  <2> QED BY <2>1, <2>2 DEF NoMemory, MemoryRow
<1>4. \A c \in Claim : db.claims[c] = NoClaim
  BY <1>2
<1>5. NoClaim.status = "absent" /\ NoClaim.versions = << >>
  BY DEF NoClaim
<1>6. Stored(db)
  BY <1>2, <1>3, <1>4 DEF Stored
<1>7. Warranted(db) /\ Explained(db) /\ Undisputed(db, clock)
  BY <1>4, <1>5 DEF Warranted, Explained, Undisputed, Forceful
<1>8. Raised(db)
  <2>1. DOMAIN db.possible = {}
    BY <1>2
  <2> QED BY <2>1 DEF Raised
<1>9. clock \in 1 .. MaxClock
  BY BoundsAssumption DEF Init
<1> QED BY <1>6, <1>7, <1>8, <1>9 DEF TruthInv, Sound, Base

\* Every step of a sound database leaves a sound one, to which it has only
\* added.
LEMMA StepFollows ==
    ASSUME TruthInv, [Next]_vars
    PROVE  TruthInv' /\ Advances(db, db', clock)
<1>0. clock \in Nat /\ Sound(db, clock) /\ clock \in 1 .. MaxClock /\ Stored(db)
  BY BoundsAssumption DEF TruthInv, Sound, Base
<1>1. ASSUME clock' = clock, Follows(db, db', clock)
      PROVE  TruthInv' /\ Advances(db, db', clock)
  BY <1>0, <1>1 DEF TruthInv, Follows
<1>2. ASSUME UNCHANGED <<clock, memories, claims, possible, relations>>
      PROVE  TruthInv' /\ Advances(db, db', clock)
  <2>1. db' = db /\ clock' = clock
    BY <1>2 DEF db
  <2>2. Advances(db, db', clock)
    BY <1>0, <2>1, AdvancesSame
  <2> QED BY <1>0, <2>1, <2>2 DEF TruthInv
<1>3. CASE Tick
  <2>1. db' = db /\ clock' = clock + 1 /\ clock' \in 1 .. MaxClock
    BY <1>0, <1>3, BoundsAssumption DEF Tick, db
  <2>2. Advances(db, db', clock)
    BY <1>0, <2>1, AdvancesSame
  <2> QED BY <1>0, <2>1, <2>2, TickSound DEF TruthInv
<1>4. CASE ExpireDue
  BY <1>0, <1>1, <1>4, ExpireDueFollows DEF ExpireDue
<1>5. ASSUME NEW m \in Memory, NEW p \in Proposal, Propose(m, p)
      PROVE  TruthInv' /\ Advances(db, db', clock)
  BY <1>0, <1>1, <1>5, ProposeFollows DEF Propose
<1>6. ASSUME NEW m \in Memory, NEW r \in Revision, Edit(m, r)
      PROVE  TruthInv' /\ Advances(db, db', clock)
  BY <1>0, <1>1, <1>6, EditFollows DEF Edit
<1>7. ASSUME NEW m \in Memory, NEW s \in Schedule, Reschedule(m, s)
      PROVE  TruthInv' /\ Advances(db, db', clock)
  BY <1>0, <1>1, <1>7, RescheduleFollows DEF Reschedule
<1>8. ASSUME NEW m \in Memory, NEW strategy \in {NULL} \cup Strategy, Confirm(m, strategy)
      PROVE  TruthInv' /\ Advances(db, db', clock)
  BY <1>0, <1>1, <1>8, ConfirmFollows DEF Confirm
<1>9. ASSUME NEW m \in Memory, ConfirmConflicting(m)
      PROVE  TruthInv' /\ Advances(db, db', clock)
  BY <1>2, <1>9 DEF ConfirmConflicting
<1>10. ASSUME NEW m \in Memory, ConfirmReject(m)
       PROVE  TruthInv' /\ Advances(db, db', clock)
  BY <1>0, <1>1, <1>10, ConfirmRejectFollows DEF ConfirmReject
<1>11. ASSUME NEW m \in Memory, Reject(m)
       PROVE  TruthInv' /\ Advances(db, db', clock)
  BY <1>0, <1>1, <1>11, RejectFollows DEF Reject
<1>12. ASSUME NEW m \in Memory, Forget(m)
       PROVE  TruthInv' /\ Advances(db, db', clock)
  BY <1>0, <1>1, <1>12, ForgetFollows DEF Forget
<1>13. ASSUME NEW m \in Memory, Archive(m) \/ Restore(m)
       PROVE  TruthInv' /\ Advances(db, db', clock)
  BY <1>2, <1>13 DEF Archive, Restore
<1>14. ASSUME NEW m \in Memory, Anchor(m)
       PROVE  TruthInv' /\ Advances(db, db', clock)
  BY <1>0, <1>1, <1>14, AnchorFollows DEF Anchor
<1>15. ASSUME NEW m \in Memory, NEW state \in Observed, Refresh(m, state)
       PROVE  TruthInv' /\ Advances(db, db', clock)
  BY <1>0, <1>1, <1>15, RefreshFollows DEF Refresh
<1>16. ASSUME NEW pair \in DOMAIN possible, NEW confirmed \in BOOLEAN, Resolve(pair, confirmed)
       PROVE  TruthInv' /\ Advances(db, db', clock)
  BY <1>0, <1>1, <1>16, ResolveFollows DEF Resolve
<1>17. ASSUME NEW S \in SUBSET Memory, Rate(S)
       PROVE  TruthInv' /\ Advances(db, db', clock)
  BY <1>2, <1>17 DEF Rate
<1>18. CASE UNCHANGED vars
  BY <1>2, <1>18 DEF vars
<1> QED BY <1>3, <1>4, <1>5, <1>6, <1>7, <1>8, <1>9, <1>10, <1>11, <1>12, <1>13, <1>14,
           <1>15, <1>16, <1>17, <1>18 DEF Next

\* The invariant holds in every state.
LEMMA TruthInvariant == Spec => []TruthInv
<1>1. TruthInv /\ [Next]_vars => TruthInv'
  BY StepFollows
<1> QED BY <1>1, InitTruth, PTL DEF Spec

-----------------------------------------------------------------------------
\* The invariants the runs check.

\* Every row is well formed.
THEOREM TypeCorrect == Spec => []TypeOK
<1>1. ASSUME TruthInv, ArchiveInv PROVE TypeOK
  <2>0. /\ Base(db) /\ Stored(db) /\ db.memories = memories /\ db.claims = claims
        /\ db.possible = possible
    BY <1>1 DEF TruthInv, Sound, Base, db
  <2>1. claims \in [Claim -> {NoClaim} \cup ClaimRow]
    BY <2>0 DEF Stored
  <2>2. ASSUME NEW m \in Memory
        PROVE  /\ memories[m].status \in {"absent", "candidate", "active", "superseded",
                                          "rejected", "forgotten", "expired"}
               /\ Len(memories[m].texts) <= MaxEditions
               /\ temperature[m] \in {"none", "live", "archived"}
    <3>1. memories[m] \in MemoryRow /\ Len(memories[m].texts) <= MaxEditions
      BY <2>0 DEF Stored
    <3> QED BY <1>1, <3>1 DEF MemoryRow, ArchiveInv
  <2>3. ASSUME NEW pair \in DOMAIN possible
        PROVE  /\ pair \subseteq Claim /\ Cardinality(pair) = 2
               /\ possible[pair].status \in {"possible", "confirmed", "dismissed", "abstained"}
    <3>1. PICK c \in Claim, e \in Claim : pair = {c, e} /\ MemoryOf(c) # MemoryOf(e)
      BY <2>0 DEF Base, Raised
    <3>2. pair = {c} \cup {e} /\ e \notin {c}
      BY <3>1
    <3>3. IsFiniteSet({c}) /\ Cardinality({c}) = 1
      BY FS_Singleton
    <3>4. Cardinality({c} \cup {e}) = Cardinality({c}) + 1
      BY <3>2, <3>3, FS_AddElement
    <3>5. Cardinality({c} \cup {e}) = 2
      BY <3>3, <3>4
    <3> QED BY <2>0, <3>1, <3>2, <3>5 DEF Base, Raised
  <2> QED BY <1>1, <2>1, <2>2, <2>3 DEF TypeOK, TruthInv
<1> QED BY <1>1, TruthInvariant, InitArchive, StepArchive, PTL DEF Spec

\* Two memories in force never assert, both as accepted, what is contradictory
\* or confirmed to be.
THEOREM NeverSilentConflict == Spec => []NoSilentConflict
<1>1. ASSUME TruthInv PROVE NoSilentConflict
  <2>1. Undisputed(db, clock) /\ db.claims = claims /\ db.memories = memories
    BY <1>1 DEF TruthInv, Sound, db
  <2>2. \A c : Holds(c) <=> HoldsIn(db, c, clock)
    BY <2>1 DEF Holds, HoldsIn
  <2> QED BY <2>1, <2>2 DEF NoSilentConflict, Undisputed
<1> QED BY <1>1, TruthInvariant, PTL

\* Nothing was ever accepted before its memory was confirmed.
THEOREM AcceptedAlwaysConfirmed == Spec => []AcceptedWasConfirmed
<1>1. ASSUME TruthInv PROVE AcceptedWasConfirmed
  <2>1. Warranted(db) /\ db.claims = claims /\ db.memories = memories
    BY <1>1 DEF TruthInv, Sound, Base, db
  <2> QED BY <2>1 DEF AcceptedWasConfirmed, Warranted, Forceful
<1> QED BY <1>1, TruthInvariant, PTL

\* A contested claim is one side of a recorded contradiction.
THEOREM ContestedAlwaysExplained == Spec => []ContestedIsExplained
<1>1. ASSUME TruthInv PROVE ContestedIsExplained
  <2>1. Explained(db) /\ db.claims = claims /\ db.relations = relations
    BY <1>1 DEF TruthInv, Sound, Base, db
  <2> QED BY <2>1 DEF ContestedIsExplained, Explained
<1> QED BY <1>1, TruthInvariant, PTL

-----------------------------------------------------------------------------
\* Answers as known at a past instant.

\* The versions of a history that an answer may show, and the one it shows.
Shown(h, valid, known) ==
    {n \in DOMAIN h : /\ Covers(h[n].from, h[n].to, known)
                      /\ Covers(h[n].validFrom, h[n].validTo, valid)}

Latest(h, valid, known) ==
    {n \in Shown(h, valid, known) : \A k \in Shown(h, valid, known) :
        \/ h[n].from > h[k].from
        \/ h[n].from = h[k].from /\ n >= k}

\* visible_versions shows the latest.
LEMMA VisibleIsLatest ==
    ASSUME NEW row, NEW valid, NEW known
    PROVE  VisibleVersions(row, valid, known) =
              {row.versions[n] : n \in Latest(row.versions, valid, known)}
<1>1. Shown(row.versions, valid, known) =
         {n \in KnownVersions(row, known) :
             Covers(row.versions[n].validFrom, row.versions[n].validTo, valid)}
  BY DEF Shown, KnownVersions
<1> QED BY <1>1, Zenon DEF VisibleVersions, Latest

\* A version that is as it was, or that has ended at t or later.
Continues(v, w, t) ==
    /\ v \in Version /\ w \in Version /\ Told(w) = Told(v)
    /\ w.to = v.to \/ (v.to = NULL /\ w.to \in Nat /\ t <= w.to)

\* What grows at t shows the same as known before t.
LEMMA GrownShows ==
    ASSUME NEW h \in Seq(Version), NEW g \in Seq(Version), NEW t \in Nat, Grown(h, g, t),
           NEW valid, NEW known \in Nat, known < t
    PROVE  /\ Latest(g, valid, known) = Latest(h, valid, known)
           /\ \A n \in Latest(h, valid, known) : Continues(h[n], g[n], t)
<1>1. ASSUME NEW n \in DOMAIN h
      PROVE  /\ n \in DOMAIN g /\ Continues(h[n], g[n], t)
             /\ g[n].from = h[n].from /\ g[n].validFrom = h[n].validFrom
             /\ g[n].validTo = h[n].validTo
             /\ Covers(g[n].from, g[n].to, known) <=> Covers(h[n].from, h[n].to, known)
  <2>1. n \in DOMAIN g
    BY DEF Grown
  <2>2. h[n] \in Version /\ g[n] \in Version
    BY <2>1
  <2>3. Told(g[n]) = Told(h[n])
    BY DEF Grown
  <2>4. g[n].from = h[n].from /\ g[n].validFrom = h[n].validFrom /\ g[n].validTo = h[n].validTo
    BY <2>2, <2>3, ToldFields
  <2>5. g[n].to = h[n].to \/ (h[n].to = NULL /\ g[n].to \in Nat /\ t <= g[n].to)
    BY DEF Grown
  <2>6. Covers(g[n].from, g[n].to, known) <=> Covers(h[n].from, h[n].to, known)
    BY <2>4, <2>5, NullAssumption DEF Covers
  <2> QED BY <2>1, <2>2, <2>3, <2>4, <2>5, <2>6 DEF Continues
<1>2. ASSUME NEW n \in DOMAIN g, n \notin DOMAIN h
      PROVE  ~Covers(g[n].from, g[n].to, known)
  <2>1. Len(h) < n /\ g[n] \in Version
    BY <1>2
  <2>2. t <= g[n].from /\ g[n].from \in Nat
    BY <2>1 DEF Grown, Version
  <2> QED BY <2>2, NullAssumption DEF Covers
<1>3. Shown(g, valid, known) = Shown(h, valid, known)
  BY <1>1, <1>2 DEF Shown
<1>4. \A n \in Shown(h, valid, known) : n \in DOMAIN h
  BY DEF Shown
<1>5. Latest(g, valid, known) = Latest(h, valid, known)
  BY <1>1, <1>3, <1>4 DEF Latest
<1>6. \A n \in Latest(h, valid, known) : n \in DOMAIN h
  BY <1>4 DEF Latest
<1> QED BY <1>1, <1>5, <1>6

\* Answer, of a database and the logs of archive events.
ArchivedBy(log, known) ==
    LET seen == {event \in Range(log) : event.at <= known}
    IN  \E event \in seen : /\ event.kind = "archive"
                            /\ \A other \in seen : other.at <= event.at

ViewOf(d, logs, i, valid, known) ==
    {pair \in UNION {{c} \X VisibleVersions(d.claims[c], valid, known) :
                        c \in {x \in Claim : IdentityOf(x) = i}} :
        /\ pair[2].status \in {"accepted", "contested", "superseded", "stale", "historical"}
        /\ ~ArchivedBy(logs[MemoryOf(pair[1])], known)}

StateOf(d, view, i) ==
    LET fresh == {p \in view : InForce(p) /\ p[2].stale # "stale"}
        objects == {Assertion(d, p[1]).object : p \in fresh}
    IN  IF \/ \E p \in view : p[2].status = "contested"
           \/ i \in Single /\ \E x, y \in objects : x # y
        THEN "contested"
        ELSE IF fresh # {} THEN "resolved"
        ELSE IF view # {} THEN "stale" ELSE "unknown"

Viewed(view) == {p[1] : p \in view}

HistoryOf(d, viewed, known) ==
    UNION {{c} \X {version \in Range(d.claims[c].versions) : version.from <= known} :
              c \in viewed}

AnswerOf(d, view, i, known) ==
    [state     |-> StateOf(d, view, i),
     claims    |-> view,
     history   |-> HistoryOf(d, Viewed(view), known),
     relations |-> {relation \in d.relations : relation.pair \cap Viewed(view) # {}},
     anchored  |-> {c \in Viewed(view) : EditionOf(c) <= d.memories[MemoryOf(c)].anchored}]

\* Before a step and after it.
LEMMA AnswerIs ==
    ASSUME NEW i, NEW valid, NEW known
    PROVE  /\ Answer(i, valid, known) =
                 AnswerOf(db, ViewOf(db, events, i, valid, known), i, known)
           /\ Answer(i, valid, known)' =
                 AnswerOf(db', ViewOf(db', events', i, valid, known), i, known)
<1>1. View(i, valid, known) = ViewOf(db, events, i, valid, known)
  BY Zenon DEF View, ViewOf, Archived, ArchivedBy, db
<1>2. View(i, valid, known)' = ViewOf(db', events', i, valid, known)
  BY Zenon DEF View, ViewOf, Archived, ArchivedBy, db
<1>3. TruthState(i, valid, known) = StateOf(db, View(i, valid, known), i)
  BY Zenon DEF TruthState, StateOf
<1>4. TruthState(i, valid, known)' = StateOf(db', View(i, valid, known)', i)
  BY Zenon DEF TruthState, StateOf
<1>a. /\ db.claims = claims /\ db.relations = relations /\ db.memories = memories
      /\ db'.claims = claims' /\ db'.relations = relations' /\ db'.memories = memories'
  BY DEF db
<1>5. Answer(i, valid, known) = AnswerOf(db, View(i, valid, known), i, known)
  BY <1>3, <1>a, Zenon DEF Answer, AnswerOf, Viewed, HistoryOf
<1>6. Answer(i, valid, known)' = AnswerOf(db', View(i, valid, known)', i, known)
  BY <1>4, <1>a, Zenon DEF Answer, AnswerOf, Viewed, HistoryOf
<1> QED BY <1>1, <1>2, <1>5, <1>6

LEMMA StateIs ==
    ASSUME NEW i, NEW valid, NEW known
    PROVE  /\ TruthState(i, valid, known) = StateOf(db, ViewOf(db, events, i, valid, known), i)
           /\ TruthState(i, valid, known)' =
                 StateOf(db', ViewOf(db', events', i, valid, known), i)
<1>1. View(i, valid, known) = ViewOf(db, events, i, valid, known)
  BY Zenon DEF View, ViewOf, Archived, ArchivedBy, db
<1>2. View(i, valid, known)' = ViewOf(db', events', i, valid, known)
  BY Zenon DEF View, ViewOf, Archived, ArchivedBy, db
<1>3. TruthState(i, valid, known) = StateOf(db, View(i, valid, known), i)
  BY Zenon DEF TruthState, StateOf
<1>4. TruthState(i, valid, known)' = StateOf(db', View(i, valid, known)', i)
  BY Zenon DEF TruthState, StateOf
<1> QED BY <1>1, <1>2, <1>3, <1>4

\* Rows that are those of before, as they were or ended at t or later.
SameRow(p, q, t) ==
    /\ p = <<p[1], p[2]>> /\ q = <<q[1], q[2]>> /\ p[1] = q[1]
    /\ Continues(p[2], q[2], t)

SameRows(V, W, t) ==
    /\ \A p \in V : \E q \in W : SameRow(p, q, t)
    /\ \A q \in W : \E p \in V : SameRow(p, q, t)

\* As known before t they are the same, and a row that had ended stays.
LEMMA RowsStand ==
    ASSUME NEW t \in Nat, NEW known \in Nat, known < t, NEW V, NEW W, SameRows(V, W, t)
    PROVE  AsOf(W, known) = AsOf(V, known) /\ Ended(V) \subseteq W
<1> DEFINE Mask(v) == IF v.to # NULL /\ v.to <= known THEN v ELSE [v EXCEPT !.to = NULL]
           Past(p) == <<p[1], Mask(p[2])>>
<1>1. ASSUME NEW v, NEW w, Continues(v, w, t)
      PROVE  Mask(w) = Mask(v) /\ (v.to # NULL => w = v)
  <2>0. v \in Version /\ w \in Version /\ Told(w) = Told(v)
    BY <1>1 DEF Continues
  <2>1. CASE w.to = v.to
    <3>1. /\ v.status = w.status /\ v.stale = w.stale /\ v.from = w.from
          /\ v.validFrom = w.validFrom /\ v.validTo = w.validTo
      BY <2>0, ToldFields
    <3>2. v = w
      BY <2>0, <2>1, <3>1 DEF Version
    <3> QED BY <3>2
  <2>2. CASE v.to = NULL /\ w.to \in Nat /\ t <= w.to
    <3>1. ~(w.to <= known)
      BY <2>2
    <3>2. Mask(w) = Told(w) /\ Mask(v) = Told(v)
      BY <2>2, <3>1 DEF Told
    <3> QED BY <2>0, <2>2, <3>2
  <2> QED BY <1>1, <2>1, <2>2 DEF Continues
<1>2. \A p, q : SameRow(p, q, t) => /\ Past(q) = Past(p)
                                    /\ p[2].to # NULL => q = p
  BY <1>1 DEF SameRow
<1>3. AsOf(V, known) = {Past(p) : p \in V} /\ AsOf(W, known) = {Past(p) : p \in W}
  BY Zenon DEF AsOf
<1> HIDE DEF Mask, Past
<1>4. {Past(p) : p \in W} = {Past(p) : p \in V}
  BY <1>2 DEF SameRows
<1>5. Ended(V) \subseteq W
  BY <1>2 DEF SameRows, Ended
<1> QED BY <1>3, <1>4, <1>5

\* From d to e the view has the same rows, of the same assertions.
SameView(d, e, V, W, t) ==
    /\ SameRows(V, W, t)
    /\ \A p \in V : Assertion(e, p[1]) = Assertion(d, p[1])

\* Their claims and their states are equal.
LEMMA SameViewSameState ==
    ASSUME NEW d, NEW e, NEW V, NEW W, NEW i, NEW t, SameView(d, e, V, W, t)
    PROVE  Viewed(W) = Viewed(V) /\ StateOf(e, W, i) = StateOf(d, V, i)
<1> DEFINE Fresh(view) == {p \in view : InForce(p) /\ p[2].stale # "stale"}
           Objects(x, view) == {Assertion(x, p[1]).object : p \in Fresh(view)}
<1>0. /\ \A p \in V : \E q \in W : /\ p[1] = q[1]
                                   /\ p[2].status = q[2].status /\ p[2].stale = q[2].stale
      /\ \A q \in W : \E p \in V : /\ q[1] = p[1]
                                   /\ q[2].status = p[2].status /\ q[2].stale = p[2].stale
  BY ToldFields DEF SameRow, SameRows, SameView, Continues
<1>a. \A p \in V : Assertion(e, p[1]) = Assertion(d, p[1])
  BY DEF SameView
<1>1. (\E p \in V : p[2].status = "contested") <=> (\E q \in W : q[2].status = "contested")
  BY <1>0
<1>2. /\ \A p \in Fresh(V) : \E q \in Fresh(W) : p[1] = q[1]
      /\ \A q \in Fresh(W) : \E p \in Fresh(V) : p[1] = q[1]
  BY <1>0 DEF InForce
<1>3. V = {} <=> W = {}
  BY <1>0
<1>4. Fresh(V) = {} <=> Fresh(W) = {}
  <2> HIDE DEF Fresh
  <2> QED BY <1>2
<1>5. Objects(e, W) = Objects(d, V)
  <2>1. \A p \in Fresh(V) : Assertion(e, p[1]) = Assertion(d, p[1])
    BY <1>a
  <2> HIDE DEF Fresh
  <2> QED BY <1>2, <2>1
<1>6. Viewed(W) = Viewed(V)
  BY <1>0 DEF Viewed
<1>7. /\ StateOf(e, W, i) =
            IF (\E p \in W : p[2].status = "contested")
               \/ (i \in Single /\ \E x, y \in Objects(e, W) : x # y)
            THEN "contested"
            ELSE IF Fresh(W) # {} THEN "resolved" ELSE IF W # {} THEN "stale" ELSE "unknown"
      /\ StateOf(d, V, i) =
            IF (\E p \in V : p[2].status = "contested")
               \/ (i \in Single /\ \E x, y \in Objects(d, V) : x # y)
            THEN "contested"
            ELSE IF Fresh(V) # {} THEN "resolved" ELSE IF V # {} THEN "stale" ELSE "unknown"
  BY Zenon DEF StateOf
<1> HIDE DEF Fresh, Objects
<1>8. StateOf(e, W, i) = StateOf(d, V, i)
  BY <1>1, <1>3, <1>4, <1>5, <1>7
<1> QED BY <1>6, <1>8

\* The versions that had begun are the same rows.
LEMMA HistoryKept ==
    ASSUME NEW d, NEW e, Stored(d), Stored(e), NEW t \in Nat, Advances(d, e, t),
           NEW known \in Nat, known < t, NEW viewed, viewed \subseteq Claim
    PROVE  SameRows(HistoryOf(d, viewed, known), HistoryOf(e, viewed, known), t)
<1> DEFINE V == HistoryOf(d, viewed, known)
           W == HistoryOf(e, viewed, known)
           H(c) == d.claims[c].versions
           G(c) == e.claims[c].versions
<1>1. \A p : p \in V <=> \E c \in viewed : \E n \in DOMAIN H(c) :
                         p = <<c, H(c)[n]>> /\ H(c)[n].from <= known
  BY DEF HistoryOf, Range
<1>2. \A p : p \in W <=> \E c \in viewed : \E n \in DOMAIN G(c) :
                         p = <<c, G(c)[n]>> /\ G(c)[n].from <= known
  BY DEF HistoryOf, Range
<1>3. \A c \in viewed : /\ H(c) \in Seq(Version) /\ G(c) \in Seq(Version)
                        /\ Grown(H(c), G(c), t)
  BY StoredRows DEF Advances
<1> HIDE DEF V, W, H, G
<1>4. ASSUME NEW c \in viewed, NEW n \in DOMAIN H(c)
      PROVE  /\ n \in DOMAIN G(c) /\ Continues(H(c)[n], G(c)[n], t)
             /\ G(c)[n].from = H(c)[n].from
  <2>1. n \in DOMAIN G(c)
    BY <1>3 DEF Grown
  <2>2. H(c)[n] \in Version /\ G(c)[n] \in Version
    BY <1>3, <2>1
  <2>3. Continues(H(c)[n], G(c)[n], t)
    BY <1>3, <2>2 DEF Grown, Continues
  <2> QED BY <2>1, <2>2, <2>3, ToldFields DEF Continues
<1>5. ASSUME NEW c \in viewed, NEW n \in DOMAIN G(c), G(c)[n].from <= known
      PROVE  n \in DOMAIN H(c)
  <2>1. G(c)[n] \in Version
    BY <1>3
  <2>2. G(c)[n].from \in Nat
    BY <2>1 DEF Version
  <2>3. ~(Len(H(c)) < n)
    BY <1>3, <1>5, <2>2 DEF Grown
  <2> QED BY <1>3, <2>3
<1>6. ASSUME NEW p \in V PROVE \E q \in W : SameRow(p, q, t)
  <2>1. PICK c \in viewed : \E n \in DOMAIN H(c) :
            p = <<c, H(c)[n]>> /\ H(c)[n].from <= known
    BY <1>1
  <2>2. PICK n \in DOMAIN H(c) : p = <<c, H(c)[n]>> /\ H(c)[n].from <= known
    BY <2>1
  <2>3. <<c, G(c)[n]>> \in W
    BY <1>2, <1>4, <2>2
  <2>4. SameRow(p, <<c, G(c)[n]>>, t)
    BY <1>4, <2>2 DEF SameRow
  <2> QED BY <2>3, <2>4
<1>7. ASSUME NEW q \in W PROVE \E p \in V : SameRow(p, q, t)
  <2>1. PICK c \in viewed : \E n \in DOMAIN G(c) :
            q = <<c, G(c)[n]>> /\ G(c)[n].from <= known
    BY <1>2
  <2>2. PICK n \in DOMAIN G(c) : q = <<c, G(c)[n]>> /\ G(c)[n].from <= known
    BY <2>1
  <2>3. n \in DOMAIN H(c)
    BY <1>5, <2>2
  <2>4. <<c, H(c)[n]>> \in V
    BY <1>1, <1>4, <2>2, <2>3
  <2>5. SameRow(<<c, H(c)[n]>>, q, t)
    BY <1>4, <2>2, <2>3 DEF SameRow
  <2> QED BY <2>4, <2>5
<1> QED BY <1>6, <1>7 DEF SameRows, V, W

\* A view, claim by claim and version by version.
LEMMA ViewParts ==
    ASSUME NEW d, NEW logs, NEW i, NEW valid, NEW known
    PROVE  \A p : p \in ViewOf(d, logs, i, valid, known) <=>
              \E c \in Claim : \E n \in Latest(d.claims[c].versions, valid, known) :
                 /\ IdentityOf(c) = i /\ p = <<c, d.claims[c].versions[n]>>
                 /\ d.claims[c].versions[n].status \in
                       {"accepted", "contested", "superseded", "stale", "historical"}
                 /\ ~ArchivedBy(logs[MemoryOf(c)], known)
<1> SUFFICES ASSUME NEW p
             PROVE  p \in ViewOf(d, logs, i, valid, known) <=>
              \E c \in Claim : \E n \in Latest(d.claims[c].versions, valid, known) :
                 /\ IdentityOf(c) = i /\ p = <<c, d.claims[c].versions[n]>>
                 /\ d.claims[c].versions[n].status \in
                       {"accepted", "contested", "superseded", "stale", "historical"}
                 /\ ~ArchivedBy(logs[MemoryOf(c)], known)
  OBVIOUS
<1>1. p \in ViewOf(d, logs, i, valid, known) <=>
        /\ \E c \in Claim : /\ IdentityOf(c) = i
                            /\ p \in {c} \X VisibleVersions(d.claims[c], valid, known)
        /\ p[2].status \in {"accepted", "contested", "superseded", "stale", "historical"}
        /\ ~ArchivedBy(logs[MemoryOf(p[1])], known)
  BY DEF ViewOf
<1>2. \A c \in Claim : p \in {c} \X VisibleVersions(d.claims[c], valid, known) <=>
         \E n \in Latest(d.claims[c].versions, valid, known) :
            p = <<c, d.claims[c].versions[n]>>
  BY VisibleIsLatest
<1> QED BY <1>1, <1>2

\* From d to e the view as known before t has the same rows.
LEMMA ViewKept ==
    ASSUME NEW d, NEW e, Stored(d), Stored(e), NEW t \in Nat, Advances(d, e, t),
           NEW logs, NEW after, NEW i, NEW valid, NEW known \in Nat, known < t,
           \A m \in Memory : ArchivedBy(after[m], known) <=> ArchivedBy(logs[m], known)
    PROVE  SameView(d, e, ViewOf(d, logs, i, valid, known),
                    ViewOf(e, after, i, valid, known), t)
<1> DEFINE V == ViewOf(d, logs, i, valid, known)
           W == ViewOf(e, after, i, valid, known)
           H(c) == d.claims[c].versions
           G(c) == e.claims[c].versions
           Viewable == {"accepted", "contested", "superseded", "stale", "historical"}
<1>1. ASSUME NEW c \in Claim
      PROVE  /\ Latest(G(c), valid, known) = Latest(H(c), valid, known)
             /\ ArchivedBy(after[MemoryOf(c)], known) <=> ArchivedBy(logs[MemoryOf(c)], known)
             /\ \A n \in Latest(H(c), valid, known) :
                   Continues(H(c)[n], G(c)[n], t) /\ G(c)[n].status = H(c)[n].status
  <2>1. /\ H(c) \in Seq(Version) /\ G(c) \in Seq(Version) /\ Grown(H(c), G(c), t)
        /\ MemoryOf(c) \in Memory
    BY StoredRows, ClaimParts DEF Advances
  <2> HIDE DEF H, G
  <2>2. /\ Latest(G(c), valid, known) = Latest(H(c), valid, known)
        /\ \A n \in Latest(H(c), valid, known) : Continues(H(c)[n], G(c)[n], t)
    BY <2>1, GrownShows
  <2> QED BY <2>1, <2>2, ToldFields DEF Continues
<1>2. /\ \A p \in V : \E c \in Claim : \E n \in Latest(H(c), valid, known) :
            /\ IdentityOf(c) = i /\ p = <<c, H(c)[n]>> /\ H(c)[n].status \in Viewable
            /\ ~ArchivedBy(logs[MemoryOf(c)], known)
      /\ \A c \in Claim : \A n \in Latest(H(c), valid, known) :
            /\ IdentityOf(c) = i /\ H(c)[n].status \in Viewable
            /\ ~ArchivedBy(logs[MemoryOf(c)], known)
            => <<c, H(c)[n]>> \in V
  BY ViewParts
<1>3. /\ \A p \in W : \E c \in Claim : \E n \in Latest(G(c), valid, known) :
            /\ IdentityOf(c) = i /\ p = <<c, G(c)[n]>> /\ G(c)[n].status \in Viewable
            /\ ~ArchivedBy(after[MemoryOf(c)], known)
      /\ \A c \in Claim : \A n \in Latest(G(c), valid, known) :
            /\ IdentityOf(c) = i /\ G(c)[n].status \in Viewable
            /\ ~ArchivedBy(after[MemoryOf(c)], known)
            => <<c, G(c)[n]>> \in W
  BY ViewParts
<1>a. \A c \in Claim : H(c) = d.claims[c].versions
  OBVIOUS
<1> HIDE DEF V, W, H, G, Viewable
<1>4. \A p \in V : \E q \in W : SameRow(p, q, t)
  <2> SUFFICES ASSUME NEW p \in V
               PROVE  \E q \in W : SameRow(p, q, t)
    OBVIOUS
  <2>1. PICK c \in Claim : \E n \in Latest(H(c), valid, known) :
            /\ IdentityOf(c) = i /\ p = <<c, H(c)[n]>> /\ H(c)[n].status \in Viewable
            /\ ~ArchivedBy(logs[MemoryOf(c)], known)
    BY <1>2
  <2>2. PICK n \in Latest(H(c), valid, known) :
            /\ IdentityOf(c) = i /\ p = <<c, H(c)[n]>> /\ H(c)[n].status \in Viewable
            /\ ~ArchivedBy(logs[MemoryOf(c)], known)
    BY <2>1
  <2>3. <<c, G(c)[n]>> \in W
    BY <1>1, <1>3, <2>2
  <2>4. SameRow(p, <<c, G(c)[n]>>, t)
    BY <1>1, <2>2 DEF SameRow
  <2> QED BY <2>3, <2>4
<1>5. \A p \in W : \E q \in V : SameRow(q, p, t)
  <2> SUFFICES ASSUME NEW p \in W
               PROVE  \E q \in V : SameRow(q, p, t)
    OBVIOUS
  <2>1. PICK c \in Claim : \E n \in Latest(G(c), valid, known) :
            /\ IdentityOf(c) = i /\ p = <<c, G(c)[n]>> /\ G(c)[n].status \in Viewable
            /\ ~ArchivedBy(after[MemoryOf(c)], known)
    BY <1>3
  <2>2. PICK n \in Latest(G(c), valid, known) :
            /\ IdentityOf(c) = i /\ p = <<c, G(c)[n]>> /\ G(c)[n].status \in Viewable
            /\ ~ArchivedBy(after[MemoryOf(c)], known)
    BY <2>1
  <2>3. n \in Latest(H(c), valid, known) /\ <<c, H(c)[n]>> \in V
    BY <1>1, <1>2, <2>2
  <2>4. SameRow(<<c, H(c)[n]>>, p, t)
    BY <1>1, <2>2, <2>3 DEF SameRow
  <2> QED BY <2>3, <2>4
<1>6. ASSUME NEW p \in V PROVE Assertion(e, p[1]) = Assertion(d, p[1])
  <2>1. PICK c \in Claim : \E n \in Latest(H(c), valid, known) : p = <<c, H(c)[n]>>
    BY <1>2
  <2>2. PICK n \in Latest(H(c), valid, known) : p = <<c, H(c)[n]>>
    BY <2>1
  <2>3. n \in DOMAIN H(c)
    BY <2>2 DEF Latest, Shown
  <2>4. d.claims[c] # NoClaim
    BY <1>a, <2>3 DEF NoClaim
  <2>5. Prefix(d.memories[MemoryOf(c)].texts, e.memories[MemoryOf(c)].texts)
    BY ClaimParts DEF Advances
  <2> QED BY <2>2, <2>4, <2>5, AssertionKept
<1> QED BY <1>4, <1>5, <1>6 DEF V, W, SameView, SameRows

\* An event is stamped with the clock or later.
LEMMA ArchivedKept ==
    ASSUME ArchiveInv, [Next]_vars, NEW m \in Memory, NEW known \in Nat, known < clock
    PROVE  ArchivedBy(events'[m], known) <=> ArchivedBy(events[m], known)
<1> DEFINE log == events[m]
<1>0. clock \in Nat /\ log \in Seq(Event)
  BY BoundsAssumption DEF ArchiveInv
<1>1. CASE events'[m] = events[m]
  BY <1>1
<1>2. ASSUME NEW k \in Memory, NEW kind, Happen(k, kind)
      PROVE  ArchivedBy(events'[m], known) <=> ArchivedBy(events[m], known)
  <2>1. CASE k = m
    <3> DEFINE event == [kind |-> kind, at |-> EventMoment(m)]
    <3>1. EventMoment(m) \in Nat /\ clock <= EventMoment(m)
      <4>1. CASE log = << >>
        BY <1>0, <4>1 DEF EventMoment
      <4>2. CASE log # << >>
        <5>1. log[Len(log)] \in Event
          BY <1>0, <4>2
        <5>2. log[Len(log)].at \in Nat
          BY <5>1 DEF Event
        <5> QED BY <1>0, <4>2, <5>2 DEF EventMoment, Moment
      <4> QED BY <4>1, <4>2
    <3>2. events'[m] = Append(log, event) /\ event.at = EventMoment(m)
      BY <1>2, <2>1 DEF Happen, ArchiveInv
    <3> HIDE DEF event
    <3>3. Range(Append(log, event)) = Range(log) \cup {event}
      <4> DEFINE s == Append(log, event)
      <4>1. /\ DOMAIN s = DOMAIN log \cup {Len(log) + 1} /\ s[Len(log) + 1] = event
            /\ \A n \in DOMAIN log : s[n] = log[n]
        BY <1>0
      <4> HIDE DEF s
      <4>2. Range(s) = Range(log) \cup {event}
        BY <4>1 DEF Range
      <4> QED BY <4>2 DEF s
    <3>4. ~(event.at <= known)
      BY <1>0, <3>1, <3>2
    <3>5. {x \in Range(events'[m]) : x.at <= known} = {x \in Range(log) : x.at <= known}
      BY <3>2, <3>3, <3>4
    <3> QED BY <3>5 DEF ArchivedBy
  <2>2. CASE k # m
    <3>1. events'[m] = events[m]
      BY <1>2, <2>2 DEF Happen, ArchiveInv
    <3> QED BY <3>1
  <2> QED BY <2>1, <2>2
<1>3. events' = events \/ \E k \in Memory : Happen(k, "archive") \/ Happen(k, "restore")
  BY DEF Next, Tick, ExpireDue, Propose, Edit, Reschedule, Confirm, ConfirmConflicting,
         ConfirmReject, Reject, Forget, Archive, Restore, Anchor, Refresh, Resolve, Rate,
         vars, health
<1> QED BY <1>1, <1>2, <1>3

\* Anchored editions are editions.
AnchorInv == \A m \in Memory : memories[m].anchored <= Len(memories[m].texts)

LEMMA AnchorInvariant == Spec => [](TruthInv /\ AnchorInv)
<1>1. Init => AnchorInv
  <2> SUFFICES ASSUME Init PROVE AnchorInv
    OBVIOUS
  <2>1. \A m \in Memory : memories[m] = NoMemory
    BY DEF Init
  <2>2. NoMemory.anchored = 0 /\ NoMemory.texts = << >> /\ Len(<< >>) = 0
    BY DEF NoMemory
  <2> QED BY <2>1, <2>2 DEF AnchorInv
<1>2. ASSUME TruthInv, AnchorInv, [Next]_vars PROVE AnchorInv'
  <2>1. Advances(db, db', clock)
    BY <1>2, StepFollows
  <2>2. db.memories = memories /\ db'.memories = memories'
    BY DEF db
  <2>3. \A m \in Memory : AnchorsKept(memories[m], memories'[m])
    BY <2>1, <2>2 DEF Advances
  <2> QED BY <1>2, <2>3 DEF AnchorsKept, AnchorInv
<1> QED BY <1>1, <1>2, InitTruth, StepFollows, PTL DEF Spec

\* What an answer as known at a past instant says of that instant stands, and
\* the rest of it is only added to.
LEMMA AnswerStands ==
    ASSUME TruthInv, TruthInv', ArchiveInv, AnchorInv, [Next]_vars,
           NEW i, NEW valid, NEW known \in Nat, known < clock
    PROVE  SameButLater(Answer(i, valid, known), Answer(i, valid, known)', known)
<1> DEFINE V == ViewOf(db, events, i, valid, known)
           W == ViewOf(db', events', i, valid, known)
           answer == AnswerOf(db, V, i, known)
           later == AnswerOf(db', W, i, known)
<1>1. /\ clock \in Nat /\ Stored(db) /\ Stored(db') /\ Advances(db, db', clock)
      /\ db.memories = memories
  BY StepFollows, BoundsAssumption DEF TruthInv, Sound, Base, db
<1>2. \A m \in Memory : ArchivedBy(events'[m], known) <=> ArchivedBy(events[m], known)
  BY ArchivedKept
<1>3. SameView(db, db', V, W, clock)
  BY <1>1, <1>2, ViewKept
<1>4. Viewed(V) \subseteq Claim
  BY ViewParts DEF Viewed
<1> HIDE DEF V, W
<1>5. Viewed(W) = Viewed(V) /\ StateOf(db', W, i) = StateOf(db, V, i)
  BY <1>3, SameViewSameState
<1>6. AsOf(W, known) = AsOf(V, known) /\ Ended(V) \subseteq W
  BY <1>1, <1>3, RowsStand DEF SameView
<1>7. LET h == HistoryOf(db, Viewed(V), known)
          g == HistoryOf(db', Viewed(V), known)
      IN  AsOf(g, known) = AsOf(h, known) /\ Ended(h) \subseteq g
  BY <1>1, <1>4, HistoryKept, RowsStand
<1>8. \A c \in Viewed(V) : db.memories[MemoryOf(c)].anchored <= db'.memories[MemoryOf(c)].anchored
  BY <1>1, <1>4, ClaimParts DEF Advances, AnchorsKept, AnchorInv
<1>9. {c \in Viewed(V) : EditionOf(c) <= db.memories[MemoryOf(c)].anchored}
         \subseteq {c \in Viewed(V) : EditionOf(c) <= db'.memories[MemoryOf(c)].anchored}
  <2>1. \A c \in Viewed(V) : /\ EditionOf(c) \in Nat
                             /\ db.memories[MemoryOf(c)].anchored \in Nat
                             /\ db'.memories[MemoryOf(c)].anchored \in Nat
    BY <1>1, <1>4, ClaimParts, StoredRows
  <2> QED BY <1>8, <2>1
<1>10. {relation \in db.relations : relation.pair \cap Viewed(V) # {}}
          \subseteq {relation \in db'.relations : relation.pair \cap Viewed(V) # {}}
  BY <1>1 DEF Advances
<1>11. SameButLater(answer, later, known)
  BY <1>5, <1>6, <1>7, <1>9, <1>10 DEF SameButLater, AnswerOf
<1>12. Answer(i, valid, known) = answer /\ Answer(i, valid, known)' = later
  BY AnswerIs DEF V, W
<1> QED BY <1>11, <1>12

\* It stands whatever the call.
THEOREM PastTruthAlwaysStands == Spec => PastTruthStands
<1>1. ASSUME TruthInv, TruthInv', ArchiveInv, AnchorInv, [Next]_vars
      PROVE  [\A i \in Identity, valid \in 1 .. MaxClock + 1, known \in 1 .. MaxClock :
                known < clock =>
                   \A answer \in {Answer(i, valid, known)},
                      later \in {Answer(i, valid, known)'} :
                      SameButLater(answer, later, known)]_vars
  <2> SUFFICES ASSUME NEW i \in Identity, NEW valid \in 1 .. MaxClock + 1,
                      NEW known \in 1 .. MaxClock, known < clock
               PROVE  SameButLater(Answer(i, valid, known), Answer(i, valid, known)', known)
    OBVIOUS
  <2>1. known \in Nat
    OBVIOUS
  <2> QED BY <1>1, <2>1, AnswerStands
<1> QED BY <1>1, AnchorInvariant, InitArchive, StepArchive, PTL DEF Spec, PastTruthStands

-----------------------------------------------------------------------------
\* Answers about the present, when a memory is archived.

\* Once every moment is past the version that is open is the one shown.
LEMMA OpenIsShown ==
    ASSUME NEW h, History(h), NEW known \in Nat, NEW valid,
           \A n \in DOMAIN h : h[n].from <= known /\ (h[n].to # NULL => h[n].to <= known)
    PROVE  /\ \A n \in Latest(h, valid, known) :
                 /\ n \in OpenVersions(h)
                 /\ Covers(h[n].validFrom, h[n].validTo, valid)
           /\ \A n \in OpenVersions(h) :
                 Covers(h[n].validFrom, h[n].validTo, valid) => n \in Latest(h, valid, known)
<1>1. /\ h \in Seq(Version) /\ DOMAIN h = 1 .. Len(h)
      /\ \A n \in DOMAIN h : h[n] \in Version /\ (h[n].to = NULL <=> n = Len(h))
  BY DEF History
<1>2. \A n \in DOMAIN h : h[n].from \in Nat /\ (h[n].to # NULL => h[n].to \in Nat)
  BY <1>1 DEF Version, End
<1>3. \A n \in DOMAIN h : Covers(h[n].from, h[n].to, known) <=> h[n].to = NULL
  BY <1>2, NullAssumption DEF Covers
<1>4. \A n \in Shown(h, valid, known) :
          n \in OpenVersions(h) /\ Covers(h[n].validFrom, h[n].validTo, valid)
  BY <1>3 DEF Shown, OpenVersions
<1>5. ASSUME NEW n \in OpenVersions(h), Covers(h[n].validFrom, h[n].validTo, valid)
      PROVE  n \in Latest(h, valid, known)
  <2>1. n \in Shown(h, valid, known)
    BY <1>3, <1>5 DEF Shown, OpenVersions
  <2>2. \A k \in OpenVersions(h) : k = n
    BY <1>1 DEF OpenVersions
  <2>3. \A k \in Shown(h, valid, known) : k = n
    BY <1>4, <2>2
  <2>4. n \in Nat
    BY <1>1 DEF OpenVersions
  <2> QED BY <2>1, <2>3, <2>4 DEF Latest
<1> QED BY <1>4, <1>5 DEF Latest

\* What a history keeps, of the claims in the tables.
LEMMA PastHistory ==
    ASSUME TruthInv, NEW known, AllPast(known), NEW c \in Claim, claims[c] # NoClaim
    PROVE  /\ History(claims[c].versions)
           /\ \A n \in DOMAIN claims[c].versions :
                 /\ claims[c].versions[n].from <= known
                 /\ claims[c].versions[n].to # NULL => claims[c].versions[n].to <= known
<1>1. History(claims[c].versions)
  BY DEF TruthInv, Sound, Base, Stored, db
<1> QED BY <1>1 DEF AllPast, Range

\* An identity is resolved when something fresh is in force and nothing
\* disputes it.
Resolving(d, view, i) ==
    /\ \A p \in view : p[2].status # "contested"
    /\ \A p, q \in view :
          /\ InForce(p) /\ p[2].stale # "stale"
          /\ InForce(q) /\ q[2].stale # "stale"
          /\ i \in Single
          => Assertion(d, p[1]).object = Assertion(d, q[1]).object
    /\ \E p \in view : InForce(p) /\ p[2].stale # "stale"

LEMMA ResolvedIs ==
    ASSUME NEW d, NEW view, NEW i
    PROVE  StateOf(d, view, i) = "resolved" <=> Resolving(d, view, i)
<1> DEFINE fresh == {p \in view : InForce(p) /\ p[2].stale # "stale"}
           objects == {Assertion(d, p[1]).object : p \in fresh}
           disputed == \/ \E p \in view : p[2].status = "contested"
                       \/ i \in Single /\ \E x, y \in objects : x # y
<1>1. StateOf(d, view, i) =
        IF disputed THEN "contested"
        ELSE IF fresh # {} THEN "resolved"
        ELSE IF view # {} THEN "stale" ELSE "unknown"
  BY Zenon DEF StateOf
<1>2. disputed <=> \/ \E p \in view : p[2].status = "contested"
                   \/ i \in Single /\ \E p, q \in fresh :
                         Assertion(d, p[1]).object # Assertion(d, q[1]).object
  OBVIOUS
<1>3. StateOf(d, view, i) = "resolved" <=> ~disputed /\ fresh # {}
  <2> HIDE DEF disputed, fresh
  <2> QED BY <1>1
<1> HIDE DEF disputed
<1> QED BY <1>2, <1>3 DEF Resolving

LEMMA ArchiveLeavesTruth ==
    ASSUME TruthInv, ArchiveInv, NEW m \in Memory, Archive(m), temperature[m] # "archived",
           NEW i, NEW known \in Nat, AllPast(known), TruthState(i, clock, known) = "resolved"
    PROVE  TruthState(i, clock, known)' = "resolved"
<1> DEFINE V == ViewOf(db, events, i, clock, known)
           W == ViewOf(db, events', i, clock, known)
           h(c) == claims[c].versions
<1>1. /\ clock' = clock /\ db' = db /\ TruthSafe(m) /\ db.claims = claims
      /\ \A k \in Memory : k # m => events'[k] = events[k]
  BY DEF Archive, Happen, db, ArchiveInv
<1>2. \A k \in Memory : ArchivedBy(events[k], known) <=> temperature[k] = "archived"
  BY PastArchive DEF AllPast, Archived, ArchivedBy
<1>3. /\ TruthState(i, clock, known) = StateOf(db, V, i)
      /\ TruthState(i, clock, known)' = StateOf(db, W, i)
  BY <1>1, StateIs
<1>4. Resolving(db, V, i)
  BY <1>3, ResolvedIs
<1>5. \A c \in Claim : MemoryOf(c) \in Memory
  BY ClaimParts
<1>6. \A p : p \in V <=>
        \E c \in Claim : \E n \in Latest(h(c), clock, known) :
           /\ IdentityOf(c) = i /\ p = <<c, h(c)[n]>>
           /\ h(c)[n].status \in {"accepted", "contested", "superseded", "stale", "historical"}
           /\ ~ArchivedBy(events[MemoryOf(c)], known)
  BY <1>1, ViewParts
<1>7. \A p : p \in W <=>
        \E c \in Claim : \E n \in Latest(h(c), clock, known) :
           /\ IdentityOf(c) = i /\ p = <<c, h(c)[n]>>
           /\ h(c)[n].status \in {"accepted", "contested", "superseded", "stale", "historical"}
           /\ ~ArchivedBy(events'[MemoryOf(c)], known)
  BY <1>1, ViewParts
<1> HIDE DEF V, W
<1>8. W \subseteq V
  <2>1. \A c \in Claim : ~ArchivedBy(events'[MemoryOf(c)], known)
                            => ~ArchivedBy(events[MemoryOf(c)], known)
    BY <1>1, <1>2, <1>5
  <2> QED BY <1>6, <1>7, <2>1
<1>9. PICK p \in V : InForce(p) /\ p[2].stale # "stale"
  BY <1>4 DEF Resolving
<1>14. PICK c \in Claim :
          \E n \in Latest(h(c), clock, known) :
           /\ IdentityOf(c) = i /\ p = <<c, h(c)[n]>>
           /\ h(c)[n].status \in {"accepted", "contested", "superseded", "stale", "historical"}
           /\ ~ArchivedBy(events[MemoryOf(c)], known)
  BY <1>6
<1>10. PICK n \in Latest(h(c), clock, known) :
           /\ IdentityOf(c) = i /\ p = <<c, h(c)[n]>>
           /\ h(c)[n].status \in {"accepted", "contested", "superseded", "stale", "historical"}
           /\ ~ArchivedBy(events[MemoryOf(c)], known)
  BY <1>14
<1>11. h(c)[n].status = "accepted" /\ h(c)[n].stale # "stale"
  BY <1>4, <1>9, <1>10 DEF Resolving, InForce
<1>12. \E q \in W : InForce(q) /\ q[2].stale # "stale"
  <2>1. CASE MemoryOf(c) # m
    <3>1. ~ArchivedBy(events'[MemoryOf(c)], known)
      BY <1>1, <1>5, <1>10, <2>1
    <3>2. p \in W
      BY <1>7, <1>10, <3>1
    <3> QED BY <1>9, <3>2
  <2>2. CASE MemoryOf(c) = m
    <3>1. claims[c] # NoClaim
      BY <1>10 DEF NoClaim, Latest, Shown
    <3>2. n \in OpenVersions(h(c)) /\ Covers(h(c)[n].validFrom, h(c)[n].validTo, clock)
      BY <1>10, <3>1, PastHistory, OpenIsShown
    <3>3. claims[c].status # "absent"
      BY <1>1, <3>1, ClaimOfPresent DEF TruthInv, Sound, Base
    <3>4. c \in CurrentSupport(m)
      BY <1>1, <1>11, <2>2, <3>2, <3>3 DEF CurrentSupport, ClaimsOf
    <3>0. PICK k \in Memory \ {m} :
             temperature[k] # "archived" /\ \E e \in CurrentSupport(k) : IdentityOf(e) = i
      BY <1>1, <1>10, <3>4 DEF TruthSafe
    <3>5. PICK e \in CurrentSupport(k) : IdentityOf(e) = i
      BY <3>0
    <3>6. /\ e \in Claim /\ MemoryOf(e) = k /\ claims[e].status # "absent"
          /\ \E j \in OpenVersions(h(e)) :
                /\ h(e)[j].status = "accepted" /\ h(e)[j].stale # "stale"
                /\ Covers(h(e)[j].validFrom, h(e)[j].validTo, clock)
      BY <1>1, <3>5 DEF CurrentSupport, ClaimsOf
    <3>7. PICK j \in OpenVersions(h(e)) :
             /\ h(e)[j].status = "accepted" /\ h(e)[j].stale # "stale"
             /\ Covers(h(e)[j].validFrom, h(e)[j].validTo, clock)
      BY <3>6
    <3>8. j \in Latest(h(e), clock, known)
      <4>1. claims[e] # NoClaim
        BY <3>6 DEF NoClaim
      <4> QED BY <3>6, <3>7, <4>1, PastHistory, OpenIsShown
    <3>9. ~ArchivedBy(events'[MemoryOf(e)], known)
      BY <1>1, <1>2, <3>0, <3>6
    <3>10. <<e, h(e)[j]>> \in W
      BY <1>7, <3>5, <3>6, <3>7, <3>8, <3>9
    <3>11. InForce(<<e, h(e)[j]>>)
      BY <3>7 DEF InForce
    <3> QED BY <3>7, <3>10, <3>11
  <2> QED BY <2>1, <2>2
<1>13. Resolving(db, W, i)
  BY <1>4, <1>8, <1>12 DEF Resolving
<1> QED BY <1>3, <1>13, ResolvedIs

\* Only archive archives.
LEMMA OnlyArchive ==
    ASSUME ArchiveInv, [Next]_vars, NEW m \in Memory,
           temperature[m] # "archived", temperature'[m] = "archived"
    PROVE  Archive(m)
<1>1. temperature' # temperature
  OBVIOUS
<1>2. ASSUME NEW S \in SUBSET Memory, Rate(S) PROVE FALSE
  BY <1>2 DEF Rate
<1>3. ASSUME NEW k \in Memory, Restore(k) PROVE FALSE
  BY <1>3 DEF Restore, ArchiveInv
<1>4. ASSUME NEW k \in Memory, Archive(k) PROVE k = m
  BY <1>4 DEF Archive, ArchiveInv
<1> QED BY <1>1, <1>2, <1>3, <1>4
        DEF Next, Tick, ExpireDue, Propose, Edit, Reschedule, Confirm, ConfirmConflicting,
            ConfirmReject, Reject, Forget, Anchor, Refresh, Resolve, vars, health

\* An archive takes no answer away.
THEOREM ArchiveAlwaysKeepsTruth == Spec => ArchiveKeepsTruth
<1>1. ASSUME TruthInv, ArchiveInv, [Next]_vars,
             NEW i \in Identity, NEW known \in clock .. Horizon,
             AllPast(known), TruthState(i, clock, known) = "resolved",
             NEW m \in Memory, temperature[m] # "archived", temperature'[m] = "archived"
      PROVE  TruthState(i, clock, known)' = "resolved"
  <2>1. known \in Nat
    BY <1>1, BoundsAssumption DEF TruthInv, Horizon
  <2> QED BY <1>1, <2>1, OnlyArchive, ArchiveLeavesTruth
<1>2. ASSUME TruthInv, ArchiveInv, [Next]_vars
      PROVE  [\A i \in Identity, known \in clock .. Horizon :
                /\ AllPast(known) /\ TruthState(i, clock, known) = "resolved"
                /\ \E m \in Memory : temperature[m] # "archived" /\ temperature'[m] = "archived"
                => TruthState(i, clock, known)' = "resolved"]_vars
  BY <1>1, <1>2
<1> QED BY <1>2, TruthInvariant, InitArchive, StepArchive, PTL DEF Spec, ArchiveKeepsTruth
=============================================================================
