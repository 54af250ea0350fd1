------------------------ MODULE ConcurrentServiceProofs ------------------------
(***************************************************************************)
(* What ConcurrentService keeps for any number of processes, memories,      *)
(* rivals, calls and editions: its type, that the versions of a claim are   *)
(* numbered in the order of the commits, and that two memories in force     *)
(* contradict each other undisputed only where calls overlapped.            *)
(*                                                                         *)
(* The inductive invariant, ServiceInv, says what each session may still    *)
(* rely on of what it has read: the claims of a confirm are those it has    *)
(* gathered, and it has compared them with every claim in force, except     *)
(* where another call has committed a change since (beside).  The steps of  *)
(* a call that read keep it (ReadStep), so do those that flush under the    *)
(* write lock (FlushStep) and the exceptions (RollbackStep); the commit     *)
(* (WriteStep) keeps it for the sessions of all others.                     *)
(***************************************************************************)
EXTENDS ConcurrentService, SequenceTheorems, TLAPS

-----------------------------------------------------------------------------
\* The inductive invariant.

\* A database whose histories are numbered without a gap and end open.
Numbered(claim) ==
    /\ \A n \in DOMAIN claim.versions : claim.versions[n].number = n
    /\ claim # Absent => claim.versions[Len(claim.versions)].open

Sane(d) == d \in Database /\ \A c \in Claim : Numbered(d.claims[c])

\* What the draft of a call has beyond the last commit: new claims of its
\* memory, and answers about them.
Grown(d, e, m) ==
    /\ e.memories = d.memories
    /\ \A c \in Claim :
          e.claims[c] # d.claims[c] =>
              MemoryOf(c) = m /\ d.claims[c] = Absent /\ e.claims[c] # Absent
    /\ \A pair \in DOMAIN d.possible :
          pair \in DOMAIN e.possible /\ e.possible[pair] = d.possible[pair]
    /\ \A pair \in DOMAIN e.possible \ DOMAIN d.possible :
          \E c \in pair : MemoryOf(c) = m

Partial(T) == UNION {[S -> T] : S \in SUBSET Claim}

Steps == {"idle", "gather", "compare", "judge", "note", "own", "others",
          "rows", "current", "number", "write"}

Session ==
    [at: Steps, call: Call \cup {NULL}, own: SUBSET Claim, beside: SUBSET Memory,
     todo: SUBSET Pairs, conflicts: SUBSET Memory,
     note: (Pairs \X Verdict) \cup {NULL},
     cached: Partial(Fields), moves: Partial(Seq(Fields) \ {<< >>}),
     current: Nat, number: Nat]

Busied(s) == s.at # "idle"

Deciding(s) == s.at \in {"gather", "compare", "judge", "note"}

\* Activating: the second half of a confirm that makes its memory active.
Activating(s) == s.call.op = "confirm" /\ Outcome(s.call) = "active"

Looked(s) == s.at \notin {"idle", "gather", "compare"} /\ Activating(s)

Writes(s) == s.at \in {"current", "number", "write"}

\* What a session has copied from the tables.
Copied(s) ==
    /\ s.at # "idle" => s.call \in Call
    /\ Deciding(s) => s.call.op = "confirm"
    /\ s.at \in {"own", "others"} => Activating(s)
    /\ s.at = "rows" => ~Activating(s)
    /\ s.at = "note" => s.note \in s.todo \X Verdict
    /\ s.at \in {"judge", "note"} =>
          \A pair \in s.todo : \E c \in pair : MemoryOf(c) = s.call.memory
    /\ Writes(s) => DOMAIN s.moves \subseteq DOMAIN s.cached

\* The versions a session is to write and the numbers it gives them.
Ready(s, d) ==
    Writes(s) =>
        /\ s.at # "write" => DOMAIN s.moves # {}
        /\ \A c \in DOMAIN s.moves :
              /\ d.claims[c] # Absent
              /\ Last(s.moves[c]).status = "accepted" =>
                    Activating(s) /\ MemoryOf(c) = s.call.memory
        /\ s.at = "write" /\ DOMAIN s.moves # {} =>
              s.number \in 1 .. Len(d.claims[First(s)].versions) + 1

\* The look of a confirm at its memory and at the others.
OwnKept(s, d) ==
    s.at \notin {"idle", "gather"} /\ s.call.op = "confirm" =>
        /\ s.own # {}
        /\ \A c \in s.own : MemoryOf(c) = s.call.memory
        /\ Activating(s) /\ s.call.memory \notin s.beside =>
              LiveClaims(d, s.call.memory) = s.own

Against(s, d) == {e \in InForce(d, Active(d, s.call.memory)) : MemoryOf(e) \notin s.beside}

Compared(s, d, c, e) ==
    /\ {MemoryOf(c), MemoryOf(e)} \in Rival => MemoryOf(e) \in s.conflicts
    /\ {MemoryOf(c), MemoryOf(e)} \in Unsure =>
          \/ {c, e} \in s.todo
          \/ /\ {c, e} \in DOMAIN d.possible
             /\ d.possible[{c, e}] = "confirmed" => MemoryOf(e) \in s.conflicts

OthersCompared(s, d) ==
    Looked(s) => \A c \in s.own, e \in Against(s, d) : Compared(s, d, c, e)

Asked(s) == Looked(s) /\ s.at \notin {"judge", "note"} => s.todo = {}

\* A confirm that does not supersede contests the claim it has in dispute.
Contested(s, c) ==
    /\ c \in DOMAIN s.moves
    /\ Last(s.moves[c]).status = "contested"
    /\ \E i \in DOMAIN s.moves[c] : s.moves[c][i].status # s.cached[c].status

DisputesKept(s, d) ==
    Writes(s) /\ Activating(s) /\ s.call.memory \notin s.beside =>
        /\ \A c \in DOMAIN s.cached : MemoryOf(c) = s.call.memory => c \in s.own
        /\ s.call.strategy # "supersede" =>
              \A c \in s.own, e \in Against(s, d) :
                  Conflicting(d, c, e) => Contested(s, c)

CachedOwn(s) ==
    s.at = "others" /\ s.call.memory \notin s.beside => DOMAIN s.cached = s.own

OthersCached(s, d) ==
    s.at = "others" => /\ DOMAIN s.cached # {}
                       /\ \A c \in DOMAIN s.cached :
                             d.claims[c] # Absent /\ MemoryOf(c) = s.call.memory

SessionOK(s, d) ==
    /\ s \in Session
    /\ Busied(s) => /\ Copied(s) /\ Ready(s, d)
                    /\ OwnKept(s, d) /\ OthersCompared(s, d) /\ Asked(s)
                    /\ DisputesKept(s, d) /\ CachedOwn(s) /\ OthersCached(s, d)

-----------------------------------------------------------------------------
\* What the types say.

LEMMA ClaimMemory == \A c \in Claim : MemoryOf(c) \in Memory
BY DEF Claim, MemoryOf

LEMMA PartialFacts ==
    ASSUME NEW T, NEW f
    PROVE  f \in Partial(T) <=> DOMAIN f \subseteq Claim /\ f \in [DOMAIN f -> T]
<1>1. ASSUME f \in Partial(T)
      PROVE  DOMAIN f \subseteq Claim /\ f \in [DOMAIN f -> T]
    <2>1. PICK S \in SUBSET Claim : f \in [S -> T]
        BY <1>1 DEF Partial
    <2> QED
        BY <2>1
<1>2. ASSUME DOMAIN f \subseteq Claim, f \in [DOMAIN f -> T]
      PROVE  f \in Partial(T)
    BY <1>2 DEF Partial
<1> QED
    BY <1>1, <1>2

\* The rows of a claim that is there.
ClaimRow == [row: Fields, versions: Seq(Version) \ {<< >>}]

LEMMA AbsentIsNone == Absent \notin ClaimRow
BY DEF Absent, ClaimRow, Fields, Row, ClaimStatus

\* What a well-formed database holds.
Holds(d) ==
    /\ d.memories \in [Memory -> MemoryStatus]
    /\ d.claims \in [Claim -> {Absent} \cup ClaimRow]
    /\ DOMAIN d.possible \subseteq Pairs
    /\ d.possible \in [DOMAIN d.possible -> Verdict]
    /\ d.relations \in SUBSET (Memory \X Memory \X {NULL, "supersede", "keep_both"})

Possible == UNION {[asked -> Verdict] : asked \in SUBSET Pairs}

LEMMA PossibleFacts ==
    ASSUME NEW f
    PROVE  f \in Possible <=> DOMAIN f \subseteq Pairs /\ f \in [DOMAIN f -> Verdict]
<1>1. ASSUME f \in Possible
      PROVE  DOMAIN f \subseteq Pairs /\ f \in [DOMAIN f -> Verdict]
    <2>1. PICK S \in SUBSET Pairs : f \in [S -> Verdict]
        BY <1>1 DEF Possible
    <2> QED
        BY <2>1
<1>2. ASSUME DOMAIN f \subseteq Pairs, f \in [DOMAIN f -> Verdict]
      PROVE  f \in Possible
    BY <1>2 DEF Possible
<1> QED
    BY <1>1, <1>2

LEMMA DatabaseType ==
    Database = [memories: [Memory -> MemoryStatus],
                claims: [Claim -> {Absent} \cup ClaimRow],
                possible: Possible,
                relations: SUBSET (Memory \X Memory \X {NULL, "supersede", "keep_both"})]
BY DEF Database, ClaimRow, Possible

LEMMA DatabaseHolds == ASSUME NEW d \in Database PROVE Holds(d)
<1>1. /\ d.memories \in [Memory -> MemoryStatus]
      /\ d.claims \in [Claim -> {Absent} \cup ClaimRow]
      /\ d.possible \in Possible
      /\ d.relations \in SUBSET (Memory \X Memory \X {NULL, "supersede", "keep_both"})
    BY DatabaseType
<1> QED
    BY <1>1, PossibleFacts DEF Holds

\* A claim that is there has a first version.
LEMMA ClaimHolds ==
    ASSUME NEW d \in Database, NEW c \in Claim, d.claims[c] # Absent
    PROVE  /\ d.claims[c] \in ClaimRow
           /\ d.claims[c].row \in Fields
           /\ d.claims[c].versions \in Seq(Version)
           /\ Len(d.claims[c].versions) \in Nat \ {0}
           /\ DOMAIN d.claims[c].versions = 1 .. Len(d.claims[c].versions)
<1>1. d.claims[c] \in ClaimRow
    BY DatabaseHolds DEF Holds
<1>2. /\ d.claims[c].row \in Fields
      /\ d.claims[c].versions \in Seq(Version) /\ d.claims[c].versions # << >>
    BY <1>1 DEF ClaimRow
<1> QED
    BY <1>1, <1>2

\* Writing one table leaves the others.
LEMMA WithClaims ==
    ASSUME NEW d \in Database, NEW C \in [Claim -> {Absent} \cup ClaimRow]
    PROVE  LET e == [d EXCEPT !.claims = C]
           IN  /\ e \in Database /\ e.claims = C /\ e.memories = d.memories
               /\ e.possible = d.possible /\ e.relations = d.relations
BY DatabaseType

LEMMA WithPossible ==
    ASSUME NEW d \in Database, NEW P \in Possible
    PROVE  LET e == [d EXCEPT !.possible = P]
           IN  /\ e \in Database /\ e.possible = P /\ e.memories = d.memories
               /\ e.claims = d.claims /\ e.relations = d.relations
BY DatabaseType

\* A new claim is sane.
LEMMA FirstVersionSane ==
    ASSUME NEW status \in {"candidate", "accepted"}
    PROVE  /\ FirstVersion(status) \in ClaimRow
           /\ FirstVersion(status) # Absent
           /\ Numbered(FirstVersion(status))
           /\ FirstVersion(status).row = Row(status, "unknown")
           /\ FirstVersion(status).row \in Fields
<1>1. Row(status, "unknown") \in Fields
    BY DEF Row, Fields, ClaimStatus
<1>2. [number |-> 1, row |-> Row(status, "unknown"), open |-> TRUE] \in Version
    BY <1>1 DEF Version
<1>3. FirstVersion(status) \in ClaimRow
    BY <1>1, <1>2 DEF FirstVersion, ClaimRow
<1>4. FirstVersion(status) # Absent
    BY <1>3, AbsentIsNone
<1>5. Numbered(FirstVersion(status))
    BY DEF Numbered, FirstVersion
<1>6. FirstVersion(status).row = Row(status, "unknown")
    BY DEF FirstVersion
<1> QED
    BY <1>1, <1>3, <1>4, <1>5, <1>6

-----------------------------------------------------------------------------
\* What a session may hold.

LEMMA SessionFacts ==
    ASSUME NEW s \in Session
    PROVE  /\ s.at \in Steps /\ s.call \in Call \cup {NULL}
           /\ s.own \in SUBSET Claim /\ s.beside \in SUBSET Memory
           /\ s.todo \in SUBSET Pairs /\ s.conflicts \in SUBSET Memory
           /\ s.note \in (Pairs \X Verdict) \cup {NULL}
           /\ s.cached \in Partial(Fields)
           /\ s.moves \in Partial(Seq(Fields) \ {<< >>})
           /\ s.current \in Nat /\ s.number \in Nat
BY DEF Session

LEMMA CallMemory == \A call \in Call : call.memory \in Memory
BY CallAssumption

\* A confirm makes its memory active unless it is to reject it.
LEMMA ConfirmOutcome ==
    ASSUME NEW s, s.call \in Call, s.call.op = "confirm"
    PROVE  /\ s.call.strategy \in {NULL, "supersede", "keep_both", "reject"}
           /\ Activating(s) <=> s.call.strategy # "reject"
<1>1. s.call \in [op: {"confirm"}, memory: Memory,
                  strategy: {NULL, "supersede", "keep_both", "reject"}]
    BY CallAssumption
<1> QED
    BY <1>1 DEF Activating, Outcome

\* Only a confirm makes a memory active.
LEMMA ActiveOutcome ==
    ASSUME NEW s, s.call \in Call
    PROVE  Outcome(s.call) = "active" <=> Activating(s)
BY CallAssumption, NullAssumption DEF Activating, Outcome, MemoryStatus

LEMMA IdleIsSession == Idle \in Session
<1>1. \A T : << >> \in Partial(T)
    <2> TAKE T
    <2>1. << >> \in [DOMAIN << >> -> T] /\ DOMAIN << >> \subseteq Claim
        <3>1. DOMAIN << >> = {}
            OBVIOUS
        <3>2. << >> \in Seq(T)
            OBVIOUS
        <3> QED
            BY <3>1, <3>2
    <2> QED
        BY <2>1, PartialFacts
<1> QED
    BY <1>1 DEF Idle, Session, Steps

LEMMA IdleIsOK == ASSUME NEW d PROVE SessionOK(Idle, d)
BY IdleIsSession DEF SessionOK, Busied, Idle

-----------------------------------------------------------------------------
\* The look of a confirm, step by step.

LEMMA BegunIsOK ==
    ASSUME NEW call \in Call, NEW d
    PROVE  SessionOK([Idle EXCEPT
                !.at = IF call.op = "confirm" THEN "gather" ELSE "rows",
                !.call = call], d)
<1> DEFINE t == [Idle EXCEPT
                !.at = IF call.op = "confirm" THEN "gather" ELSE "rows",
                !.call = call]
<1>1. t \in Session
    BY IdleIsSession DEF Session, Steps
<1>2. /\ t.at = IF call.op = "confirm" THEN "gather" ELSE "rows"
      /\ t.call = call /\ t.moves = << >> /\ t.cached = << >>
    BY DEF Idle
<1> HIDE DEF t
<1>3. Copied(t)
    BY <1>2 DEF Copied, Writes, Deciding, Activating
<1>4. Ready(t, d)
    BY <1>2 DEF Ready, Writes
<1>5. OwnKept(t, d) /\ OthersCompared(t, d) /\ Asked(t)
    BY <1>2 DEF OwnKept, OthersCompared, Asked, Looked, Activating
<1>6. DisputesKept(t, d) /\ CachedOwn(t) /\ OthersCached(t, d)
    BY <1>2 DEF DisputesKept, CachedOwn, OthersCached, Writes
<1>7. SessionOK(t, d)
    BY <1>1, <1>3, <1>4, <1>5, <1>6 DEF SessionOK
<1> QED
    BY <1>7 DEF t

\* ensure_claims extracts a claim of its memory into a database.
Extracted(d, new, status) == [d EXCEPT !.claims[new] = FirstVersion(status)]

LEMMA ExtractionAdds ==
    ASSUME NEW d, Sane(d), NEW m \in Memory, NEW new \in NextClaim(d, m),
           NEW status \in {"candidate", "accepted"}
    PROVE  LET e == Extracted(d, new, status)
           IN  /\ Sane(e) /\ Grown(d, e, m)
               /\ new \in Claim /\ MemoryOf(new) = m
               /\ LiveClaims(d, m) = {} => LiveClaims(e, m) = {new}
<1> DEFINE C == [d.claims EXCEPT ![new] = FirstVersion(status)]
           e == Extracted(d, new, status)
<1>1. new \in Claim /\ MemoryOf(new) = m /\ d.claims[new] = Absent
    BY DEF NextClaim
<1>2. d \in Database /\ d.claims \in [Claim -> {Absent} \cup ClaimRow]
    BY DatabaseHolds DEF Sane, Holds
<1>3. C \in [Claim -> {Absent} \cup ClaimRow]
    BY <1>1, <1>2, FirstVersionSane
<1>4. e = [d EXCEPT !.claims = C]
    BY <1>2, DatabaseType DEF Extracted
<1>5. /\ e \in Database /\ e.claims = C /\ e.memories = d.memories
      /\ e.possible = d.possible /\ e.relations = d.relations
    BY <1>2, <1>3, <1>4, WithClaims
<1>6. \A c \in Claim : C[c] = IF c = new THEN FirstVersion(status) ELSE d.claims[c]
    BY <1>2
<1> HIDE DEF C, e
<1>7. Sane(e)
    BY <1>5, <1>6, FirstVersionSane DEF Sane
<1>8. Grown(d, e, m)
    BY <1>1, <1>5, <1>6, FirstVersionSane DEF Grown
<1>9. ASSUME LiveClaims(d, m) = {} PROVE LiveClaims(e, m) = {new}
    <2>1. FirstVersion(status).row.status \notin {"historical", "rejected"}
        BY FirstVersionSane DEF Row
    <2>2. e.claims[new] = FirstVersion(status)
        BY <1>1, <1>5, <1>6
    <2>3. new \in LiveClaims(e, m)
        BY <1>1, <2>1, <2>2, FirstVersionSane DEF LiveClaims, ClaimsOf
    <2>4. \A c \in LiveClaims(e, m) : c = new
        BY <1>5, <1>6, <1>9 DEF LiveClaims, ClaimsOf
    <2> QED
        BY <2>3, <2>4
<1> QED
    BY <1>1, <1>7, <1>8, <1>9 DEF e

\* The claims of its memory are all a confirm has gathered.
LEMMA GatheredIsOK ==
    ASSUME NEW s, NEW d, NEW e, SessionOK(s, d), s.at = "gather",
           NEW R \in SUBSET Claim, R # {}, LiveClaims(e, s.call.memory) = R
    PROVE  SessionOK([s EXCEPT !.at = "compare", !.own = R], e)
<1> DEFINE t == [s EXCEPT !.at = "compare", !.own = R]
<1>1. s \in Session /\ Copied(s)
    BY DEF SessionOK, Busied
<1>2. t \in Session
    BY <1>1 DEF Session, Steps
<1>3. /\ t.at = "compare" /\ t.own = R /\ t.call = s.call
      /\ t.cached = s.cached /\ t.moves = s.moves
    BY <1>1 DEF Session
<1> HIDE DEF t
<1>4. Copied(t)
    BY <1>1, <1>3 DEF Copied, Writes, Deciding, Activating
<1>5. OwnKept(t, e)
    BY <1>3 DEF OwnKept, LiveClaims, ClaimsOf
<1>6. Ready(t, e) /\ OthersCompared(t, e) /\ Asked(t)
    BY <1>3 DEF Ready, Writes, OthersCompared, Asked, Looked
<1>7. DisputesKept(t, e) /\ CachedOwn(t) /\ OthersCached(t, e)
    BY <1>3 DEF DisputesKept, CachedOwn, OthersCached, Writes
<1>8. SessionOK(t, e)
    BY <1>2, <1>4, <1>5, <1>6, <1>7 DEF SessionOK
<1> QED
    BY <1>8 DEF t

LEMMA PairSet ==
    ASSUME NEW A, NEW B, NEW a \in A, NEW b \in B
    PROVE  {a, b} \in {{x, y} : x \in A, y \in B}
OBVIOUS

\* What Compare makes of a session.
Rivals(s, d) == InForce(d, Active(d, s.call.memory))

ComparedWith(s, d) ==
    [s EXCEPT !.at = "judge", !.beside = @ \cap {s.call.memory},
              !.conflicts = {k \in {MemoryOf(e) : e \in Rivals(s, d)} :
                                {s.call.memory, k} \in Rival},
              !.todo = {{c, e} : c \in s.own,
                          e \in {x \in Rivals(s, d) : {s.call.memory, MemoryOf(x)} \in Unsure}}]

LEMMA ComparedIsOK ==
    ASSUME NEW s, NEW d, SessionOK(s, d), s.at = "compare"
    PROVE  SessionOK(ComparedWith(s, d), d)
<1> DEFINE t == ComparedWith(s, d)
           m == s.call.memory
           K == {k \in {MemoryOf(e) : e \in Rivals(s, d)} : {m, k} \in Rival}
           U == {x \in Rivals(s, d) : {m, MemoryOf(x)} \in Unsure}
           T == {{c, e} : c \in s.own, e \in U}
<1>1. s \in Session /\ Copied(s) /\ OwnKept(s, d)
    BY DEF SessionOK, Busied
<1>2. \A c \in s.own : c \in Claim /\ MemoryOf(c) = m
    BY <1>1, SessionFacts DEF OwnKept, Copied, Deciding
<1>3. \A x \in Rivals(s, d) : x \in Claim
    BY DEF Rivals, InForce
<1>4. K \in SUBSET Memory
    BY <1>3, ClaimMemory
<1>5. T \in SUBSET Pairs
    <2>1. ASSUME NEW c \in s.own, NEW x \in Rivals(s, d),
                 {m, MemoryOf(x)} \in Unsure
          PROVE  {c, x} \in Pairs
        <3>1. {MemoryOf(y) : y \in {c, x}} = {m, MemoryOf(x)}
            BY <1>2
        <3> QED
            BY <1>2, <1>3, <2>1, <3>1 DEF Pairs
    <2>2. ASSUME NEW pair \in T PROVE pair \in Pairs
        <3>1. PICK c \in s.own,
                   x \in U :
                   pair = {c, x}
            OBVIOUS
        <3> QED
            BY <2>1, <3>1
    <2> QED
        BY <2>2
<1>6. s.beside \cap {m} \in SUBSET Memory
    BY <1>1, SessionFacts
<1> HIDE DEF K, T
<1>7. t = [s EXCEPT !.at = "judge", !.beside = s.beside \cap {m},
                    !.conflicts = K, !.todo = T]
    BY <1>1 DEF ComparedWith, K, T, Session
<1>8. t \in Session
    BY <1>1, <1>4, <1>5, <1>6, <1>7 DEF Session, Steps
<1>9. /\ t.at = "judge" /\ t.beside = s.beside \cap {m}
      /\ t.conflicts = K /\ t.todo = T
      /\ t.call = s.call /\ t.own = s.own
      /\ t.cached = s.cached /\ t.moves = s.moves
    BY <1>1, <1>7 DEF Session
<1> HIDE DEF t
<1>16. \A pair \in T : \E c \in pair : MemoryOf(c) = m
    <2> SUFFICES ASSUME NEW pair \in T PROVE \E c \in pair : MemoryOf(c) = m
        OBVIOUS
    <2>1. PICK c \in s.own, x \in U : pair = {c, x}
        BY DEF T
    <2>2. c \in pair /\ MemoryOf(c) = m
        BY <1>2, <2>1
    <2> QED
        BY <2>2
<1>10. Copied(t)
    BY <1>1, <1>9, <1>16 DEF Copied, Writes, Deciding, Activating
<1>11. OwnKept(t, d)
    BY <1>1, <1>9 DEF OwnKept, Activating
<1>12. OthersCompared(t, d)
    <2> SUFFICES ASSUME NEW c \in s.own, NEW x \in Against(t, d)
                 PROVE  Compared(t, d, c, x)
        BY <1>9 DEF OthersCompared
    <2>1. x \in Rivals(s, d)
        BY <1>9 DEF Against, Rivals
    <2>2. MemoryOf(c) = m
        BY <1>2
    <2>3. {m, MemoryOf(x)} \in Rival => MemoryOf(x) \in K
        BY <2>1 DEF K
    <2>4. {m, MemoryOf(x)} \in Unsure => {c, x} \in T
        <3>1. ASSUME {m, MemoryOf(x)} \in Unsure PROVE {c, x} \in T
            <4> DEFINE A == s.own
            <4>1. c \in A /\ x \in U
                BY <2>1, <3>1
            <4> HIDE DEF A, U
            <4>2. {c, x} \in {{a, b} : a \in A, b \in U}
                BY <4>1, PairSet
            <4> QED
                BY <4>2 DEF T, A
        <3> QED
            BY <3>1
    <2> QED
        BY <1>9, <2>2, <2>3, <2>4 DEF Compared
<1>13. Ready(t, d) /\ Asked(t)
    BY <1>9 DEF Ready, Writes, Asked, Looked
<1>14. DisputesKept(t, d) /\ CachedOwn(t) /\ OthersCached(t, d)
    BY <1>9 DEF DisputesKept, CachedOwn, OthersCached, Writes
<1>15. SessionOK(t, d)
    BY <1>8, <1>10, <1>11, <1>12, <1>13, <1>14 DEF SessionOK
<1> QED
    BY <1>15 DEF t

LEMMA PairFacts ==
    ASSUME NEW pair \in Pairs
    PROVE  /\ \A c \in pair : c \in Claim
           /\ {MemoryOf(c) : c \in pair} \in Unsure
<1>1. pair \in {{a, b} : a, b \in Claim} /\ {MemoryOf(c) : c \in pair} \in Unsure
    BY DEF Pairs
<1>2. PICK a \in Claim, b \in Claim : pair = {a, b}
    BY <1>1
<1> QED
    BY <1>1, <1>2

\* What an answer makes of a session.
OtherOf(s, pair) == {MemoryOf(c) : c \in pair} \ {s.call.memory}

AnswerTo(s, pair, verdict) ==
    [s EXCEPT !.at = "judge", !.note = NULL, !.todo = @ \ {pair},
              !.conflicts = IF verdict = "confirmed" THEN @ \cup OtherOf(s, pair) ELSE @]

\* A database with more answers.
MoreAnswers(d, e) ==
    /\ e.memories = d.memories /\ e.claims = d.claims
    /\ \A pair \in DOMAIN d.possible :
          pair \in DOMAIN e.possible /\ e.possible[pair] = d.possible[pair]

\* Once the answer is stored, the pair no longer has to be asked about.
LEMMA AnsweredIsOK ==
    ASSUME NEW s, NEW d, NEW e, SessionOK(s, d), s.at \in {"judge", "note"},
           NEW pair \in s.todo, NEW verdict, MoreAnswers(d, e),
           pair \in DOMAIN e.possible, e.possible[pair] = verdict
    PROVE  SessionOK(AnswerTo(s, pair, verdict), e)
<1> DEFINE m == s.call.memory
           K == IF verdict = "confirmed" THEN s.conflicts \cup OtherOf(s, pair)
                ELSE s.conflicts
           T == s.todo \ {pair}
           t == AnswerTo(s, pair, verdict)
<1>1. s \in Session /\ Copied(s) /\ OwnKept(s, d) /\ OthersCompared(s, d)
    BY DEF SessionOK, Busied
<1>2. s.todo \subseteq Pairs /\ s.conflicts \subseteq Memory
    BY <1>1, SessionFacts
<1>3. \A c \in pair : c \in Claim
    <2>1. pair \in Pairs
        BY <1>2
    <2> QED
        BY <2>1, PairFacts
<1>4. K \in SUBSET Memory /\ T \in SUBSET Pairs
    BY <1>2, <1>3, ClaimMemory DEF OtherOf
<1>5. t = [s EXCEPT !.at = "judge", !.note = NULL, !.todo = T, !.conflicts = K]
    BY <1>1 DEF AnswerTo, Session
<1>15. T \subseteq s.todo
    OBVIOUS
<1> HIDE DEF K, T
<1>6. t \in Session
    BY <1>1, <1>4, <1>5 DEF Session, Steps
<1>7. /\ t.at = "judge" /\ t.todo = T /\ t.conflicts = K
      /\ t.call = s.call /\ t.own = s.own /\ t.beside = s.beside
      /\ t.cached = s.cached /\ t.moves = s.moves
    BY <1>1, <1>5 DEF Session
<1> HIDE DEF t
<1>8. Copied(t)
    BY <1>1, <1>7, <1>15 DEF Copied, Writes, Deciding, Activating
<1>9. OwnKept(t, e)
    BY <1>1, <1>7 DEF OwnKept, Activating, LiveClaims, ClaimsOf, MoreAnswers
<1>10. Against(t, e) = Against(s, d)
    BY <1>7 DEF Against, InForce, Active, MoreAnswers
<1>11. OthersCompared(t, e)
    <2> SUFFICES ASSUME Activating(s), NEW c \in s.own, NEW x \in Against(s, d)
                 PROVE  Compared(t, e, c, x)
        BY <1>7, <1>10 DEF OthersCompared, Looked, Activating
    <2>1. Compared(s, d, c, x)
        BY <1>1 DEF OthersCompared, Looked
    <2>2. MemoryOf(c) = m /\ MemoryOf(x) # m
        BY <1>1 DEF OwnKept, Copied, Deciding, Against, InForce, Active
    <2>3. s.conflicts \subseteq K
        BY DEF K
    <2>4. ASSUME {c, x} \in DOMAIN d.possible,
                 d.possible[{c, x}] = "confirmed" => MemoryOf(x) \in s.conflicts
          PROVE  /\ {c, x} \in DOMAIN e.possible
                 /\ e.possible[{c, x}] = "confirmed" => MemoryOf(x) \in K
        BY <2>3, <2>4 DEF MoreAnswers
    <2>5. ASSUME {c, x} = pair
          PROVE  /\ {c, x} \in DOMAIN e.possible
                 /\ e.possible[{c, x}] = "confirmed" => MemoryOf(x) \in K
        <3>1. MemoryOf(x) \in OtherOf(s, pair)
            BY <2>2, <2>5 DEF OtherOf
        <3> QED
            BY <2>5, <3>1 DEF K
    <2>6. {c, x} \in s.todo => {c, x} \in T \/ {c, x} = pair
        BY DEF T
    <2> QED
        BY <1>7, <2>1, <2>3, <2>4, <2>5, <2>6 DEF Compared
<1>12. Ready(t, e) /\ Asked(t)
    BY <1>7 DEF Ready, Writes, Asked
<1>13. DisputesKept(t, e) /\ CachedOwn(t) /\ OthersCached(t, e)
    BY <1>7 DEF DisputesKept, CachedOwn, OthersCached, Writes
<1>14. SessionOK(t, e)
    BY <1>6, <1>8, <1>9, <1>11, <1>12, <1>13 DEF SessionOK
<1> QED
    BY <1>14 DEF t

\* A pair no row answers for goes to the judge.
LEMMA AskedIsOK ==
    ASSUME NEW s, NEW d, SessionOK(s, d), s.at = "judge",
           NEW pair \in s.todo, NEW verdict \in Verdict
    PROVE  SessionOK([s EXCEPT !.at = "note", !.note = <<pair, verdict>>], d)
<1> DEFINE t == [s EXCEPT !.at = "note", !.note = <<pair, verdict>>]
<1>1. /\ s \in Session /\ Copied(s) /\ OwnKept(s, d) /\ OthersCompared(s, d)
      /\ pair \in Pairs
    BY SessionFacts DEF SessionOK, Busied
<1>2. <<pair, verdict>> \in (Pairs \X Verdict) \cup {NULL}
    BY <1>1
<1>3. t \in Session
    BY <1>1, <1>2 DEF Session, Steps
<1>4. /\ t.at = "note" /\ t.note = <<pair, verdict>>
      /\ t.todo = s.todo /\ t.conflicts = s.conflicts
      /\ t.call = s.call /\ t.own = s.own /\ t.beside = s.beside
      /\ t.cached = s.cached /\ t.moves = s.moves
    BY <1>1 DEF Session
<1> HIDE DEF t
<1>5. Copied(t)
    BY <1>1, <1>4 DEF Copied, Writes, Deciding, Activating
<1>6. OwnKept(t, d)
    BY <1>1, <1>4 DEF OwnKept, Activating
<1>7. OthersCompared(t, d)
    BY <1>1, <1>4 DEF OthersCompared, Looked, Activating, Against, Compared
<1>8. Ready(t, d) /\ Asked(t)
    BY <1>4 DEF Ready, Writes, Asked
<1>9. DisputesKept(t, d) /\ CachedOwn(t) /\ OthersCached(t, d)
    BY <1>4 DEF DisputesKept, CachedOwn, OthersCached, Writes
<1>10. SessionOK(t, d)
    BY <1>3, <1>5, <1>6, <1>7, <1>8, <1>9 DEF SessionOK
<1> QED
    BY <1>10 DEF t

\* When every pair has its answer the call goes on.
LEMMA DecidedIsOK ==
    ASSUME NEW s, NEW d, SessionOK(s, d), s.at = "judge", s.todo = {}
    PROVE  SessionOK([s EXCEPT !.at =
               IF s.call.strategy = "reject" THEN "rows" ELSE "own"], d)
<1> DEFINE next == IF s.call.strategy = "reject" THEN "rows" ELSE "own"
           t == [s EXCEPT !.at = next]
<1>1. s \in Session /\ Copied(s) /\ OwnKept(s, d) /\ OthersCompared(s, d)
    BY DEF SessionOK, Busied
<1>2. s.call \in Call /\ s.call.op = "confirm"
    BY <1>1 DEF Copied, Deciding
<1>3. /\ next \in {"rows", "own"}
      /\ next = "own" <=> Activating(s)
    BY <1>2, ConfirmOutcome
<1> HIDE DEF next
<1>4. t \in Session
    BY <1>1, <1>3 DEF Session, Steps
<1>5. /\ t.at = next
      /\ t.todo = s.todo /\ t.conflicts = s.conflicts
      /\ t.call = s.call /\ t.own = s.own /\ t.beside = s.beside
      /\ t.cached = s.cached /\ t.moves = s.moves
    BY <1>1 DEF Session
<1> HIDE DEF t
<1>6. Copied(t)
    BY <1>1, <1>3, <1>5 DEF Copied, Writes, Deciding, Activating
<1>7. OwnKept(t, d)
    BY <1>1, <1>5 DEF OwnKept, Activating
<1>8. OthersCompared(t, d)
    BY <1>1, <1>5 DEF OthersCompared, Looked, Activating, Against, Compared
<1>9. Ready(t, d) /\ Asked(t)
    BY <1>3, <1>5 DEF Ready, Writes, Asked
<1>10. DisputesKept(t, d) /\ CachedOwn(t) /\ OthersCached(t, d)
    BY <1>3, <1>5 DEF DisputesKept, CachedOwn, OthersCached, Writes
<1>11. SessionOK(t, d)
    BY <1>4, <1>6, <1>7, <1>8, <1>9, <1>10 DEF SessionOK
<1> QED
    BY <1>11 DEF t, next

\* The claims of a memory change by an extraction; the others do not.
LEMMA ExtractionLeavesOthers ==
    ASSUME NEW s, NEW d, NEW e, Grown(d, e, s.call.memory)
    PROVE  Against(s, e) = Against(s, d)
<1>1. Active(e, s.call.memory) = Active(d, s.call.memory)
    BY DEF Grown, Active
<1>2. \A c \in Claim : MemoryOf(c) # s.call.memory => e.claims[c] = d.claims[c]
    BY DEF Grown
<1>3. s.call.memory \notin Active(d, s.call.memory)
    BY DEF Active
<1> QED
    BY <1>1, <1>2, <1>3 DEF Against, InForce

\* The claims to accept are those gathered, unless others changed them.
LEMMA OwnedIsOK ==
    ASSUME NEW s, NEW d, NEW e, SessionOK(s, d), s.at = "own",
           NEW rows \in Partial(Fields), DOMAIN rows # {},
           LiveClaims(e, s.call.memory) = DOMAIN rows,
           Grown(d, e, s.call.memory),
           e = d \/ LiveClaims(d, s.call.memory) = {}
    PROVE  SessionOK([s EXCEPT !.at = "others", !.cached = rows], e)
<1> DEFINE m == s.call.memory
           t == [s EXCEPT !.at = "others", !.cached = rows]
<1>1. /\ s \in Session /\ Copied(s) /\ OwnKept(s, d) /\ OthersCompared(s, d)
      /\ Asked(s) /\ Activating(s)
    BY DEF SessionOK, Busied, Copied
<1>2. t \in Session
    BY <1>1 DEF Session, Steps
<1>3. /\ t.at = "others" /\ t.cached = rows
      /\ t.todo = s.todo /\ t.conflicts = s.conflicts
      /\ t.call = s.call /\ t.own = s.own /\ t.beside = s.beside
      /\ t.moves = s.moves
    BY <1>1 DEF Session
<1> HIDE DEF t
<1>4. m \notin s.beside => e = d /\ DOMAIN rows = s.own
    BY <1>1 DEF OwnKept, Activating
<1>5. Copied(t)
    BY <1>1, <1>3 DEF Copied, Writes, Deciding, Activating
<1>6. OwnKept(t, e)
    BY <1>1, <1>3, <1>4 DEF OwnKept, Activating
<1>7. OthersCompared(t, e)
    <2>0. Against(t, e) = Against(s, d)
        BY <1>3, ExtractionLeavesOthers DEF Against
    <2> SUFFICES ASSUME NEW c \in s.own, NEW x \in Against(s, d)
                 PROVE  Compared(t, e, c, x)
        BY <1>3, <2>0 DEF OthersCompared
    <2>1. Compared(s, d, c, x)
        BY <1>1 DEF OthersCompared, Looked
    <2> QED
        BY <1>3, <2>1 DEF Compared, Grown
<1>8. Ready(t, e) /\ Asked(t)
    BY <1>1, <1>3 DEF Ready, Writes, Asked, Looked, Activating
<1>9. DisputesKept(t, e) /\ CachedOwn(t)
    BY <1>3, <1>4 DEF DisputesKept, CachedOwn, Writes
<1>10. OthersCached(t, e)
    BY <1>3 DEF OthersCached, LiveClaims, ClaimsOf
<1>11. SessionOK(t, e)
    BY <1>2, <1>5, <1>6, <1>7, <1>8, <1>9, <1>10 DEF SessionOK
<1> QED
    BY <1>11 DEF t

-----------------------------------------------------------------------------
\* What a call is to write.

\* The paths of the claims, as far as the invariant speaks of them.
PathOK(s, c, path) ==
    /\ path \in Seq(Fields)
    /\ path # << >> /\ Last(path).status = "accepted" =>
          Activating(s) /\ MemoryOf(c) = s.call.memory

LEMMA PlannedFacts ==
    ASSUME NEW s \in Session, NEW path, DOMAIN path \subseteq DOMAIN s.cached,
           \A c \in DOMAIN path : path[c] \in Seq(Fields)
    PROVE  LET t == Planned(s, path)
           IN  /\ t \in Session
               /\ DOMAIN t.moves = {c \in DOMAIN path : path[c] # << >>}
               /\ \A c \in DOMAIN t.moves : t.moves[c] = path[c]
               /\ t.at = IF DOMAIN t.moves = {} THEN "write" ELSE "current"
               /\ t.todo = s.todo /\ t.conflicts = s.conflicts
               /\ t.call = s.call /\ t.own = s.own /\ t.beside = s.beside
               /\ t.cached = s.cached
<1> DEFINE moving == {c \in DOMAIN path : path[c] # << >>}
           moves == [c \in moving |-> path[c]]
           at == IF moving = {} THEN "write" ELSE "current"
           t == Planned(s, path)
<1>1. DOMAIN s.cached \subseteq Claim
    BY SessionFacts, PartialFacts
<1>2. moves \in Partial(Seq(Fields) \ {<< >>})
    <2>1. moves \in [moving -> Seq(Fields) \ {<< >>}] /\ moving \subseteq Claim
        BY <1>1
    <2>2. DOMAIN moves = moving
        OBVIOUS
    <2> HIDE DEF moves, moving
    <2> QED
        BY <2>1, <2>2, PartialFacts
<1>3. /\ DOMAIN moves = {c \in DOMAIN path : path[c] # << >>}
      /\ \A c \in DOMAIN moves : moves[c] = path[c]
    OBVIOUS
<1>4. at \in Steps /\ at = IF DOMAIN moves = {} THEN "write" ELSE "current"
    BY DEF Steps
<1>5. t = [s EXCEPT !.at = at, !.moves = moves]
    BY DEF Planned
<1> HIDE DEF moves, moving, at
<1>6. t \in Session
    BY <1>2, <1>4, <1>5 DEF Session
<1>7. /\ t.at = at /\ t.moves = moves
      /\ t.todo = s.todo /\ t.conflicts = s.conflicts
      /\ t.call = s.call /\ t.own = s.own /\ t.beside = s.beside
      /\ t.cached = s.cached
    BY <1>5 DEF Session
<1> QED
    BY <1>3, <1>4, <1>6, <1>7 DEF t

\* A call with well-formed paths and nothing in dispute is ready to write.
LEMMA PlannedIsOK ==
    ASSUME NEW s, NEW d, NEW path, s \in Session, s.call \in Call,
           DOMAIN path \subseteq DOMAIN s.cached,
           \A c \in DOMAIN path : d.claims[c] # Absent /\ PathOK(s, c, path[c]),
           OwnKept(s, d), OthersCompared(s, d), Asked(s),
           s.at \notin {"idle", "gather", "compare", "judge", "note"},
           Activating(s) /\ s.call.memory \notin s.beside =>
               /\ \A c \in DOMAIN s.cached : MemoryOf(c) = s.call.memory => c \in s.own
               /\ s.call.strategy # "supersede" =>
                     \A c \in s.own, e \in Against(s, d) : Conflicting(d, c, e) =>
                        /\ c \in DOMAIN path /\ path[c] # << >>
                        /\ Last(path[c]).status = "contested"
                        /\ \E i \in DOMAIN path[c] :
                              path[c][i].status # s.cached[c].status
    PROVE  SessionOK(Planned(s, path), d)
<1> DEFINE t == Planned(s, path)
<1>1. \A c \in DOMAIN path : path[c] \in Seq(Fields)
    BY DEF PathOK
<1>2. /\ t \in Session
      /\ DOMAIN t.moves = {c \in DOMAIN path : path[c] # << >>}
      /\ \A c \in DOMAIN t.moves : t.moves[c] = path[c]
      /\ t.at = IF DOMAIN t.moves = {} THEN "write" ELSE "current"
      /\ t.todo = s.todo /\ t.conflicts = s.conflicts
      /\ t.call = s.call /\ t.own = s.own /\ t.beside = s.beside
      /\ t.cached = s.cached
    BY <1>1, PlannedFacts
<1> HIDE DEF t
<1>3. Copied(t)
    BY <1>2 DEF Copied, Writes, Deciding
<1>4. Ready(t, d)
    <2>1. t.at # "write" => DOMAIN t.moves # {}
        BY <1>2
    <2>2. ~(t.at = "write" /\ DOMAIN t.moves # {})
        BY <1>2
    <2>3. ASSUME NEW c \in DOMAIN t.moves
          PROVE  /\ d.claims[c] # Absent
                 /\ Last(t.moves[c]).status = "accepted" =>
                       Activating(t) /\ MemoryOf(c) = t.call.memory
        BY <1>2 DEF PathOK, Activating
    <2> QED
        BY <2>1, <2>2, <2>3 DEF Ready
<1>5. OwnKept(t, d)
    BY <1>2 DEF OwnKept, Activating
<1>6. OthersCompared(t, d) /\ Asked(t)
    BY <1>2 DEF OthersCompared, Asked, Looked, Activating, Against, Compared
<1>7. DisputesKept(t, d)
    <2> SUFFICES ASSUME Activating(s), s.call.memory \notin s.beside
                 PROVE  /\ \A c \in DOMAIN s.cached : MemoryOf(c) = s.call.memory => c \in s.own
                        /\ s.call.strategy # "supersede" =>
                              \A c \in s.own, e \in Against(t, d) :
                                  Conflicting(d, c, e) => Contested(t, c)
        BY <1>2 DEF DisputesKept, Activating
    <2>1. Against(t, d) = Against(s, d)
        BY <1>2 DEF Against
    <2> QED
        BY <1>2, <2>1 DEF Contested
<1>8. CachedOwn(t) /\ OthersCached(t, d)
    BY <1>2 DEF CachedOwn, OthersCached
<1>9. SessionOK(t, d)
    BY <1>2, <1>3, <1>4, <1>5, <1>6, <1>7, <1>8 DEF SessionOK
<1> QED
    BY <1>9 DEF t

\* The values an activation gives a claim.
LEMMA PathFacts ==
    ASSUME NEW s, NEW c, NEW disputes, s.cached[c] \in Fields, Activating(s)
    PROVE  LET path == Path(s, c, disputes)
           IN  /\ PathOK(s, c, path)
               /\ /\ MemoryOf(c) = s.call.memory /\ s.call.strategy # "supersede"
                  /\ \E pair \in disputes : c \in {pair[1], pair[2]}
                  => /\ path # << >> /\ Last(path).status = "contested"
                     /\ \E i \in DOMAIN path : path[i].status # s.cached[c].status
<1> DEFINE row      == s.cached[c]
           accepted == [row EXCEPT !.status = "accepted"]
           contested == [row EXCEPT !.status = "contested"]
           superseded == [row EXCEPT !.status = "superseded"]
           disputed == \E pair \in disputes : c \in {pair[1], pair[2]}
           path == Path(s, c, disputes)
           first == IF row = accepted THEN << >> ELSE << accepted >>
           second == IF disputed /\ s.call.strategy # "supersede"
                     THEN << contested >> ELSE << >>
<1>1. /\ accepted \in Fields /\ accepted.status = "accepted"
      /\ contested \in Fields /\ contested.status = "contested"
      /\ superseded \in Fields /\ superseded.status = "superseded"
    BY DEF Fields, ClaimStatus
<1>2. path = IF MemoryOf(c) = s.call.memory THEN first \o second
             ELSE IF ~disputed THEN << >>
             ELSE IF s.call.strategy = "supersede" THEN << superseded >>
             ELSE IF row = contested THEN << >> ELSE << contested >>
    BY DEF Path
<1> HIDE DEF accepted, contested, superseded, path, row, disputed
<1>3. CASE MemoryOf(c) = s.call.memory /\ disputed /\ s.call.strategy # "supersede"
    <2>1. second = << contested >>
        BY <1>3
    <2> HIDE DEF second
    <2>2. CASE row = accepted
        <3>1. path = << contested >>
            BY <1>2, <1>3, <2>1, <2>2
        <3>2. Last(path) = contested /\ path[1] = contested /\ 1 \in DOMAIN path
            BY <3>1 DEF Last
        <3>3. path[1].status # row.status
            BY <1>1, <2>2, <3>2
        <3>4. path \in Seq(Fields) /\ path # << >>
            BY <1>1, <3>1
        <3> QED
            BY <1>1, <1>3, <3>2, <3>3, <3>4 DEF PathOK, path, row, disputed
    <2>3. CASE row # accepted
        <3>1. path = << accepted >> \o << contested >>
            <4>1. first = << accepted >>
                BY <2>3
            <4> HIDE DEF first
            <4> QED
                BY <1>2, <1>3, <2>1, <4>1
        <3>2. /\ Last(path) = contested /\ path[1] = accepted /\ path[2] = contested
              /\ 1 \in DOMAIN path /\ 2 \in DOMAIN path
              /\ path \in Seq(Fields) /\ path # << >>
            <4>1. << accepted >> \in Seq(Fields) /\ << contested >> \in Seq(Fields)
                BY <1>1
            <4>2. path \in Seq(Fields) /\ Len(path) = 2
                BY <3>1, <4>1
            <4>3. path[1] = accepted /\ path[2] = contested
                BY <3>1
            <4>4. Last(path) = path[2]
                BY <4>2 DEF Last
            <4>5. DOMAIN path = 1 .. 2
                BY <4>2
            <4>6. path # << >>
                <5>1. DOMAIN << >> = {} /\ 1 \in DOMAIN path
                    BY <4>5
                <5> QED
                    BY <5>1
            <4> QED
                BY <4>2, <4>3, <4>4, <4>5, <4>6
        <3>3. path[1].status # row.status \/ path[2].status # row.status
            BY <1>1, <3>2
        <3> QED
            BY <1>1, <1>3, <3>2, <3>3 DEF PathOK, path, row, disputed
    <2> QED
        BY <2>2, <2>3
<1>4. CASE MemoryOf(c) = s.call.memory /\ ~(disputed /\ s.call.strategy # "supersede")
    <2>1. second = << >>
        BY <1>4
    <2> HIDE DEF second
    <2>2. path = << >> \/ path = << accepted >>
        BY <1>2, <1>4, <2>1
    <2>3. path \in Seq(Fields)
        <3>1. << >> \in Seq(Fields) /\ << accepted >> \in Seq(Fields)
            BY <1>1
        <3> QED
            BY <2>2, <3>1
    <2> QED
        BY <1>4, <2>3 DEF PathOK, path, disputed
<1>5. CASE MemoryOf(c) # s.call.memory
    <2>1. path \in {<< >>, << superseded >>, << contested >>}
        BY <1>2, <1>5
    <2>2. path \in Seq(Fields)
        <3>1. /\ << >> \in Seq(Fields) /\ << superseded >> \in Seq(Fields)
              /\ << contested >> \in Seq(Fields)
            BY <1>1
        <3> QED
            BY <2>1, <3>1
    <2>3. path # << >> => Last(path).status # "accepted"
        BY <1>1, <2>1 DEF Last
    <2> QED
        BY <1>5, <2>2, <2>3 DEF PathOK, path
<1> QED
    BY <1>3, <1>4, <1>5

\* A conflict that the verdicts know of is among the conflicts of the call.
LEMMA ConflictIsKnown ==
    ASSUME NEW s, NEW d \in Database, NEW c, NEW e, Compared(s, d, c, e),
           s.todo = {}, Conflicting(d, c, e)
    PROVE  MemoryOf(e) \in s.conflicts
<1>1. CASE {MemoryOf(c), MemoryOf(e)} \in Rival
    BY <1>1 DEF Compared
<1>2. CASE {c, e} \in DOMAIN d.possible /\ d.possible[{c, e}] = "confirmed"
    <2>1. {c, e} \in Pairs
        BY <1>2, DatabaseHolds DEF Holds
    <2>2. {MemoryOf(x) : x \in {c, e}} = {MemoryOf(c), MemoryOf(e)}
        OBVIOUS
    <2>3. {MemoryOf(c), MemoryOf(e)} \in Unsure
        BY <2>1, <2>2, PairFacts
    <2> QED
        BY <1>2, <2>3 DEF Compared
<1> QED
    BY <1>1, <1>2 DEF Conflicting

\* What an activation loads of its conflicts and decides about every claim.
OthersSession(s, d) ==
    [s EXCEPT !.cached = [c \in DOMAIN s.cached \cup InForce(d, s.conflicts) |->
                             IF c \in DOMAIN s.cached THEN @[c] ELSE d.claims[c].row]]

Disputes(s, d) ==
    {pair \in (DOMAIN s.cached) \X InForce(d, s.conflicts) : Conflicting(d, pair[1], pair[2])}

OthersPaths(s, d) ==
    [c \in DOMAIN s.cached \cup InForce(d, s.conflicts) |->
        Path(OthersSession(s, d), c, Disputes(s, d))]

LEMMA DisputeFound ==
    ASSUME NEW s, NEW d, NEW c \in DOMAIN s.cached, NEW e \in InForce(d, s.conflicts),
           Conflicting(d, c, e)
    PROVE  <<c, e>> \in Disputes(s, d)
<1>1. ASSUME NEW pair, pair = <<c, e>> PROVE pair \in Disputes(s, d)
    <2>1. pair \in (DOMAIN s.cached) \X InForce(d, s.conflicts)
        <3> DEFINE A == DOMAIN s.cached
                   B == InForce(d, s.conflicts)
        <3>1. c \in A /\ e \in B
            OBVIOUS
        <3> HIDE DEF A, B
        <3>2. pair \in A \X B
            BY <1>1, <3>1
        <3> QED
            BY <3>2 DEF A, B
    <2>2. pair[1] = c /\ pair[2] = e
        BY <1>1
    <2>3. Conflicting(d, pair[1], pair[2])
        BY <2>2
    <2> QED
        BY <2>1, <2>3 DEF Disputes
<1> QED
    BY <1>1

LEMMA PlannedActivationIsOK ==
    ASSUME NEW s, NEW d, Sane(d), SessionOK(s, d), s.at = "others"
    PROVE  SessionOK(Planned(OthersSession(s, d), OthersPaths(s, d)), d)
<1> DEFINE m == s.call.memory
           own == DOMAIN s.cached
           against == InForce(d, s.conflicts)
           rows == [c \in own \cup against |->
                       IF c \in own THEN s.cached[c] ELSE d.claims[c].row]
           t == OthersSession(s, d)
           path == OthersPaths(s, d)
<1>1. /\ s \in Session /\ Copied(s) /\ OwnKept(s, d) /\ OthersCompared(s, d)
      /\ Asked(s) /\ Activating(s) /\ CachedOwn(s) /\ OthersCached(s, d)
      /\ s.call \in Call /\ d \in Database
    BY DEF SessionOK, Busied, Copied, Sane
<1>2. own \subseteq Claim /\ \A c \in own : s.cached[c] \in Fields
    BY <1>1, SessionFacts, PartialFacts
<1>3. \A c \in against : /\ c \in Claim /\ d.claims[c] # Absent
                         /\ d.claims[c].row \in Fields
    <2> SUFFICES ASSUME NEW c \in against
                 PROVE  c \in Claim /\ d.claims[c] # Absent /\ d.claims[c].row \in Fields
        OBVIOUS
    <2>1. c \in Claim /\ d.claims[c].row.status \in {"accepted", "contested"}
        BY DEF InForce
    <2>2. d.claims[c] # Absent
        BY <2>1 DEF Absent, Row
    <2> QED
        BY <1>1, <2>1, <2>2, ClaimHolds
<1> HIDE DEF own, against
<1>4. rows \in Partial(Fields) /\ DOMAIN rows = own \cup against
    <2>1. rows \in [own \cup against -> Fields] /\ own \cup against \subseteq Claim
        BY <1>2, <1>3 DEF own
    <2>2. DOMAIN rows = own \cup against
        OBVIOUS
    <2> HIDE DEF rows
    <2> QED
        BY <2>1, <2>2, PartialFacts
<1>5. t = [s EXCEPT !.cached = rows]
    BY <1>1 DEF OthersSession, own, against, Session
<1>6. \A c \in own \cup against : rows[c] \in Fields
    BY <1>2, <1>3 DEF own
<1>7. \A c \in own : rows[c] = s.cached[c]
    BY DEF own
<1> HIDE DEF rows
<1>8. t \in Session
    BY <1>1, <1>4, <1>5 DEF Session
<1>9. /\ t.at = "others" /\ t.cached = rows
      /\ t.todo = s.todo /\ t.conflicts = s.conflicts
      /\ t.call = s.call /\ t.own = s.own /\ t.beside = s.beside
    BY <1>1, <1>5 DEF Session
<1>10. /\ DOMAIN path = own \cup against
       /\ \A c \in own \cup against : path[c] = Path(t, c, Disputes(s, d))
    BY DEF OthersPaths, own, against
<1> HIDE DEF t, path
<1>11. Activating(t)
    BY <1>1, <1>9 DEF Activating
<1>12. \A c \in DOMAIN path : d.claims[c] # Absent /\ PathOK(t, c, path[c])
    <2> SUFFICES ASSUME NEW c \in own \cup against
                 PROVE  d.claims[c] # Absent /\ PathOK(t, c, path[c])
        BY <1>10
    <2>1. d.claims[c] # Absent
        BY <1>1, <1>3 DEF OthersCached, own
    <2>2. t.cached[c] \in Fields
        BY <1>6, <1>9
    <2>3. PathOK(t, c, Path(t, c, Disputes(s, d)))
        BY <1>11, <2>2, PathFacts
    <2> QED
        BY <1>10, <2>1, <2>3
<1>13. OwnKept(t, d) /\ Asked(t)
    BY <1>1, <1>9 DEF OwnKept, Asked, Looked, Activating
<1>14. Against(t, d) = Against(s, d)
    BY <1>9 DEF Against
<1>15. OthersCompared(t, d)
    BY <1>1, <1>9, <1>14 DEF OthersCompared, Looked, Activating, Compared
<1>16. ASSUME m \notin s.beside
       PROVE  /\ own = s.own
              /\ \A c \in own \cup against : MemoryOf(c) = m => c \in s.own
    <2>1. own = s.own /\ LiveClaims(d, m) = s.own
        BY <1>1, <1>16 DEF CachedOwn, OwnKept, Activating, own
    <2>2. ASSUME NEW c \in against, MemoryOf(c) = m PROVE c \in LiveClaims(d, m)
        BY <1>3, <2>2 DEF LiveClaims, ClaimsOf, against, InForce
    <2> QED
        BY <2>1, <2>2
<1>17. ASSUME m \notin s.beside, s.call.strategy # "supersede",
              NEW c \in s.own, NEW e \in Against(s, d), Conflicting(d, c, e)
       PROVE  /\ c \in DOMAIN path /\ path[c] # << >>
              /\ Last(path[c]).status = "contested"
              /\ \E i \in DOMAIN path[c] : path[c][i].status # t.cached[c].status
    <2>1. Compared(s, d, c, e) /\ s.todo = {}
        BY <1>1 DEF OthersCompared, Looked, Asked
    <2>2. MemoryOf(e) \in s.conflicts
        BY <1>1, <1>17, <2>1, ConflictIsKnown
    <2>3. e \in against
        BY <2>2 DEF Against, InForce, against
    <2>4. c \in own /\ MemoryOf(c) = m
        BY <1>1, <1>16, <1>17 DEF OwnKept, Activating
    <2>5. <<c, e>> \in Disputes(s, d)
        <3>1. c \in DOMAIN s.cached /\ e \in InForce(d, s.conflicts)
            BY <2>3, <2>4 DEF own, against
        <3> QED
            BY <1>17, <3>1, DisputeFound
    <2>6. \E pair \in Disputes(s, d) : c \in {pair[1], pair[2]}
        BY <2>5
    <2>7. t.cached[c] \in Fields /\ MemoryOf(c) = t.call.memory
        BY <1>6, <1>9, <2>4
    <2>8. path[c] = Path(t, c, Disputes(s, d)) /\ c \in DOMAIN path
        BY <1>10, <2>4
    <2> QED
        BY <1>9, <1>11, <1>17, <2>6, <2>7, <2>8, PathFacts
<1>18. ASSUME Activating(t), t.call.memory \notin t.beside
       PROVE  /\ \A c \in DOMAIN t.cached : MemoryOf(c) = t.call.memory => c \in t.own
              /\ t.call.strategy # "supersede" =>
                    \A c \in t.own, e \in Against(t, d) : Conflicting(d, c, e) =>
                        /\ c \in DOMAIN path /\ path[c] # << >>
                        /\ Last(path[c]).status = "contested"
                        /\ \E i \in DOMAIN path[c] :
                              path[c][i].status # t.cached[c].status
    <2>1. m \notin s.beside
        BY <1>9, <1>18
    <2>2. \A c \in DOMAIN t.cached : MemoryOf(c) = t.call.memory => c \in t.own
        BY <1>4, <1>9, <1>16, <2>1
    <2> QED
        BY <1>9, <1>14, <1>17, <2>1, <2>2
<1>19. DOMAIN path \subseteq DOMAIN t.cached /\ t.call \in Call
    BY <1>1, <1>4, <1>9, <1>10
<1>20. SessionOK(Planned(t, path), d)
    BY <1>8, <1>9, <1>12, <1>13, <1>15, <1>18, <1>19, PlannedIsOK
<1> QED
    BY <1>20 DEF t, path

\* The calls that take a memory out of force write no accepted row.
LEMMA RewrittenFacts ==
    ASSUME NEW s, s.call \in Call, ~Activating(s), NEW row \in Fields
    PROVE  /\ Rewritten(s.call, row) \in Fields
           /\ Rewritten(s.call, row).status # "accepted"
<1>1. /\ [row EXCEPT !.status = "historical"] \in Fields
      /\ [row EXCEPT !.status = "historical"].status = "historical"
      /\ [row EXCEPT !.status = "rejected"] \in Fields
      /\ [row EXCEPT !.status = "rejected"].status = "rejected"
      /\ Row("stale", "stale") \in Fields /\ Row("stale", "stale").status = "stale"
    BY DEF Fields, ClaimStatus, Row
<1>2. CASE s.call.op \in {"forget"}
    <2>1. Outcome(s.call) = "forgotten"
        BY <1>2 DEF Outcome
    <2>2. Rewritten(s.call, row) = [row EXCEPT !.status = "historical"]
        BY <1>2, <2>1 DEF Rewritten
    <2> QED
        BY <1>1, <2>2
<1>3. CASE s.call.op \in {"confirm", "reject"}
    <2>1. Outcome(s.call) = "rejected"
        BY <1>3, ConfirmOutcome DEF Outcome
    <2>2. Rewritten(s.call, row) = [row EXCEPT !.status = "rejected"]
        BY <1>3, <2>1 DEF Rewritten
    <2> QED
        BY <1>1, <2>2
<1>4. CASE s.call.op = "stale"
    <2>1. Outcome(s.call) = NULL
        BY <1>4 DEF Outcome
    <2>2. NULL \notin {"forgotten", "rejected"}
        BY NullAssumption DEF MemoryStatus
    <2>3. Rewritten(s.call, row) = Row("stale", "stale")
        BY <1>4, <2>1, <2>2 DEF Rewritten
    <2> QED
        BY <1>1, <2>3
<1>5. s.call.op \in {"confirm", "forget", "reject", "stale"}
    BY CallAssumption
<1> QED
    BY <1>2, <1>3, <1>4, <1>5

\* What a call that takes its memory out of force loads and is to write.
RowsSession(s, d) ==
    [s EXCEPT !.cached = [c \in ClaimsOf(d, s.call.memory) |-> d.claims[c].row]]

RowsPaths(s, d) ==
    [c \in ClaimsOf(d, s.call.memory) |->
        LET after == Rewritten(s.call, d.claims[c].row)
        IN  IF after = d.claims[c].row THEN << >> ELSE << after >>]

LEMMA PlannedRemovalIsOK ==
    ASSUME NEW s, NEW d, Sane(d), SessionOK(s, d), s.at = "rows"
    PROVE  SessionOK(Planned(RowsSession(s, d), RowsPaths(s, d)), d)
<1> DEFINE m == s.call.memory
           C == ClaimsOf(d, m)
           rows == [c \in C |-> d.claims[c].row]
           t == RowsSession(s, d)
           path == RowsPaths(s, d)
<1>1. /\ s \in Session /\ Copied(s) /\ OwnKept(s, d)
      /\ ~Activating(s) /\ s.call \in Call /\ d \in Database
    BY DEF SessionOK, Busied, Copied, Sane
<1>2. \A c \in C : c \in Claim /\ d.claims[c] # Absent /\ d.claims[c].row \in Fields
    BY <1>1, ClaimHolds DEF ClaimsOf
<1>3. /\ DOMAIN path = C
      /\ \A c \in C : LET after == Rewritten(s.call, d.claims[c].row)
                      IN  path[c] = IF after = d.claims[c].row THEN << >> ELSE << after >>
    BY DEF RowsPaths
<1> HIDE DEF C, path
<1>4. rows \in Partial(Fields) /\ DOMAIN rows = C
    <2>1. rows \in [C -> Fields] /\ C \subseteq Claim
        BY <1>2
    <2>2. DOMAIN rows = C
        OBVIOUS
    <2> HIDE DEF rows
    <2> QED
        BY <2>1, <2>2, PartialFacts
<1>5. t = [s EXCEPT !.cached = rows]
    BY DEF RowsSession, C
<1> HIDE DEF rows
<1>6. t \in Session
    BY <1>1, <1>4, <1>5 DEF Session
<1>7. /\ t.at = "rows" /\ t.cached = rows
      /\ t.todo = s.todo /\ t.conflicts = s.conflicts
      /\ t.call = s.call /\ t.own = s.own /\ t.beside = s.beside
    BY <1>1, <1>5 DEF Session
<1> HIDE DEF t
<1>8. ~Activating(t)
    BY <1>1, <1>7 DEF Activating
<1>9. \A c \in DOMAIN path : d.claims[c] # Absent /\ PathOK(t, c, path[c])
    <2> SUFFICES ASSUME NEW c \in C PROVE d.claims[c] # Absent /\ PathOK(t, c, path[c])
        BY <1>3
    <2> DEFINE after == Rewritten(s.call, d.claims[c].row)
    <2>1. after \in Fields /\ after.status # "accepted"
        BY <1>1, <1>2, RewrittenFacts
    <2>2. path[c] = IF after = d.claims[c].row THEN << >> ELSE << after >>
        BY <1>3
    <2> HIDE DEF after
    <2>3. << >> \in Seq(Fields) /\ << after >> \in Seq(Fields) /\ Last(<< after >>) = after
        BY <2>1 DEF Last
    <2>4. path[c] \in Seq(Fields) /\ (path[c] # << >> => Last(path[c]) = after)
        BY <2>2, <2>3
    <2> QED
        BY <1>2, <2>1, <2>4 DEF PathOK
<1>10. OwnKept(t, d)
    BY <1>1, <1>7, <1>8 DEF OwnKept
<1>11. OthersCompared(t, d) /\ Asked(t)
    BY <1>8 DEF OthersCompared, Asked, Looked
<1>12. DOMAIN path \subseteq DOMAIN t.cached /\ t.call \in Call
    BY <1>1, <1>3, <1>4, <1>7
<1>13. SessionOK(Planned(t, path), d)
    BY <1>6, <1>7, <1>8, <1>9, <1>10, <1>11, <1>12, PlannedIsOK
<1> QED
    BY <1>13 DEF t, path

-----------------------------------------------------------------------------
\* The numbers of versions.

LEMMA NextNumberFollows ==
    ASSUME NEW claim \in ClaimRow, Numbered(claim)
    PROVE  NextNumber(claim.versions) = Len(claim.versions) + 1
<1> DEFINE versions == claim.versions
           numbers == {v.number : v \in ToSet(versions)}
           Top(n) == \A v \in ToSet(versions) : v.number <= n
<1>1. /\ versions \in Seq(Version) /\ versions # << >>
      /\ \A n \in DOMAIN versions : versions[n].number = n
    BY DEF ClaimRow, Numbered
<1>2. Len(versions) \in Nat \ {0} /\ DOMAIN versions = 1 .. Len(versions)
    BY <1>1
<1> HIDE DEF versions
<1>3. \A v \in ToSet(versions) : \E n \in 1 .. Len(versions) : v = versions[n]
    BY <1>2 DEF ToSet
<1>4. \A n \in 1 .. Len(versions) : versions[n] \in ToSet(versions)
    BY <1>2 DEF ToSet
<1>5. Len(versions) \in numbers
    BY <1>1, <1>2, <1>4
<1>6. Top(Len(versions))
    BY <1>1, <1>2, <1>3
<1>7. \A n \in numbers : Top(n) => n = Len(versions)
    <2> SUFFICES ASSUME NEW n \in numbers, Top(n) PROVE n = Len(versions)
        OBVIOUS
    <2>1. n \in 1 .. Len(versions)
        BY <1>1, <1>2, <1>3
    <2>2. versions[Len(versions)].number <= n
        BY <1>2, <1>4
    <2>3. versions[Len(versions)].number = Len(versions)
        BY <1>1, <1>2
    <2>4. Len(versions) <= n
        BY <2>2, <2>3
    <2>5. \A l \in Nat : n \in 1 .. l /\ l <= n => n = l
        OBVIOUS
    <2> QED
        BY <1>2, <2>1, <2>4, <2>5
<1>8. (CHOOSE n \in numbers : Top(n)) = Len(versions)
    BY <1>5, <1>6, <1>7
<1>9. NextNumber(versions) = 1 + Len(versions)
    BY <1>8 DEF NextNumber
<1>10. NextNumber(versions) = Len(versions) + 1
    BY <1>2, <1>9
<1> QED
    BY <1>10 DEF versions

LEMMA OpenVersionIsLast ==
    ASSUME NEW claim \in ClaimRow, Numbered(claim)
    PROVE  OpenVersion(claim.versions) = Len(claim.versions)
<1> DEFINE versions == claim.versions
           Top(n) == /\ versions[n].open
                     /\ \A k \in DOMAIN versions : versions[k].open =>
                           versions[k].number <= versions[n].number
<1>1. /\ versions \in Seq(Version) /\ versions # << >>
      /\ \A n \in DOMAIN versions : versions[n].number = n
      /\ versions[Len(versions)].open
    BY AbsentIsNone DEF ClaimRow, Numbered
<1>2. Len(versions) \in Nat \ {0} /\ DOMAIN versions = 1 .. Len(versions)
    BY <1>1
<1> HIDE DEF versions
<1>3. Len(versions) \in DOMAIN versions /\ Top(Len(versions))
    BY <1>1, <1>2
<1>4. \A n \in DOMAIN versions : Top(n) => n = Len(versions)
    <2> SUFFICES ASSUME NEW n \in DOMAIN versions, Top(n) PROVE n = Len(versions)
        OBVIOUS
    <2>1. n \in 1 .. Len(versions)
        BY <1>2
    <2>2. versions[Len(versions)].number <= versions[n].number
        BY <1>1, <1>3
    <2> QED
        BY <1>1, <1>2, <2>1, <2>2
<1>5. (CHOOSE n \in DOMAIN versions : Top(n)) = Len(versions)
    BY <1>3, <1>4
<1> QED
    BY <1>5 DEF OpenVersion, versions

LEMMA FirstIsMoving ==
    ASSUME NEW s, DOMAIN s.moves # {}
    PROVE  First(s) \in DOMAIN s.moves
<1> DEFINE own == {c \in DOMAIN s.moves : MemoryOf(c) = s.call.memory}
<1>1. \E c \in DOMAIN s.moves : own # {} => c \in own
    OBVIOUS
<1> HIDE DEF own
<1>2. (CHOOSE c \in DOMAIN s.moves : own # {} => c \in own) \in DOMAIN s.moves
    BY <1>1
<1> QED
    BY <1>2 DEF First, own

\* The claim a call writes first is there.
LEMMA FirstIsThere ==
    ASSUME NEW s, NEW d, Sane(d), SessionOK(s, d), Writes(s), DOMAIN s.moves # {}
    PROVE  /\ First(s) \in DOMAIN s.moves /\ First(s) \in Claim
           /\ d.claims[First(s)] \in ClaimRow /\ Numbered(d.claims[First(s)])
<1>1. s \in Session /\ Ready(s, d)
    BY DEF SessionOK, Busied, Writes
<1>2. First(s) \in DOMAIN s.moves
    BY FirstIsMoving
<1>3. DOMAIN s.moves \subseteq Claim
    BY <1>1, SessionFacts, PartialFacts
<1>4. d.claims[First(s)] # Absent
    BY <1>1, <1>2 DEF Ready
<1> QED
    BY <1>2, <1>3, <1>4, ClaimHolds DEF Sane

LEMMA CurrentIsOK ==
    ASSUME NEW s, NEW d, Sane(d), SessionOK(s, d), s.at = "current"
    PROVE  SessionOK([s EXCEPT !.at = "number", !.current =
                          OpenVersion(d.claims[First(s)].versions)], d)
<1> DEFINE n == OpenVersion(d.claims[First(s)].versions)
           t == [s EXCEPT !.at = "number", !.current = n]
<1>1. /\ s \in Session /\ Copied(s) /\ Ready(s, d) /\ OwnKept(s, d)
      /\ OthersCompared(s, d) /\ Asked(s) /\ DisputesKept(s, d)
    BY DEF SessionOK, Busied
<1>2. Writes(s) /\ DOMAIN s.moves # {}
    BY <1>1 DEF Ready, Writes
<1>3. n \in Nat
    <2>1. /\ d.claims[First(s)] \in ClaimRow /\ Numbered(d.claims[First(s)])
        BY <1>2, FirstIsThere
    <2>2. n = Len(d.claims[First(s)].versions)
        BY <2>1, OpenVersionIsLast
    <2>3. d.claims[First(s)].versions \in Seq(Version)
        BY <2>1 DEF ClaimRow
    <2> QED
        BY <2>2, <2>3
<1> HIDE DEF n
<1>4. t \in Session
    BY <1>1, <1>3 DEF Session, Steps
<1>5. /\ t.at = "number" /\ t.moves = s.moves /\ t.cached = s.cached
      /\ t.todo = s.todo /\ t.conflicts = s.conflicts
      /\ t.call = s.call /\ t.own = s.own /\ t.beside = s.beside
    BY <1>1 DEF Session
<1> HIDE DEF t
<1>6. Copied(t)
    BY <1>1, <1>2, <1>5 DEF Copied, Writes, Deciding
<1>7. Ready(t, d)
    BY <1>1, <1>2, <1>5 DEF Ready, Writes, Activating
<1>8. OwnKept(t, d) /\ Asked(t)
    BY <1>1, <1>5 DEF OwnKept, Asked, Looked, Activating
<1>9. OthersCompared(t, d)
    BY <1>1, <1>5 DEF OthersCompared, Looked, Activating, Against, Compared
<1>10. DisputesKept(t, d)
    BY <1>1, <1>2, <1>5 DEF DisputesKept, Writes, Activating, Against, Contested
<1>11. CachedOwn(t) /\ OthersCached(t, d)
    BY <1>5 DEF CachedOwn, OthersCached
<1>12. SessionOK(t, d)
    BY <1>4, <1>6, <1>7, <1>8, <1>9, <1>10, <1>11 DEF SessionOK
<1> QED
    BY <1>12 DEF t, n

LEMMA NumberIsOK ==
    ASSUME NEW s, NEW d, Sane(d), SessionOK(s, d), s.at = "number"
    PROVE  SessionOK([s EXCEPT !.at = "write", !.number =
                          NextNumber(d.claims[First(s)].versions)], d)
<1> DEFINE n == NextNumber(d.claims[First(s)].versions)
           t == [s EXCEPT !.at = "write", !.number = n]
<1>1. /\ s \in Session /\ Copied(s) /\ Ready(s, d) /\ OwnKept(s, d)
      /\ OthersCompared(s, d) /\ Asked(s) /\ DisputesKept(s, d)
    BY DEF SessionOK, Busied
<1>2. Writes(s) /\ DOMAIN s.moves # {}
    BY <1>1 DEF Ready, Writes
<1>3. n \in 1 .. Len(d.claims[First(s)].versions) + 1 /\ n \in Nat
    <2>1. /\ d.claims[First(s)] \in ClaimRow /\ Numbered(d.claims[First(s)])
        BY <1>2, FirstIsThere
    <2>2. n = Len(d.claims[First(s)].versions) + 1
        BY <2>1, NextNumberFollows
    <2>3. d.claims[First(s)].versions \in Seq(Version)
        BY <2>1 DEF ClaimRow
    <2>4. Len(d.claims[First(s)].versions) \in Nat
        BY <2>3
    <2> QED
        BY <2>2, <2>4
<1> HIDE DEF n
<1>4. t \in Session
    BY <1>1, <1>3 DEF Session, Steps
<1>5. /\ t.at = "write" /\ t.moves = s.moves /\ t.cached = s.cached
      /\ t.todo = s.todo /\ t.conflicts = s.conflicts /\ t.number = n
      /\ t.call = s.call /\ t.own = s.own /\ t.beside = s.beside
    BY <1>1 DEF Session
<1> HIDE DEF t
<1>6. Copied(t)
    BY <1>1, <1>2, <1>5 DEF Copied, Writes, Deciding
<1>7. Ready(t, d)
    <2>1. First(t) = First(s)
        BY <1>5 DEF First
    <2> QED
        BY <1>1, <1>2, <1>3, <1>5, <2>1 DEF Ready, Writes, Activating
<1>8. OwnKept(t, d) /\ Asked(t)
    BY <1>1, <1>5 DEF OwnKept, Asked, Looked, Activating
<1>9. OthersCompared(t, d)
    BY <1>1, <1>5 DEF OthersCompared, Looked, Activating, Against, Compared
<1>10. DisputesKept(t, d)
    BY <1>1, <1>2, <1>5 DEF DisputesKept, Writes, Activating, Against, Contested
<1>11. CachedOwn(t) /\ OthersCached(t, d)
    BY <1>5 DEF CachedOwn, OthersCached
<1>12. SessionOK(t, d)
    BY <1>4, <1>6, <1>7, <1>8, <1>9, <1>10, <1>11 DEF SessionOK
<1> QED
    BY <1>12 DEF t, n

-----------------------------------------------------------------------------
\* What the commit of one call does to the sessions of the others.

\* No claim goes, no history shrinks, no answer changes.
Follows(d, e) ==
    /\ \A c \in Claim : d.claims[c] # Absent =>
          /\ e.claims[c] # Absent
          /\ Len(d.claims[c].versions) <= Len(e.claims[c].versions)
    /\ \A pair \in DOMAIN d.possible :
          pair \in DOMAIN e.possible /\ e.possible[pair] = d.possible[pair]

\* A memory that did not change has its rows.
LEMMA Unchanged ==
    ASSUME NEW d, NEW e, NEW m \in Memory \ Changed(d, e)
    PROVE  /\ e.memories[m] = d.memories[m]
           /\ \A c \in Claim : MemoryOf(c) = m => e.claims[c] = d.claims[c]
BY DEF Changed

LEMMA PassedFacts ==
    ASSUME NEW s \in Session, NEW memories \in SUBSET Memory
    PROVE  LET t == Passed(s, memories)
           IN  /\ t \in Session
               /\ t.at = s.at /\ t.call = s.call /\ t.own = s.own
               /\ t.todo = s.todo /\ t.conflicts = s.conflicts /\ t.note = s.note
               /\ t.cached = s.cached /\ t.moves = s.moves
               /\ t.current = s.current /\ t.number = s.number
               /\ s.beside \subseteq t.beside
               /\ s.own # {} /\ Outcome(s.call) = "active" =>
                     t.beside = s.beside \cup memories
<1>1. CASE s.own # {} /\ Outcome(s.call) = "active"
    <2> DEFINE beside == s.beside \cup memories
               t == Passed(s, memories)
    <2>1. beside \in SUBSET Memory
        BY SessionFacts
    <2>2. t = [s EXCEPT !.beside = beside]
        BY <1>1 DEF Passed, Session
    <2>3. s.beside \subseteq beside
        OBVIOUS
    <2> HIDE DEF beside
    <2>4. t \in Session
        BY <2>1, <2>2 DEF Session
    <2>5. /\ t.at = s.at /\ t.call = s.call /\ t.own = s.own
          /\ t.todo = s.todo /\ t.conflicts = s.conflicts /\ t.note = s.note
          /\ t.cached = s.cached /\ t.moves = s.moves
          /\ t.current = s.current /\ t.number = s.number
          /\ t.beside = beside
        BY <2>2 DEF Session
    <2> QED
        BY <2>3, <2>4, <2>5 DEF beside
<1>2. CASE ~(s.own # {} /\ Outcome(s.call) = "active")
    <2>1. Passed(s, memories) = s
        BY <1>2 DEF Passed
    <2> QED
        BY <1>2, <2>1
<1> QED
    BY <1>1, <1>2

\* The look of a call at claims is as good after the commit of another call,
\* for the memories the commit left alone.
LEMMA PassedIsOK ==
    ASSUME NEW s, NEW d, NEW e, Sane(d), Sane(e), Follows(d, e), SessionOK(s, d)
    PROVE  SessionOK(Passed(s, Changed(d, e)), e)
<1> DEFINE m == s.call.memory
           t == Passed(s, Changed(d, e))
<1>1. s \in Session
    BY DEF SessionOK
<1>2. Changed(d, e) \in SUBSET Memory
    BY DEF Changed
<1>3. /\ t \in Session
      /\ t.at = s.at /\ t.call = s.call /\ t.own = s.own
      /\ t.todo = s.todo /\ t.conflicts = s.conflicts /\ t.note = s.note
      /\ t.cached = s.cached /\ t.moves = s.moves
      /\ t.current = s.current /\ t.number = s.number
      /\ s.beside \subseteq t.beside
      /\ s.own # {} /\ Outcome(s.call) = "active" =>
            t.beside = s.beside \cup Changed(d, e)
    BY <1>1, <1>2, PassedFacts
<1> HIDE DEF t
<1>4. ASSUME s.at = "idle" PROVE SessionOK(t, e)
    BY <1>3, <1>4 DEF SessionOK, Busied
<1>5. ASSUME s.at # "idle" PROVE SessionOK(t, e)
    <2>1. /\ Copied(s) /\ Ready(s, d) /\ OwnKept(s, d) /\ OthersCompared(s, d)
          /\ Asked(s) /\ DisputesKept(s, d) /\ CachedOwn(s) /\ OthersCached(s, d)
          /\ s.call \in Call
        BY <1>5 DEF SessionOK, Busied, Copied
    <2>2. m \in Memory
        BY <2>1, CallMemory
    <2>3. First(t) = First(s)
        BY <1>3 DEF First
    <2>4. ASSUME Activating(s), s.at \notin {"idle", "gather"}
          PROVE  t.beside = s.beside \cup Changed(d, e)
        BY <1>3, <2>1, <2>4, ActiveOutcome DEF OwnKept, Activating
    <2>5. Copied(t)
        BY <1>3, <2>1 DEF Copied, Writes, Deciding, Activating
    <2>6. Ready(t, e)
        <3> SUFFICES ASSUME Writes(s) PROVE Ready(t, e)
            BY <1>3 DEF Ready, Writes
        <3>1. \A c \in DOMAIN s.moves : c \in Claim
            BY <1>1, SessionFacts, PartialFacts
        <3>2. t.at # "write" => DOMAIN t.moves # {}
            BY <1>3, <2>1 DEF Ready
        <3>3. ASSUME NEW c \in DOMAIN t.moves
              PROVE  /\ e.claims[c] # Absent
                     /\ Last(t.moves[c]).status = "accepted" =>
                            Activating(t) /\ MemoryOf(c) = t.call.memory
            BY <1>3, <2>1, <3>1 DEF Ready, Follows, Activating
        <3>4. ASSUME t.at = "write", DOMAIN t.moves # {}
              PROVE  t.number \in 1 .. Len(e.claims[First(t)].versions) + 1
            <4>1. First(s) \in DOMAIN s.moves /\ First(s) \in Claim
                BY <1>3, <3>1, <3>4, FirstIsMoving
            <4>2. d.claims[First(s)] # Absent /\ e.claims[First(s)] # Absent
                BY <2>1, <4>1 DEF Ready, Follows
            <4> DEFINE k == Len(d.claims[First(s)].versions)
                       l == Len(e.claims[First(s)].versions)
            <4>3. k \in Nat /\ l \in Nat
                BY <4>1, <4>2, ClaimHolds DEF Sane
            <4>4. k <= l
                BY <4>1, <4>2 DEF Follows
            <4>5. s.number \in 1 .. k + 1
                BY <1>3, <2>1, <3>4 DEF Ready
            <4> HIDE DEF k, l
            <4>6. s.number \in 1 .. l + 1
                BY <4>3, <4>4, <4>5
            <4> QED
                BY <1>3, <2>3, <4>6 DEF l
        <3> QED
            BY <3>2, <3>3, <3>4 DEF Ready
    <2>7. OwnKept(t, e)
        <3> SUFFICES ASSUME s.at \notin {"idle", "gather"}, s.call.op = "confirm"
                     PROVE  OwnKept(t, e)
            BY <1>3 DEF OwnKept
        <3>1. s.own # {} /\ \A c \in s.own : MemoryOf(c) = m
            BY <2>1 DEF OwnKept
        <3>2. ASSUME Activating(s), m \notin t.beside
              PROVE  LiveClaims(e, m) = s.own
            <4>1. m \notin s.beside /\ m \in Memory \ Changed(d, e)
                BY <2>2, <2>4, <3>2
            <4>2. LiveClaims(d, m) = s.own
                BY <2>1, <3>2, <4>1 DEF OwnKept
            <4>3. \A c \in Claim : MemoryOf(c) = m => e.claims[c] = d.claims[c]
                BY <4>1, Unchanged
            <4> QED
                BY <4>2, <4>3 DEF LiveClaims, ClaimsOf
        <3> QED
            BY <1>3, <3>1, <3>2 DEF OwnKept, Activating
    <2>8. ASSUME Looked(s), NEW x \in Against(t, e)
          PROVE  x \in Against(s, d)
        <3>1. t.beside = s.beside \cup Changed(d, e)
            BY <2>4, <2>8 DEF Looked
        <3>2. x \in Claim /\ MemoryOf(x) \in Memory \ Changed(d, e) /\ MemoryOf(x) \notin s.beside
            BY <2>8, <3>1, ClaimMemory DEF Against, InForce
        <3>3. e.claims[x] = d.claims[x] /\ e.memories[MemoryOf(x)] = d.memories[MemoryOf(x)]
            BY <3>2, Unchanged
        <3> QED
            BY <1>3, <2>8, <3>2, <3>3 DEF Against, InForce, Active
    <2>9. OthersCompared(t, e)
        <3> SUFFICES ASSUME Looked(s), NEW c \in s.own, NEW x \in Against(t, e)
                     PROVE  Compared(t, e, c, x)
            BY <1>3 DEF OthersCompared, Looked, Activating
        <3>1. Compared(s, d, c, x)
            BY <2>1, <2>8 DEF OthersCompared
        <3> QED
            BY <1>3, <3>1 DEF Compared, Follows
    <2>10. Asked(t)
        BY <1>3, <2>1 DEF Asked, Looked, Activating
    <2>11. DisputesKept(t, e)
        <3> SUFFICES ASSUME Writes(s), Activating(s), m \notin t.beside
                     PROVE  DisputesKept(t, e)
            BY <1>3 DEF DisputesKept, Writes, Activating
        <3>1. m \notin s.beside
            BY <1>3
        <3>2. \A c \in DOMAIN s.cached : MemoryOf(c) = m => c \in s.own
            BY <2>1, <3>1 DEF DisputesKept
        <3>3. ASSUME s.call.strategy # "supersede", NEW c \in s.own,
                     NEW x \in Against(t, e), Conflicting(e, c, x)
              PROVE  Contested(s, c)
            <4>1. Looked(s) /\ x \in Against(s, d)
                BY <2>8 DEF Looked, Writes
            <4>2. Compared(s, d, c, x) /\ s.todo = {}
                BY <2>1, <4>1 DEF OthersCompared, Asked, Writes
            <4>3. Conflicting(d, c, x)
                <5>1. CASE {MemoryOf(c), MemoryOf(x)} \in Rival
                    BY <5>1 DEF Conflicting
                <5>2. CASE {c, x} \in DOMAIN e.possible /\ e.possible[{c, x}] = "confirmed"
                    <6>1. {c, x} \in Pairs
                        BY <5>2, DatabaseHolds DEF Sane, Holds
                    <6>2. {MemoryOf(y) : y \in {c, x}} = {MemoryOf(c), MemoryOf(x)}
                        OBVIOUS
                    <6>3. {MemoryOf(c), MemoryOf(x)} \in Unsure
                        BY <6>1, <6>2, PairFacts
                    <6>4. {c, x} \in DOMAIN d.possible
                        BY <4>2, <6>3 DEF Compared
                    <6>5. d.possible[{c, x}] = "confirmed"
                        BY <5>2, <6>4 DEF Follows
                    <6> QED
                        BY <6>4, <6>5 DEF Conflicting
                <5> QED
                    BY <3>3, <5>1, <5>2 DEF Conflicting
            <4> QED
                BY <2>1, <3>1, <3>3, <4>1, <4>3 DEF DisputesKept
        <3>4. \A c \in s.own : Contested(s, c) => Contested(t, c)
            BY <1>3 DEF Contested
        <3> QED
            BY <1>3, <3>2, <3>3, <3>4 DEF DisputesKept
    <2>12. CachedOwn(t)
        BY <1>3, <2>1 DEF CachedOwn
    <2>13. OthersCached(t, e)
        <3>1. \A c \in DOMAIN s.cached : c \in Claim
            BY <1>1, SessionFacts, PartialFacts
        <3> QED
            BY <1>3, <2>1, <3>1 DEF OthersCached, Follows
    <2> QED
        BY <1>3, <2>5, <2>6, <2>7, <2>9, <2>10, <2>11, <2>12, <2>13 DEF SessionOK
<1>6. SessionOK(t, e)
    BY <1>4, <1>5
<1> QED
    BY <1>6 DEF t

-----------------------------------------------------------------------------
\* What a commit makes of the rows of a claim.

\* A version that is closed is a version.
LEMMA ClosedVersion ==
    ASSUME NEW v \in Version, NEW open \in BOOLEAN
    PROVE  /\ [v EXCEPT !.open = open] \in Version
           /\ [v EXCEPT !.open = open].number = v.number
BY DEF Version

\* The versions a transition adds.
Added(number, path) ==
    [i \in DOMAIN path |-> [number |-> number + i - 1, row |-> path[i],
                            open |-> i = Len(path)]]

LEMMA AddedFacts ==
    ASSUME NEW path \in Seq(Fields) \ {<< >>}, NEW number \in Nat \ {0}
    PROVE  LET A == Added(number, path)
           IN  /\ A \in Seq(Version) /\ Len(A) = Len(path)
               /\ \A i \in 1 .. Len(path) : A[i].number = number + i - 1
               /\ A[Len(path)].open
<1> DEFINE A == Added(number, path)
           k == Len(path)
<1>1. k \in Nat \ {0} /\ DOMAIN path = 1 .. k
    BY EmptySeq
<1>2. \A i \in 1 .. k : path[i] \in Fields
    BY ElementOfSeq
<1> HIDE DEF k
<1>3. \A i \in 1 .. k : A[i] = [number |-> number + i - 1, row |-> path[i],
                                open |-> i = k]
    BY <1>1 DEF Added, k
<1>4. DOMAIN A = 1 .. k
    BY <1>1 DEF Added
<1>5. \A i \in 1 .. k : A[i] \in Version
    <2> SUFFICES ASSUME NEW i \in 1 .. k PROVE A[i] \in Version
        OBVIOUS
    <2>1. number + i - 1 \in Nat
        BY <1>1
    <2>2. (i = k) \in BOOLEAN
        OBVIOUS
    <2>3. \A n \in Nat, row \in Fields, open \in BOOLEAN :
              [number |-> n, row |-> row, open |-> open] \in Version
        BY DEF Version
    <2> QED
        BY <1>2, <1>3, <2>1, <2>2, <2>3
<1>6. A \in [1 .. k -> Version]
    <2>1. A = [i \in DOMAIN A |-> A[i]]
        BY DEF Added
    <2> HIDE DEF A
    <2> QED
        BY <1>4, <1>5, <2>1
<1>7. A[k].open
    <2>1. A[k] = [number |-> number + k - 1, row |-> path[k], open |-> TRUE]
        <3>1. (k = k) = TRUE
            OBVIOUS
        <3>2. A[k] = [number |-> number + k - 1, row |-> path[k], open |-> k = k]
            BY <1>1, <1>3
        <3> HIDE DEF A
        <3> QED
            BY <3>1, <3>2, Zenon
    <2> HIDE DEF A
    <2>2. A[k].open = TRUE
        BY <2>1
    <2> QED
        BY <2>2
<1>8. \A i \in 1 .. k : A[i].number = number + i - 1
    <2> SUFFICES ASSUME NEW i \in 1 .. k PROVE A[i].number = number + i - 1
        OBVIOUS
    <2>2. A[i] = [number |-> number + i - 1, row |-> path[i], open |-> i = k]
        BY <1>3
    <2> HIDE DEF A
    <2> QED
        BY <2>2
<1> HIDE DEF A
<1>9. A \in Seq(Version)
    BY <1>1, <1>6, SeqDef
<1>10. Len(A) = k
    BY <1>1, <1>4, <1>9, LenProperties
<1> QED
    BY <1>7, <1>8, <1>9, <1>10 DEF A, k

LEMMA TransitionsFacts ==
    ASSUME NEW claim \in ClaimRow, Numbered(claim),
           NEW current, NEW path \in Seq(Fields) \ {<< >>},
           NEW number, number = Len(claim.versions) + 1
    PROVE  LET T == Transitions(claim.versions, current, number, path)
           IN  /\ T \in Seq(Version) \ {<< >>}
               /\ Len(T) = Len(claim.versions) + Len(path)
               /\ \A n \in 1 .. Len(T) : T[n].number = n
               /\ T[Len(T)].open
<1> DEFINE versions == claim.versions
           V == [versions EXCEPT ![current].open = FALSE]
           A == Added(number, path)
           l == Len(versions)
           k == Len(path)
           T == Transitions(versions, current, number, path)
<1>1. /\ versions \in Seq(Version) /\ versions # << >>
      /\ \A n \in DOMAIN versions : versions[n].number = n
    BY DEF ClaimRow, Numbered
<1>2. l \in Nat \ {0} /\ DOMAIN versions = 1 .. l /\ k \in Nat \ {0}
    BY <1>1, EmptySeq
<1>3. \A n \in 1 .. l : versions[n] \in Version
    BY <1>1, <1>2
<1>4. T = V \o A
    BY DEF Transitions, Added
<1> DEFINE W(x) == [versions[x] EXCEPT !.open = FALSE]
<1>5. \A n \in 1 .. l : W(n) \in Version /\ W(n).number = n
    <2> SUFFICES ASSUME NEW n \in 1 .. l PROVE W(n) \in Version /\ W(n).number = n
        OBVIOUS
    <2> DEFINE v == versions[n]
    <2>1. v \in Version /\ v.number = n
        BY <1>1, <1>2, <1>3
    <2> HIDE DEF v
    <2>2. \A open \in BOOLEAN : /\ [v EXCEPT !.open = open] \in Version
                                /\ [v EXCEPT !.open = open].number = v.number
        BY <2>1, ClosedVersion
    <2>3. /\ [v EXCEPT !.open = FALSE] \in Version
          /\ [v EXCEPT !.open = FALSE].number = v.number
        BY <2>2, Zenon
    <2> QED
        BY <2>1, <2>3 DEF v
<1>6. V = [n \in 1 .. l |-> IF n = current THEN W(n) ELSE versions[n]]
    <2>1. versions \in [1 .. l -> Version]
        BY <1>1, <1>2, LenProperties
    <2> HIDE DEF versions, l
    <2>2. \A x : [versions EXCEPT ![current] = x]
                    = [n \in 1 .. l |-> IF n = current THEN x ELSE versions[n]]
        BY <2>1
    <2>3. V = [versions EXCEPT ![current] = W(current)]
        OBVIOUS
    <2>4. V = [n \in 1 .. l |-> IF n = current THEN W(current) ELSE versions[n]]
        BY <2>2, <2>3
    <2> HIDE DEF V, W
    <2> QED
        BY <2>4
<1> HIDE DEF V, W, A, T
<1>7. V \in [1 .. l -> Version] /\ \A n \in 1 .. l : V[n].number = n
    BY <1>1, <1>2, <1>3, <1>5, <1>6
<1>8. V \in Seq(Version) /\ Len(V) = l
    <2>1. V \in Seq(Version)
        BY <1>2, <1>7, SeqDef
    <2> QED
        BY <1>2, <1>7, <2>1, LenProperties
<1>9. /\ A \in Seq(Version) /\ Len(A) = k
      /\ \A i \in 1 .. k : A[i].number = number + i - 1
      /\ A[k].open
    <2>1. number \in Nat \ {0}
        BY <1>2
    <2> QED
        BY <2>1, AddedFacts DEF A
<1> HIDE DEF versions, l, k
<1>10. /\ T \in Seq(Version) /\ Len(T) = l + k
       /\ \A i \in 1 .. l + k : T[i] = IF i <= l THEN V[i] ELSE A[i - l]
    <2>1. /\ V \o A \in Seq(Version) /\ Len(V \o A) = Len(V) + Len(A)
          /\ \A i \in 1 .. Len(V) + Len(A) :
                (V \o A)[i] = IF i <= Len(V) THEN V[i] ELSE A[i - Len(V)]
        <3>1. V \in Seq(Version) /\ A \in Seq(Version)
            BY <1>8, <1>9
        <3> QED
            BY ONLY <3>1, ConcatProperties
    <2> QED
        BY <1>4, <1>8, <1>9, <2>1
<1>11. number = l + 1
    BY DEF l, versions
<1>12. \A n \in 1 .. l + k : T[n].number = n
    <2> SUFFICES ASSUME NEW n \in 1 .. l + k PROVE T[n].number = n
        OBVIOUS
    <2>1. CASE n <= l
        BY <1>2, <1>7, <1>10, <2>1
    <2>2. CASE ~(n <= l)
        <3>1. n - l \in 1 .. k /\ number + (n - l) - 1 = n
            BY <1>2, <1>11, <2>2
        <3> QED
            BY <1>9, <1>10, <2>2, <3>1
    <2> QED
        BY <2>1, <2>2
<1>13. T[l + k].open
    <2>1. l + k \in 1 .. l + k /\ ~(l + k <= l) /\ (l + k) - l = k
        BY <1>2
    <2> QED
        BY <1>9, <1>10, <2>1
<1>14. T # << >>
    BY <1>2, <1>10, EmptySeq
<1> QED
    BY <1>10, <1>12, <1>13, <1>14 DEF T, l, k, versions

LEMMA UpdatedFacts ==
    ASSUME NEW row \in Fields, NEW cached \in Fields,
           NEW path \in Seq(Fields) \ {<< >>}
    PROVE  LET u == Updated(row, cached, path)
               changed == \E i \in DOMAIN path : path[i].status # cached.status
           IN  /\ u \in Fields
               /\ changed => u.status = Last(path).status
               /\ ~changed => u.status = row.status
<1> DEFINE last == path[Len(path)]
           Differs(field) == \E i \in DOMAIN path : path[i][field] # cached[field]
           u == Updated(row, cached, path)
<1>1. last \in Fields
    <2>1. Len(path) \in 1 .. Len(path)
        BY EmptySeq
    <2> QED
        BY <2>1, ElementOfSeq
<1>2. u = [field \in DOMAIN row |-> IF Differs(field) THEN last[field] ELSE row[field]]
    BY DEF Updated
<1>3. DOMAIN row = {"status", "stale"}
    BY DEF Fields
<1> HIDE DEF last, u
<1>4. /\ u["status"] = IF Differs("status") THEN last["status"] ELSE row["status"]
      /\ u["stale"] = IF Differs("stale") THEN last["stale"] ELSE row["stale"]
      /\ u = [field \in {"status", "stale"} |-> u[field]]
    BY <1>2, <1>3
<1> HIDE DEF Differs
<1>5. /\ last["status"] \in ClaimStatus /\ row["status"] \in ClaimStatus
      /\ last["stale"] \in {"unknown", "stale"} /\ row["stale"] \in {"unknown", "stale"}
    BY <1>1 DEF Fields
<1>6. u["status"] \in ClaimStatus /\ u["stale"] \in {"unknown", "stale"}
    BY <1>4, <1>5
<1>7. u \in Fields
    <2>1. u = [status |-> u["status"], stale |-> u["stale"]]
        BY <1>4
    <2> QED
        BY <1>6, <2>1 DEF Fields
<1>8. Differs("status") <=> \E i \in DOMAIN path : path[i].status # cached.status
    BY DEF Differs
<1> QED
    BY <1>4, <1>7, <1>8 DEF u, last, Last

\* A claim once a path is written over it.
Rewrote(claim, cached, path, current, number) ==
    [row |-> Updated(claim.row, cached, path),
     versions |-> Transitions(claim.versions, current, number, path)]

\* A sane claim whose status is the last of the path, if the path changed it.
RewroteOK(claim, cached, path, r) ==
    LET changed == \E i \in DOMAIN path : path[i].status # cached.status
    IN  /\ r \in ClaimRow /\ Numbered(r)
        /\ Len(claim.versions) <= Len(r.versions)
        /\ changed => r.row.status = Last(path).status
        /\ ~changed => r.row.status = claim.row.status

LEMMA RewroteFacts ==
    ASSUME NEW claim \in ClaimRow, Numbered(claim), NEW cached \in Fields,
           NEW path \in Seq(Fields) \ {<< >>}, NEW current,
           NEW number, number = Len(claim.versions) + 1
    PROVE  RewroteOK(claim, cached, path, Rewrote(claim, cached, path, current, number))
<1> DEFINE r == Rewrote(claim, cached, path, current, number)
           T == Transitions(claim.versions, current, number, path)
           u == Updated(claim.row, cached, path)
<1>1. claim.row \in Fields /\ claim.versions \in Seq(Version)
    BY DEF ClaimRow
<1>2. /\ T \in Seq(Version) \ {<< >>}
      /\ Len(T) = Len(claim.versions) + Len(path)
      /\ \A n \in 1 .. Len(T) : T[n].number = n
      /\ T[Len(T)].open
    BY TransitionsFacts
<1>3. /\ u \in Fields
      /\ (\E i \in DOMAIN path : path[i].status # cached.status) => u.status = Last(path).status
      /\ ~(\E i \in DOMAIN path : path[i].status # cached.status) => u.status = claim.row.status
    BY <1>1, UpdatedFacts
<1> HIDE DEF T, u
<1>4. r = [row |-> u, versions |-> T]
    BY DEF Rewrote, T, u
<1> HIDE DEF r
<1>5. r.row = u /\ r.versions = T /\ r \in ClaimRow
    BY <1>2, <1>3, <1>4 DEF ClaimRow
<1>6. DOMAIN T = 1 .. Len(T)
    BY <1>2, LenProperties
<1>7. Numbered(r)
    BY <1>2, <1>5, <1>6 DEF Numbered
<1>8. Len(claim.versions) <= Len(T)
    <2>1. Len(claim.versions) \in Nat /\ Len(path) \in Nat
        BY <1>1, LenProperties
    <2> QED
        BY <1>2, <2>1
<1> QED
    BY <1>3, <1>5, <1>7, <1>8 DEF r, RewroteOK

\* The first claim of a call gets the number that was read, which the unique
\* constraint makes the next one.
LEMMA MovedFacts ==
    ASSUME NEW s, NEW d, Sane(d), SessionOK(s, d), s.at = "write", ~NumberUsed(d, s)
    PROVE  LET C == Moved(d, s)
               Differs(c) == \E i \in DOMAIN s.moves[c] :
                                s.moves[c][i].status # s.cached[c].status
           IN  /\ DOMAIN s.moves \subseteq Claim
               /\ C \in [Claim -> {Absent} \cup ClaimRow]
               /\ \A c \in Claim \ DOMAIN s.moves : C[c] = d.claims[c]
               /\ \A c \in DOMAIN s.moves :
                     /\ C[c] \in ClaimRow /\ Numbered(C[c])
                     /\ Len(d.claims[c].versions) <= Len(C[c].versions)
                     /\ Differs(c) => C[c].row.status = Last(s.moves[c]).status
                     /\ ~Differs(c) => C[c].row.status = d.claims[c].row.status
<1> DEFINE C == Moved(d, s)
           before(c) == IF c = First(s) THEN s.current
                        ELSE OpenVersion(d.claims[c].versions)
           number(c) == IF c = First(s) THEN s.number
                        ELSE NextNumber(d.claims[c].versions)
           Result(c) == Rewrote(d.claims[c], s.cached[c], s.moves[c], before(c), number(c))
           Differs(c) == \E i \in DOMAIN s.moves[c] :
                            s.moves[c][i].status # s.cached[c].status
<1>1. s \in Session /\ Copied(s) /\ Ready(s, d)
    BY DEF SessionOK, Busied
<1>2. DOMAIN s.moves \subseteq Claim /\ DOMAIN s.moves \subseteq DOMAIN s.cached
    BY <1>1, SessionFacts, PartialFacts DEF Copied, Writes
<1>3. \A c \in DOMAIN s.moves : s.moves[c] \in Seq(Fields) \ {<< >>}
    <2>1. s.moves \in Partial(Seq(Fields) \ {<< >>})
        BY <1>1, SessionFacts
    <2>2. s.moves \in [DOMAIN s.moves -> Seq(Fields) \ {<< >>}]
        BY <2>1, PartialFacts
    <2> QED
        BY <2>2
<1>4. \A c \in DOMAIN s.cached : s.cached[c] \in Fields
    <2>1. s.cached \in [DOMAIN s.cached -> Fields]
        BY <1>1, SessionFacts, PartialFacts
    <2> QED
        BY <2>1
<1>5. \A c \in DOMAIN s.moves : d.claims[c] \in ClaimRow /\ Numbered(d.claims[c])
    <2> SUFFICES ASSUME NEW c \in DOMAIN s.moves
                 PROVE  d.claims[c] \in ClaimRow /\ Numbered(d.claims[c])
        OBVIOUS
    <2>1. c \in Claim /\ d.claims[c] # Absent
        BY <1>1, <1>2 DEF Ready, Writes
    <2> QED
        BY <2>1, ClaimHolds DEF Sane
<1>6. \A c \in DOMAIN s.moves : number(c) = Len(d.claims[c].versions) + 1
    <2> SUFFICES ASSUME NEW c \in DOMAIN s.moves
                 PROVE  number(c) = Len(d.claims[c].versions) + 1
        OBVIOUS
    <2>1. CASE c # First(s)
        BY <1>5, <2>1, NextNumberFollows
    <2>2. CASE c = First(s)
        <3> DEFINE versions == d.claims[c].versions
        <3>1. s.number \in 1 .. Len(versions) + 1
            BY <1>1, <2>2 DEF Ready, Writes
        <3>2. versions \in Seq(Version) /\ \A n \in DOMAIN versions : versions[n].number = n
            BY <1>5 DEF ClaimRow, Numbered
        <3>3. \A n \in DOMAIN versions : versions[n] \in ToSet(versions)
            BY DEF ToSet
        <3>4. \A v \in ToSet(versions) : v.number # s.number
            BY <2>2 DEF NumberUsed
        <3> HIDE DEF versions
        <3>5. DOMAIN versions = 1 .. Len(versions) /\ Len(versions) \in Nat
            BY <3>2, LenProperties
        <3>6. s.number \notin 1 .. Len(versions)
            BY <3>2, <3>3, <3>4, <3>5
        <3>7. s.number = Len(versions) + 1
            BY <3>1, <3>5, <3>6
        <3> QED
            BY <2>2, <3>7 DEF versions
    <2> QED
        BY <2>1, <2>2
<1>7. C = [c \in Claim |-> IF c \notin DOMAIN s.moves THEN d.claims[c] ELSE Result(c)]
    BY DEF Moved, Rewrote
<1> HIDE DEF C
<1>8. \A c \in DOMAIN s.moves : C[c] = Result(c)
    BY <1>2, <1>7
<1>9. \A c \in Claim \ DOMAIN s.moves : C[c] = d.claims[c]
    BY <1>7
<1>10. ASSUME NEW c \in DOMAIN s.moves
       PROVE  /\ C[c] \in ClaimRow /\ Numbered(C[c])
              /\ Len(d.claims[c].versions) <= Len(C[c].versions)
              /\ Differs(c) => C[c].row.status = Last(s.moves[c]).status
              /\ ~Differs(c) => C[c].row.status = d.claims[c].row.status
    <2>1. /\ d.claims[c] \in ClaimRow /\ Numbered(d.claims[c])
          /\ s.cached[c] \in Fields /\ s.moves[c] \in Seq(Fields) \ {<< >>}
          /\ number(c) = Len(d.claims[c].versions) + 1
          /\ C[c] = Result(c)
        BY <1>2, <1>3, <1>4, <1>5, <1>6, <1>8
    <2> DEFINE b == before(c)
               n == number(c)
    <2>2. C[c] = Rewrote(d.claims[c], s.cached[c], s.moves[c], b, n)
        BY <2>1
    <2>3. n = Len(d.claims[c].versions) + 1
        BY <2>1
    <2> DEFINE claim == d.claims[c]
               cached == s.cached[c]
               path == s.moves[c]
               r == C[c]
    <2>4. /\ claim \in ClaimRow /\ Numbered(claim) /\ cached \in Fields
          /\ path \in Seq(Fields) \ {<< >>} /\ n = Len(claim.versions) + 1
          /\ r = Rewrote(claim, cached, path, b, n)
        BY <2>1, <2>2, <2>3
    <2> HIDE DEF b, n, claim, cached, path, r
    <2>5. RewroteOK(claim, cached, path, Rewrote(claim, cached, path, b, n))
        BY <2>4, RewroteFacts
    <2> QED
        BY <2>4, <2>5 DEF claim, cached, path, r, RewroteOK
<1>11. C \in [Claim -> {Absent} \cup ClaimRow]
    <2>1. \A c \in Claim : C[c] \in {Absent} \cup ClaimRow
        BY <1>9, <1>10, DatabaseHolds DEF Sane, Holds
    <2>2. C = [c \in Claim |-> C[c]]
        BY <1>7
    <2> QED
        BY <2>1, <2>2
<1> QED
    BY <1>2, <1>9, <1>10, <1>11 DEF C

-----------------------------------------------------------------------------
\* The commit of a call.

LEMMA OutcomeType ==
    ASSUME NEW call \in Call
    PROVE  Outcome(call) \in MemoryStatus \cup {NULL}
<1>1. call.op \in {"confirm", "forget", "reject", "stale"}
    BY CallAssumption
<1> QED
    BY <1>1 DEF Outcome, MemoryStatus

LEMMA DecidedFacts ==
    ASSUME NEW s, NEW d \in Database, s.call \in Call
    PROVE  LET N == Decided(d, s)
           IN  /\ N \in [Memory -> MemoryStatus]
               /\ \A k \in Memory : N[k] = "active" =>
                     IF k = s.call.memory /\ Outcome(s.call) # NULL
                     THEN Outcome(s.call) = "active"
                     ELSE /\ d.memories[k] = "active"
                          /\ ~(k \in s.conflicts /\ s.call.strategy = "supersede")
<1> DEFINE N == Decided(d, s)
<1>1. d.memories \in [Memory -> MemoryStatus]
    BY DatabaseHolds DEF Holds
<1>2. Outcome(s.call) # NULL => Outcome(s.call) \in MemoryStatus
    BY OutcomeType
<1>3. "superseded" \in MemoryStatus
    BY DEF MemoryStatus
<1>4. N = [k \in Memory |->
              IF k = s.call.memory /\ Outcome(s.call) # NULL THEN Outcome(s.call)
              ELSE IF k \in s.conflicts /\ s.call.strategy = "supersede"
                   THEN "superseded" ELSE d.memories[k]]
    BY DEF Decided
<1> HIDE DEF N
<1>5. N \in [Memory -> MemoryStatus]
    BY <1>1, <1>2, <1>3, <1>4
<1>6. ASSUME NEW k \in Memory, N[k] = "active"
      PROVE  IF k = s.call.memory /\ Outcome(s.call) # NULL
             THEN Outcome(s.call) = "active"
             ELSE /\ d.memories[k] = "active"
                  /\ ~(k \in s.conflicts /\ s.call.strategy = "supersede")
    BY <1>4, <1>6
<1> QED
    BY <1>5, <1>6 DEF N

LEMMA RelationsType ==
    ASSUME NEW s, s.call \in Call, s.conflicts \in SUBSET Memory
    PROVE  Relations(s) \subseteq Memory \X Memory \X {NULL, "supersede", "keep_both"}
<1>1. CASE Outcome(s.call) # "active"
    BY <1>1 DEF Relations
<1>2. CASE Outcome(s.call) = "active"
    <2>1. Activating(s)
        BY <1>2, ActiveOutcome
    <2>2. s.call.strategy \in {NULL, "supersede", "keep_both"}
        BY <2>1, ConfirmOutcome DEF Activating
    <2>3. s.call.memory \in Memory
        BY CallMemory
    <2>4. Relations(s) = {<<s.call.memory, k, s.call.strategy>> : k \in s.conflicts}
        BY <1>2 DEF Relations
    <2> QED
        BY <2>2, <2>3, <2>4
<1> QED
    BY <1>1, <1>2

\* What a commit may bring about, for a call of a session with a database.
Comes(s, d, e) ==
    /\ Sane(e) /\ Follows(d, e) /\ e.possible = d.possible
    /\ \A k \in Memory : e.memories[k] = "active" =>
          IF k = s.call.memory /\ Outcome(s.call) # NULL
          THEN Outcome(s.call) = "active"
          ELSE /\ d.memories[k] = "active"
               /\ ~(k \in s.conflicts /\ s.call.strategy = "supersede")
    /\ \A c \in Claim : e.claims[c].row.status = "accepted" =>
          \/ d.claims[c].row.status = "accepted"
          \/ /\ c \in DOMAIN s.moves /\ Activating(s) /\ MemoryOf(c) = s.call.memory
    /\ \A c \in Claim :
          c \in DOMAIN s.moves /\ Contested(s, c) => e.claims[c].row.status # "accepted"

LEMMA WrittenComes ==
    ASSUME NEW s, NEW d, Sane(d), SessionOK(s, d), s.at = "write", ~NumberUsed(d, s)
    PROVE  Comes(s, d, Written(d, s))
<1> DEFINE C == Moved(d, s)
           N == Decided(d, s)
           R == d.relations \cup Relations(s)
           e == Written(d, s)
           Differs(c) == \E i \in DOMAIN s.moves[c] :
                            s.moves[c][i].status # s.cached[c].status
<1>1. /\ s \in Session /\ Copied(s) /\ Ready(s, d) /\ s.call \in Call
      /\ d \in Database
    BY DEF SessionOK, Busied, Copied, Sane
<1>2. /\ DOMAIN s.moves \subseteq Claim
      /\ C \in [Claim -> {Absent} \cup ClaimRow]
      /\ \A c \in Claim \ DOMAIN s.moves : C[c] = d.claims[c]
      /\ \A c \in DOMAIN s.moves :
            /\ C[c] \in ClaimRow /\ Numbered(C[c])
            /\ Len(d.claims[c].versions) <= Len(C[c].versions)
            /\ Differs(c) => C[c].row.status = Last(s.moves[c]).status
            /\ ~Differs(c) => C[c].row.status = d.claims[c].row.status
    BY MovedFacts
<1>3. /\ N \in [Memory -> MemoryStatus]
      /\ \A k \in Memory : N[k] = "active" =>
            IF k = s.call.memory /\ Outcome(s.call) # NULL
            THEN Outcome(s.call) = "active"
            ELSE /\ d.memories[k] = "active"
                 /\ ~(k \in s.conflicts /\ s.call.strategy = "supersede")
    BY <1>1, DecidedFacts
<1>4. R \in SUBSET (Memory \X Memory \X {NULL, "supersede", "keep_both"})
    BY <1>1, RelationsType, SessionFacts, DatabaseHolds DEF Holds
<1> HIDE DEF C, N, R, Differs
<1>5. /\ e \in Database /\ e.claims = C /\ e.memories = N /\ e.possible = d.possible
    <2>1. e = [d EXCEPT !.claims = C, !.memories = N, !.relations = R]
        BY <1>1, DatabaseType DEF Written, C, N, R
    <2> HIDE DEF e
    <2> QED
        BY <1>1, <1>2, <1>3, <1>4, <2>1, DatabaseType
<1> HIDE DEF e
<1>6. Sane(e)
    BY <1>2, <1>5 DEF Sane
<1>7. Follows(d, e)
    <2>1. \A c \in DOMAIN s.moves : C[c] # Absent
        BY <1>2, AbsentIsNone
    <2>2. ASSUME NEW c \in Claim, d.claims[c] # Absent
          PROVE  /\ e.claims[c] # Absent
                 /\ Len(d.claims[c].versions) <= Len(e.claims[c].versions)
        <3>1. CASE c \in DOMAIN s.moves
            BY <1>2, <1>5, <2>1, <3>1
        <3>2. CASE c \notin DOMAIN s.moves
            <4>1. e.claims[c] = d.claims[c]
                BY <1>2, <1>5, <3>2
            <4>2. Len(d.claims[c].versions) \in Nat
                BY <1>1, <2>2, ClaimHolds
            <4> QED
                BY <2>2, <4>1, <4>2
        <3> QED
            BY <3>1, <3>2
    <2> QED
        BY <1>5, <2>2 DEF Follows
<1>8. ASSUME NEW c \in Claim, e.claims[c].row.status = "accepted"
      PROVE  \/ d.claims[c].row.status = "accepted"
             \/ /\ c \in DOMAIN s.moves /\ Activating(s) /\ MemoryOf(c) = s.call.memory
    <2>1. CASE c \notin DOMAIN s.moves
        BY <1>2, <1>5, <1>8, <2>1
    <2>2. CASE c \in DOMAIN s.moves
        BY <1>1, <1>2, <1>5, <1>8, <2>2 DEF Ready, Writes
    <2> QED
        BY <2>1, <2>2
<1>9. ASSUME NEW c \in Claim, c \in DOMAIN s.moves, Contested(s, c)
      PROVE  e.claims[c].row.status # "accepted"
    BY <1>2, <1>5, <1>9 DEF Contested, Differs
<1>10. \A k \in Memory : e.memories[k] = "active" =>
          IF k = s.call.memory /\ Outcome(s.call) # NULL
          THEN Outcome(s.call) = "active"
          ELSE /\ d.memories[k] = "active"
               /\ ~(k \in s.conflicts /\ s.call.strategy = "supersede")
    BY <1>3, <1>5
<1>11. Comes(s, d, e)
    BY <1>5, <1>6, <1>7, <1>8, <1>9, <1>10 DEF Comes
<1> QED
    BY <1>11 DEF e

-----------------------------------------------------------------------------
\* Contradictions nobody has noticed.

Undisputed(d) ==
    {x \in InForce(d, {m \in Memory : d.memories[m] = "active"}) :
        d.claims[x].row.status = "accepted"}

Silent(d, c, e) ==
    /\ c \in Undisputed(d) /\ e \in Undisputed(d)
    /\ MemoryOf(c) # MemoryOf(e) /\ Conflicting(d, c, e)

NoneSilent(d, pairs) ==
    \A c, e \in Claim : Silent(d, c, e) => {MemoryOf(c), MemoryOf(e)} \in pairs

LEMMA UndisputedFacts ==
    ASSUME NEW d, NEW c
    PROVE  c \in Undisputed(d) <=>
              /\ c \in Claim /\ d.claims[c].row.status = "accepted"
              /\ MemoryOf(c) \in Memory /\ d.memories[MemoryOf(c)] = "active"
BY DEF Undisputed, InForce

\* A call brings the claims of its memory in force beside a contradiction that
\* it has not looked at only when the one or the other has changed since.
LEMMA OwnPairIsSeen ==
    ASSUME NEW s, NEW b, NEW d, NEW e, NEW pairs, Sane(b), Sane(d), SessionOK(s, d),
           s.at = "write", d = b \/ s.call.op = "confirm",
           NoneSilent(b, pairs), Comes(s, d, e),
           NEW c \in Claim, NEW x \in Claim, Silent(e, c, x),
           MemoryOf(c) = s.call.memory
    PROVE  {MemoryOf(c), MemoryOf(x)} \in pairs \cup Overtaken(d, s)
<1> DEFINE m == s.call.memory
           k == MemoryOf(x)
<1>1. /\ s \in Session /\ Copied(s) /\ OwnKept(s, d) /\ OthersCompared(s, d)
      /\ Asked(s) /\ DisputesKept(s, d) /\ s.call \in Call /\ d \in Database
    BY DEF SessionOK, Busied, Copied, Sane
<1>2. /\ k # m /\ k \in Memory /\ m \in Memory
      /\ e.memories[m] = "active" /\ e.memories[k] = "active"
      /\ e.claims[c].row.status = "accepted" /\ e.claims[x].row.status = "accepted"
      /\ Conflicting(d, c, x)
    BY UndisputedFacts DEF Silent, Conflicting, Comes
<1>3. /\ d.memories[k] = "active" /\ d.claims[x].row.status = "accepted"
      /\ ~(k \in s.conflicts /\ s.call.strategy = "supersede")
    BY <1>2 DEF Comes
<1>4. CASE ~Activating(s)
    <2>1. d.claims[c].row.status = "accepted"
        BY <1>2, <1>4 DEF Comes
    <2>2. Outcome(s.call) # "active"
        BY <1>1, <1>4, ActiveOutcome
    <2>3. Outcome(s.call) = NULL /\ d.memories[m] = "active"
        BY <1>2, <2>2 DEF Comes
    <2>4. s.call.op # "confirm"
        <3>1. ASSUME s.call.op = "confirm" PROVE FALSE
            <4>1. Outcome(s.call) = "rejected"
                BY <1>1, <1>4, <3>1, ConfirmOutcome DEF Outcome
            <4> QED
                BY <2>3, <4>1, NullAssumption DEF MemoryStatus
        <3> QED
            BY <3>1
    <2>5. Silent(b, c, x)
        BY <1>2, <1>3, <2>1, <2>3, <2>4, UndisputedFacts DEF Silent
    <2> QED
        BY <2>5 DEF NoneSilent
<1>5. CASE Activating(s) /\ {m, k} \cap s.beside # {}
    <2> DEFINE rivals == InForce(d, Active(d, m))
    <2>1. x \in rivals
        BY <1>2, <1>3 DEF InForce, Active
    <2>2. k \in {y \in {MemoryOf(z) : z \in rivals} : {m, y} \cap s.beside # {}}
        BY <1>5, <2>1
    <2>3. Outcome(s.call) = "active"
        BY <1>5 DEF Activating
    <2>4. {m, k} \in Overtaken(d, s)
        BY <2>2, <2>3 DEF Overtaken
    <2> QED
        BY <2>4
<1>6. CASE Activating(s) /\ {m, k} \cap s.beside = {}
    <2>1. m \notin s.beside /\ k \notin s.beside
        BY <1>6
    <2>2. x \in Against(s, d)
        BY <1>2, <1>3, <2>1 DEF Against, InForce, Active
    <2>3. c \in s.own
        <3>1. CASE c \in DOMAIN s.moves
            BY <1>1, <1>6, <2>1, <3>1 DEF DisputesKept, Writes, Copied
        <3>2. CASE c \notin DOMAIN s.moves
            <4>1. d.claims[c].row.status = "accepted"
                BY <1>2, <3>2 DEF Comes
            <4>2. d.claims[c] # Absent
                BY <4>1 DEF Absent, Row
            <4>3. c \in LiveClaims(d, m)
                BY <4>1, <4>2 DEF LiveClaims, ClaimsOf
            <4> QED
                BY <1>1, <1>6, <2>1, <4>3 DEF OwnKept, Activating
        <3> QED
            BY <3>1, <3>2
    <2>4. k \in s.conflicts
        <3>1. Compared(s, d, c, x) /\ s.todo = {}
            BY <1>1, <1>6, <2>2, <2>3 DEF OthersCompared, Looked, Asked
        <3> QED
            BY <1>1, <1>2, <3>1, ConflictIsKnown
    <2>5. s.call.strategy # "supersede"
        BY <1>3, <2>4
    <2>6. Contested(s, c)
        BY <1>1, <1>2, <1>6, <2>1, <2>2, <2>3, <2>5 DEF DisputesKept, Writes
    <2>7. e.claims[c].row.status # "accepted"
        BY <2>6 DEF Comes, Contested
    <2> QED
        BY <1>2, <2>7
<1> QED
    BY <1>4, <1>5, <1>6

\* Every contradiction in force after a commit was there before it, or came
\* past the look of the call that commits.
LEMMA SilentIsOvertaken ==
    ASSUME NEW s, NEW b, NEW d, NEW e, NEW pairs, Sane(b), Sane(d), SessionOK(s, d),
           s.at = "write",
           d = b \/ s.call.op = "confirm", Grown(b, d, s.call.memory),
           NoneSilent(b, pairs), Comes(s, d, e)
    PROVE  NoneSilent(e, pairs \cup Overtaken(d, s))
<1> DEFINE m == s.call.memory
<1> SUFFICES ASSUME NEW c \in Claim, NEW x \in Claim, Silent(e, c, x)
             PROVE  {MemoryOf(c), MemoryOf(x)} \in pairs \cup Overtaken(d, s)
    BY DEF NoneSilent
<1>1. CASE MemoryOf(c) = m
    BY <1>1, OwnPairIsSeen
<1>2. CASE MemoryOf(x) = m
    <2>1. {c, x} = {x, c} /\ {MemoryOf(c), MemoryOf(x)} = {MemoryOf(x), MemoryOf(c)}
        OBVIOUS
    <2>2. Silent(e, x, c)
        BY <2>1 DEF Silent, Conflicting
    <2>3. {MemoryOf(x), MemoryOf(c)} \in pairs \cup Overtaken(d, s)
        BY <1>2, <2>2, OwnPairIsSeen
    <2> QED
        BY <2>1, <2>3
<1>3. CASE MemoryOf(c) # m /\ MemoryOf(x) # m
    <2>1. \A y \in {c, x} : y \in Undisputed(d)
        BY <1>3, UndisputedFacts DEF Silent, Comes
    <2>2. \A y \in {c, x} : y \in Undisputed(b)
        <3>1. \A y \in {c, x} : /\ d.claims[y] = b.claims[y]
                                /\ d.memories[MemoryOf(y)] = b.memories[MemoryOf(y)]
            BY <1>3 DEF Grown
        <3> QED
            BY <2>1, <3>1, UndisputedFacts
    <2>3. Conflicting(d, c, x)
        BY DEF Silent, Conflicting, Comes
    <2>4. Conflicting(b, c, x)
        <3>1. CASE {MemoryOf(c), MemoryOf(x)} \in Rival
            BY <3>1 DEF Conflicting
        <3>2. CASE {c, x} \in DOMAIN d.possible /\ d.possible[{c, x}] = "confirmed"
            <4>1. {c, x} \in DOMAIN b.possible
                BY <1>3, <3>2 DEF Grown
            <4> QED
                BY <3>2, <4>1 DEF Conflicting, Grown
        <3> QED
            BY <2>3, <3>1, <3>2 DEF Conflicting
    <2>5. Silent(b, c, x)
        BY <2>2, <2>4 DEF Silent
    <2> QED
        BY <2>5 DEF NoneSilent
<1> QED
    BY <1>1, <1>2, <1>3

-----------------------------------------------------------------------------
\* The steps.

LockInv ==
    /\ lock \in Process \cup {NULL}
    /\ lock = NULL => draft = NULL
    /\ lock # NULL => /\ Sane(draft) /\ session[lock].at # "idle"
                      /\ session[lock].call.op = "confirm"
                      /\ Grown(db, draft, session[lock].call.memory)

ServiceInv ==
    /\ Sane(db) /\ LockInv
    /\ session \in [Process -> Session]
    /\ \A p \in Process : SessionOK(session[p], Seen(p))
    /\ NoneSilent(db, blind)

LEMMA SilentFacts == OnlyOverlapIsSilent <=> NoneSilent(db, blind)
BY DEF OnlyOverlapIsSilent, NoneSilent, Silent, Undisputed, InForce

LEMMA GrownSame == ASSUME NEW d, NEW m PROVE Grown(d, d, m)
BY DEF Grown

LEMMA GrownOnce ==
    ASSUME NEW d, NEW e, NEW f, NEW m, Grown(d, e, m), Grown(e, f, m)
    PROVE  Grown(d, f, m)
BY DEF Grown

\* What a call sees is sane, and grown from the last commit.
LEMMA SeenFacts ==
    ASSUME ServiceInv, NEW p \in Process
    PROVE  /\ Sane(Seen(p)) /\ SessionOK(session[p], Seen(p))
           /\ (Seen(p) = db \/ session[p].call.op = "confirm")
           /\ Grown(db, Seen(p), session[p].call.memory)
<1>1. CASE lock = p
    <2>1. lock # NULL
        BY <1>1, NullAssumption
    <2> QED
        BY <1>1, <2>1 DEF ServiceInv, LockInv, Seen
<1>2. CASE lock # p
    <2>1. Seen(p) = db
        BY <1>2 DEF Seen
    <2>2. Sane(db) /\ SessionOK(session[p], Seen(p))
        BY DEF ServiceInv
    <2>3. Grown(db, db, session[p].call.memory)
        BY GrownSame
    <2> QED
        BY <2>1, <2>2, <2>3, Zenon
<1> QED
    BY <1>1, <1>2

\* A statement that only reads.
LEMMA ReadStep ==
    ASSUME ServiceInv, NEW p \in Process, NEW s, UNCHANGED <<tables, blind>>,
           Continue(p, s), SessionOK(s, Seen(p)), s.at # "idle",
           s.call = session[p].call \/ session[p].at = "idle"
    PROVE  ServiceInv'
<1>1. /\ db' = db /\ draft' = draft /\ lock' = lock /\ blind' = blind
      /\ session' = [session EXCEPT ![p] = s]
    BY DEF tables, Continue
<1>2. s \in Session /\ session \in [Process -> Session]
    BY DEF SessionOK, ServiceInv
<1>3. /\ session' \in [Process -> Session]
      /\ \A q \in Process : session'[q] = IF q = p THEN s ELSE session[q]
    BY <1>1, <1>2
<1>4. \A q \in Process : Seen(q)' = Seen(q)
    BY <1>1 DEF Seen
<1>5. Sane(db)' /\ NoneSilent(db, blind)'
    BY <1>1 DEF ServiceInv
<1>6. LockInv'
    BY <1>1, <1>3 DEF ServiceInv, LockInv
<1>7. \A q \in Process : SessionOK(session[q], Seen(q))'
    BY <1>3, <1>4 DEF ServiceInv
<1> QED
    BY <1>3, <1>5, <1>6, <1>7 DEF ServiceInv

\* A statement that writes: the first one takes the lock.
LEMMA FlushStep ==
    ASSUME ServiceInv, NEW p \in Process, NEW s, NEW d, Flush(p, d), blind' = blind,
           Continue(p, s), SessionOK(s, d), s.at # "idle",
           s.call = session[p].call, s.call.op = "confirm",
           Sane(d), Grown(Seen(p), d, s.call.memory)
    PROVE  ServiceInv'
<1>1. /\ db' = db /\ draft' = d /\ lock' = p /\ lock \in {NULL, p}
      /\ session' = [session EXCEPT ![p] = s]
    BY DEF Flush, MayWrite, Continue
<1>2. s \in Session /\ session \in [Process -> Session]
    BY DEF SessionOK, ServiceInv
<1>3. /\ session' \in [Process -> Session]
      /\ \A q \in Process : session'[q] = IF q = p THEN s ELSE session[q]
    BY <1>1, <1>2
<1>4. \A q \in Process : Seen(q)' = IF q = p THEN d ELSE Seen(q)
    BY <1>1, NullAssumption DEF Seen
<1>5. Sane(db)' /\ NoneSilent(db, blind)'
    BY <1>1 DEF ServiceInv
<1>6. LockInv'
    <2>1. Grown(db, d, s.call.memory)
        BY SeenFacts, GrownOnce
    <2> QED
        BY <1>1, <1>3, <2>1, NullAssumption DEF LockInv
<1>7. \A q \in Process : SessionOK(session[q], Seen(q))'
    BY <1>3, <1>4 DEF ServiceInv
<1> QED
    BY <1>3, <1>5, <1>6, <1>7 DEF ServiceInv

\* An exception gives back the lock and drops what the call has flushed.
LEMMA RollbackStep ==
    ASSUME ServiceInv, NEW p \in Process, Rollback(p)
    PROVE  ServiceInv'
<1>1. /\ db' = db /\ blind' = blind
      /\ draft' = IF lock = p THEN NULL ELSE draft
      /\ lock' = IF lock = p THEN NULL ELSE lock
      /\ session' = [session EXCEPT ![p] = Idle]
    BY DEF Rollback, Continue
<1>2. session \in [Process -> Session]
    BY DEF ServiceInv
<1>3. /\ session' \in [Process -> Session]
      /\ \A q \in Process : session'[q] = IF q = p THEN Idle ELSE session[q]
    BY <1>1, <1>2, IdleIsSession
<1>4. \A q \in Process : q # p => Seen(q)' = Seen(q)
    BY <1>1, NullAssumption DEF Seen
<1>5. Sane(db)' /\ NoneSilent(db, blind)'
    BY <1>1 DEF ServiceInv
<1>6. LockInv'
    <2>1. CASE lock = p
        BY <1>1, <2>1 DEF LockInv
    <2>2. CASE lock # p
        BY <1>1, <1>3, <2>2 DEF ServiceInv, LockInv
    <2> QED
        BY <2>1, <2>2
<1>7. \A q \in Process : SessionOK(session[q], Seen(q))'
    <2> SUFFICES ASSUME NEW q \in Process PROVE SessionOK(session'[q], Seen(q)')
        OBVIOUS
    <2>1. CASE q = p
        BY <1>3, <2>1, IdleIsOK
    <2>2. CASE q # p
        BY <1>3, <1>4, <2>2 DEF ServiceInv
    <2> QED
        BY <2>1, <2>2
<1> QED
    BY <1>3, <1>5, <1>6, <1>7 DEF ServiceInv

LEMMA WriteStep ==
    ASSUME ServiceInv, NEW p \in Process, Write(p)
    PROVE  ServiceInv'
<1> DEFINE s == session[p]
           d == Seen(p)
           e == Written(d, s)
<1>1. CASE NumberUsed(d, s) \/ Relations(s) \cap d.relations # {}
    <2>1. Rollback(p)
        BY <1>1 DEF Write
    <2> QED
        BY <2>1, RollbackStep
<1>2. CASE ~(NumberUsed(d, s) \/ Relations(s) \cap d.relations # {})
    <2>1. /\ s.at = "write" /\ lock \in {NULL, p}
          /\ db' = e /\ lock' = NULL /\ draft' = NULL
          /\ blind' = blind \cup Overtaken(d, s)
          /\ session' = [q \in Process |->
                 IF q = p THEN Idle ELSE Passed(session[q], Changed(db, e))]
        BY <1>2 DEF Write, Commit, MayWrite, At
    <2>2. /\ Sane(d) /\ SessionOK(s, d)
          /\ d = db \/ s.call.op = "confirm"
          /\ Grown(db, d, s.call.memory)
        BY SeenFacts
    <2> HIDE DEF s, d
    <2>3. Comes(s, d, e)
        BY <1>2, <2>1, <2>2, WrittenComes
    <2> HIDE DEF e
    <2>4. Sane(e) /\ Sane(db) /\ NoneSilent(db, blind)
        BY <2>3 DEF Comes, ServiceInv
    <2>5. Follows(db, e)
        <3>1. ASSUME NEW c \in Claim, db.claims[c] # Absent
              PROVE  /\ e.claims[c] # Absent
                     /\ Len(db.claims[c].versions) <= Len(e.claims[c].versions)
            <4>1. d.claims[c] = db.claims[c]
                BY <2>2, <3>1 DEF Grown
            <4> QED
                BY <2>3, <3>1, <4>1 DEF Comes, Follows
        <3>2. ASSUME NEW pair \in DOMAIN db.possible
              PROVE  pair \in DOMAIN e.possible /\ e.possible[pair] = db.possible[pair]
            BY <2>2, <2>3 DEF Grown, Comes, Follows
        <3> QED
            BY <3>1, <3>2 DEF Follows
    <2>6. NoneSilent(e, blind \cup Overtaken(d, s))
        BY <2>1, <2>2, <2>3, <2>4, SilentIsOvertaken
    <2>7. \A q \in Process : q # p => Seen(q) = db
        BY <2>1, NullAssumption DEF Seen
    <2>8. \A q \in Process : Seen(q)' = e
        BY <2>1, NullAssumption DEF Seen
    <2>9. Changed(db, e) \in SUBSET Memory
        BY DEF Changed
    <2>10. session' \in [Process -> Session]
        <3>1. \A q \in Process : session[q] \in Session
            BY DEF ServiceInv
        <3>2. \A q \in Process : Passed(session[q], Changed(db, e)) \in Session
            BY <2>9, <3>1, PassedFacts
        <3> QED
            BY <2>1, <3>2, IdleIsSession
    <2>11. LockInv'
        BY <2>1 DEF LockInv
    <2>12. \A q \in Process : SessionOK(session[q], Seen(q))'
        <3> SUFFICES ASSUME NEW q \in Process PROVE SessionOK(session'[q], Seen(q)')
            OBVIOUS
        <3>1. CASE q = p
            BY <2>1, <2>8, <3>1, IdleIsOK
        <3>2. CASE q # p
            <4>1. SessionOK(session[q], db)
                BY <2>7, <3>2 DEF ServiceInv
            <4>2. SessionOK(Passed(session[q], Changed(db, e)), e)
                BY <2>4, <2>5, <4>1, PassedIsOK
            <4> QED
                BY <2>1, <2>8, <3>2, <4>2
        <3> QED
            BY <3>1, <3>2
    <2> QED
        BY <2>1, <2>4, <2>6, <2>10, <2>11, <2>12 DEF ServiceInv
<1> QED
    BY <1>1, <1>2

-----------------------------------------------------------------------------
\* The actions.

LEMMA BeginStep ==
    ASSUME ServiceInv, NEW p \in Process, NEW call \in Call, Begin(p, call)
    PROVE  ServiceInv'
<1> DEFINE s == [Idle EXCEPT !.at = IF call.op = "confirm" THEN "gather" ELSE "rows",
                             !.call = call]
<1>1. /\ session[p].at = "idle" /\ UNCHANGED <<tables, blind>> /\ Continue(p, s)
    BY DEF Begin, At
<1>2. SessionOK(s, Seen(p))
    BY BegunIsOK
<1>3. s.at # "idle"
    BY DEF Idle
<1> HIDE DEF s
<1> QED
    BY <1>1, <1>2, <1>3, ReadStep

\* ensure_claims finds the live claims or makes one.
LEMMA EnsureCases ==
    ASSUME ServiceInv, NEW p \in Process, session[p].call \in Call,
           NEW status \in {"candidate", "accepted"},
           NEW R, R = LiveClaims(Seen(p), M(p))
    PROVE  LET d == Seen(p)
               m == session[p].call.memory
           IN  /\ R # {} =>
                     /\ R \in SUBSET Claim
                     /\ [c \in R |-> d.claims[c].row] \in Partial(Fields)
                     /\ DOMAIN [c \in R |-> d.claims[c].row] = R
               /\ R = {} => \A new \in NextClaim(d, m) :
                     LET e == Extracted(d, new, status)
                         rows == [c \in {new} |-> FirstVersion(status).row]
                     IN  /\ Sane(e) /\ Grown(d, e, m) /\ LiveClaims(e, m) = {new}
                         /\ rows \in Partial(Fields) /\ DOMAIN rows = {new}
                         /\ {new} \in SUBSET Claim
<1> DEFINE d == Seen(p)
           m == session[p].call.memory
<1>1. Sane(d) /\ d \in Database /\ m \in Memory
    BY SeenFacts, CallMemory DEF Sane
<1> HIDE DEF d
<1>2. R = LiveClaims(d, m)
    BY DEF M, d
<1> HIDE DEF m
<1>3. ASSUME R # {}
      PROVE  /\ R \in SUBSET Claim
             /\ [c \in R |-> d.claims[c].row] \in Partial(Fields)
             /\ DOMAIN [c \in R |-> d.claims[c].row] = R
    <2> DEFINE rows == [c \in R |-> d.claims[c].row]
    <2>1. \A c \in R : c \in Claim /\ d.claims[c].row \in Fields
        BY <1>1, <1>2, ClaimHolds DEF LiveClaims, ClaimsOf
    <2>2. rows \in [R -> Fields] /\ DOMAIN rows = R /\ R \in SUBSET Claim
        BY <2>1
    <2> HIDE DEF rows
    <2>3. rows \in Partial(Fields)
        BY <2>2, PartialFacts
    <2> QED
        BY <2>2, <2>3 DEF rows
<1>4. ASSUME R = {}, NEW new \in NextClaim(d, m)
      PROVE  LET e == Extracted(d, new, status)
                 rows == [c \in {new} |-> FirstVersion(status).row]
             IN  /\ Sane(e) /\ Grown(d, e, m) /\ LiveClaims(e, m) = {new}
                 /\ rows \in Partial(Fields) /\ DOMAIN rows = {new}
                 /\ {new} \in SUBSET Claim
    <2> DEFINE e == Extracted(d, new, status)
               rows == [c \in {new} |-> FirstVersion(status).row]
    <2>1. /\ Sane(e) /\ Grown(d, e, m) /\ LiveClaims(e, m) = {new} /\ new \in Claim
        <3>1. LiveClaims(d, m) = {}
            BY <1>2, <1>4
        <3> QED
            BY <1>1, <1>4, <3>1, ExtractionAdds
    <2>2. FirstVersion(status).row \in Fields
        BY FirstVersionSane
    <2>3. rows \in [{new} -> Fields] /\ DOMAIN rows = {new} /\ {new} \in SUBSET Claim
        BY <2>1, <2>2
    <2> HIDE DEF rows
    <2>4. rows \in Partial(Fields)
        BY <2>3, PartialFacts
    <2> QED
        BY <2>1, <2>3, <2>4 DEF rows
<1> QED
    BY <1>3, <1>4 DEF d, m

LEMMA GatherStep ==
    ASSUME ServiceInv, NEW p \in Process, Gather(p)
    PROVE  ServiceInv'
<1> DEFINE s == session[p]
           d == Seen(p)
           m == session[p].call.memory
           R == LiveClaims(d, m)
           t(S) == [s EXCEPT !.at = "compare", !.own = S]
<1>1. /\ SessionOK(s, d) /\ s.at = "gather" /\ s \in Session
      /\ s.call \in Call /\ s.call.op = "confirm"
    BY SeenFacts DEF Gather, At, SessionOK, Busied, Copied, Deciding
<1>2. \/ /\ R # {} /\ UNCHANGED tables
         /\ Continue(p, t(DOMAIN [c \in R |-> d.claims[c].row]))
      \/ /\ R = {}
         /\ \E new \in NextClaim(d, m) :
               /\ Flush(p, Extracted(d, new, "candidate"))
               /\ Continue(p, t(DOMAIN [c \in {new} |-> FirstVersion("candidate").row]))
    BY DEF Gather, Ensure, M, Extracted
<1>3. blind' = blind
    BY DEF Gather, Ensure
<1>4. \A S \in SUBSET Claim : t(S).at = "compare" /\ t(S).call = s.call
    BY <1>1 DEF Session
<1>5. CASE R # {} /\ UNCHANGED tables
           /\ Continue(p, t(DOMAIN [c \in R |-> d.claims[c].row]))
    <2> DEFINE rows == [c \in R |-> d.claims[c].row]
    <2>1. R \in SUBSET Claim /\ DOMAIN rows = R
        <3>1. "candidate" \in {"candidate", "accepted"} /\ R = LiveClaims(Seen(p), M(p))
            BY DEF M
        <3>2. rows \in Partial(Fields) /\ DOMAIN rows = R
            <4> HIDE DEF R
            <4> QED
                BY <1>1, <1>5, <3>1, EnsureCases
        <3> HIDE DEF rows, R
        <3> QED
            BY <3>2, PartialFacts
    <2>2. SessionOK(t(R), d)
        BY <1>1, <1>5, <2>1, GatheredIsOK
    <2> DEFINE u == t(R)
    <2>3. Continue(p, u) /\ SessionOK(u, Seen(p)) /\ u.at # "idle" /\ u.call = session[p].call
        BY <1>4, <1>5, <2>1, <2>2
    <2> HIDE DEF u
    <2> QED
        BY <1>3, <1>5, <2>3, ReadStep
<1>6. ASSUME R = {}, NEW new \in NextClaim(d, m),
             Flush(p, Extracted(d, new, "candidate")),
             Continue(p, t(DOMAIN [c \in {new} |-> FirstVersion("candidate").row]))
      PROVE  ServiceInv'
    <2> DEFINE e == Extracted(d, new, "candidate")
               u == t({new})
    <2>1. /\ Sane(e) /\ Grown(d, e, m) /\ LiveClaims(e, m) = {new}
          /\ DOMAIN [c \in {new} |-> FirstVersion("candidate").row] = {new}
          /\ {new} \in SUBSET Claim
        BY <1>1, <1>6, EnsureCases DEF M
    <2>2. SessionOK(u, e)
        BY <1>1, <2>1, GatheredIsOK
    <2>3. /\ Continue(p, u) /\ u.at # "idle" /\ u.call = session[p].call
          /\ u.call.op = "confirm" /\ Flush(p, e)
          /\ Sane(e) /\ Grown(Seen(p), e, u.call.memory)
        BY <1>1, <1>4, <1>6, <2>1
    <2> HIDE DEF u, e
    <2> QED
        BY <1>3, <2>2, <2>3, FlushStep
<1> QED
    BY <1>2, <1>5, <1>6

LEMMA OwnStep ==
    ASSUME ServiceInv, NEW p \in Process, Own(p)
    PROVE  ServiceInv'
<1> DEFINE s == session[p]
           d == Seen(p)
           m == session[p].call.memory
           R == LiveClaims(d, m)
           t(rows) == [s EXCEPT !.at = "others", !.cached = rows]
<1>1. /\ SessionOK(s, d) /\ s.at = "own" /\ s \in Session
      /\ s.call \in Call /\ s.call.op = "confirm"
    BY SeenFacts DEF Own, At, SessionOK, Busied, Copied, Activating
<1>2. \/ /\ R # {} /\ UNCHANGED tables
         /\ Continue(p, t([c \in R |-> d.claims[c].row]))
      \/ /\ R = {}
         /\ \E new \in NextClaim(d, m) :
               /\ Flush(p, Extracted(d, new, "accepted"))
               /\ Continue(p, t([c \in {new} |-> FirstVersion("accepted").row]))
    BY DEF Own, Ensure, M, Extracted
<1>3. blind' = blind
    BY DEF Own, Ensure
<1>4. \A rows \in Partial(Fields) : t(rows).at = "others" /\ t(rows).call = s.call
    BY <1>1 DEF Session
<1>5. CASE R # {} /\ UNCHANGED tables /\ Continue(p, t([c \in R |-> d.claims[c].row]))
    <2> DEFINE rows == [c \in R |-> d.claims[c].row]
               u == t(rows)
    <2>1. rows \in Partial(Fields) /\ DOMAIN rows = R
        <3>1. "accepted" \in {"candidate", "accepted"} /\ R = LiveClaims(Seen(p), M(p))
            BY DEF M
        <3> HIDE DEF R
        <3> QED
            BY <1>1, <1>5, <3>1, EnsureCases
    <2>2. Continue(p, u)
        BY <1>5
    <2>3. u.at # "idle" /\ u.call = session[p].call
        BY <1>4, <2>1
    <2>4. SessionOK(u, d)
        <3>1. Grown(d, d, m)
            BY GrownSame
        <3> HIDE DEF rows
        <3> QED
            BY <1>1, <1>5, <2>1, <3>1, OwnedIsOK
    <2> HIDE DEF u
    <2> QED
        BY <1>3, <1>5, <2>2, <2>3, <2>4, ReadStep
<1>6. ASSUME R = {}, NEW new \in NextClaim(d, m),
             Flush(p, Extracted(d, new, "accepted")),
             Continue(p, t([c \in {new} |-> FirstVersion("accepted").row]))
      PROVE  ServiceInv'
    <2> DEFINE e == Extracted(d, new, "accepted")
               rows == [c \in {new} |-> FirstVersion("accepted").row]
               u == t(rows)
    <2>1. /\ Sane(e) /\ Grown(d, e, m) /\ LiveClaims(e, m) = {new}
          /\ rows \in Partial(Fields) /\ DOMAIN rows = {new}
        BY <1>1, <1>6, EnsureCases DEF M
    <2>2. SessionOK(u, e)
        <3> HIDE DEF rows, e
        <3> QED
            BY <1>1, <1>6, <2>1, OwnedIsOK
    <2>3. /\ Continue(p, u) /\ u.at # "idle" /\ u.call = session[p].call
          /\ u.call.op = "confirm" /\ Flush(p, e)
          /\ Sane(e) /\ Grown(Seen(p), e, u.call.memory)
        BY <1>1, <1>4, <1>6, <2>1
    <2> HIDE DEF u, e
    <2> QED
        BY <1>3, <2>2, <2>3, FlushStep
<1> QED
    BY <1>2, <1>5, <1>6

LEMMA CompareStep ==
    ASSUME ServiceInv, NEW p \in Process, Compare(p)
    PROVE  ServiceInv'
<1> DEFINE s == session[p]
           d == Seen(p)
           t == ComparedWith(s, d)
<1>1. SessionOK(s, d) /\ s.at = "compare" /\ s \in Session
    BY SeenFacts DEF Compare, At, SessionOK
<1>2. Continue(p, t) /\ UNCHANGED <<tables, blind>>
    BY DEF Compare, ComparedWith, Rivals, M
<1>3. SessionOK(t, d)
    BY <1>1, ComparedIsOK
<1>4. t.at = "judge" /\ t.call = s.call
    BY <1>1 DEF ComparedWith, Session
<1> HIDE DEF t
<1> QED
    BY <1>2, <1>3, <1>4, ReadStep

LEMMA AnswerIsSession ==
    ASSUME NEW s \in Session, NEW pair, NEW verdict
    PROVE  LET t == AnswerTo(s, pair, verdict)
           IN  t.at = "judge" /\ t.call = s.call
BY DEF AnswerTo, Session

LEMMA JudgeStep ==
    ASSUME ServiceInv, NEW p \in Process, Judge(p)
    PROVE  ServiceInv'
<1> DEFINE s == session[p]
           d == Seen(p)
<1>1. SessionOK(s, d) /\ s.at = "judge" /\ s \in Session
    BY SeenFacts DEF Judge, At, SessionOK
<1>2. PICK pair \in s.todo, verdict \in Verdict :
          Continue(p, IF pair \in DOMAIN d.possible
                      THEN AnswerTo(s, pair, d.possible[pair])
                      ELSE [s EXCEPT !.at = "note", !.note = <<pair, verdict>>])
    BY DEF Judge, Answered, AnswerTo, OtherOf, M
<1>3. UNCHANGED <<tables, blind>>
    BY DEF Judge
<1>4. CASE pair \in DOMAIN d.possible
    <2> DEFINE t == AnswerTo(s, pair, d.possible[pair])
    <2>1. MoreAnswers(d, d)
        BY DEF MoreAnswers
    <2>2. SessionOK(t, d)
        BY <1>1, <1>4, <2>1, AnsweredIsOK
    <2>3. Continue(p, t) /\ t.at = "judge" /\ t.call = s.call
        BY <1>1, <1>2, <1>4, AnswerIsSession
    <2> HIDE DEF t
    <2> QED
        BY <1>3, <2>2, <2>3, ReadStep
<1>5. CASE pair \notin DOMAIN d.possible
    <2> DEFINE t == [s EXCEPT !.at = "note", !.note = <<pair, verdict>>]
    <2>1. SessionOK(t, d)
        BY <1>1, AskedIsOK
    <2>2. Continue(p, t)
        BY <1>2, <1>5
    <2>3. t.at = "note" /\ t.call = s.call
        BY <1>1 DEF Session
    <2> HIDE DEF t
    <2> QED
        BY <1>3, <2>1, <2>2, <2>3, ReadStep
<1> QED
    BY <1>4, <1>5

\* The answers once one more is stored.
OneMore(rows, pair, verdict) ==
    [x \in DOMAIN rows \cup {pair} |-> IF x = pair THEN verdict ELSE rows[x]]

LEMMA OneMoreFacts ==
    ASSUME NEW d, Sane(d), NEW pair \in Pairs, NEW verdict \in Verdict,
           pair \notin DOMAIN d.possible, NEW m, \E c \in pair : MemoryOf(c) = m
    PROVE  LET e == [d EXCEPT !.possible = OneMore(d.possible, pair, verdict)]
           IN  /\ Sane(e) /\ MoreAnswers(d, e) /\ Grown(d, e, m)
               /\ pair \in DOMAIN e.possible /\ e.possible[pair] = verdict
<1> DEFINE P == OneMore(d.possible, pair, verdict)
           e == [d EXCEPT !.possible = P]
<1>1. d \in Database /\ Holds(d)
    BY DatabaseHolds DEF Sane
<1>2. DOMAIN d.possible \subseteq Pairs /\ d.possible \in [DOMAIN d.possible -> Verdict]
    BY <1>1 DEF Holds
<1>3. /\ DOMAIN P = DOMAIN d.possible \cup {pair}
      /\ P \in [DOMAIN P -> Verdict]
      /\ P[pair] = verdict
      /\ \A x \in DOMAIN d.possible : P[x] = d.possible[x]
    BY <1>2 DEF OneMore
<1> HIDE DEF P
<1>4. P \in Possible
    BY <1>2, <1>3, PossibleFacts
<1>5. /\ e \in Database /\ e.possible = P /\ e.memories = d.memories
      /\ e.claims = d.claims /\ e.relations = d.relations
    BY <1>1, <1>4, WithPossible
<1> HIDE DEF e
<1>6. Sane(e)
    BY <1>5 DEF Sane
<1>7. MoreAnswers(d, e)
    BY <1>3, <1>5 DEF MoreAnswers
<1>8. Grown(d, e, m)
    BY <1>3, <1>5 DEF Grown
<1> QED
    BY <1>3, <1>5, <1>6, <1>7, <1>8 DEF e, P

LEMMA NoteStep ==
    ASSUME ServiceInv, NEW p \in Process, Note(p)
    PROVE  ServiceInv'
<1> DEFINE s == session[p]
           d == Seen(p)
           pair == s.note[1]
           verdict == s.note[2]
           e == [d EXCEPT !.possible = OneMore(d.possible, pair, verdict)]
           t == AnswerTo(s, pair, verdict)
<1>1. /\ SessionOK(s, d) /\ s.at = "note" /\ s \in Session /\ Sane(d)
      /\ Copied(s)
    BY SeenFacts DEF Note, At, SessionOK, Busied
<1>2. /\ s.note \in s.todo \X Verdict /\ s.call.op = "confirm"
      /\ \A x \in s.todo : \E c \in x : MemoryOf(c) = s.call.memory
    BY <1>1 DEF Copied, Deciding
<1>3. CASE pair \in DOMAIN d.possible
    <2>1. Rollback(p)
        BY <1>3 DEF Note
    <2> QED
        BY <2>1, RollbackStep
<1>4. CASE pair \notin DOMAIN d.possible
    <2>1. Flush(p, e) /\ Continue(p, t) /\ blind' = blind
        BY <1>4 DEF Note, OneMore, Answered, AnswerTo, OtherOf, M
    <2>2. pair \in s.todo /\ verdict \in Verdict /\ pair \in Pairs
        BY <1>1, <1>2, SessionFacts
    <2>3. t.at = "judge" /\ t.call = s.call
        BY <1>1, AnswerIsSession
    <2> HIDE DEF pair, verdict
    <2>4. /\ Sane(e) /\ MoreAnswers(d, e) /\ Grown(d, e, s.call.memory)
          /\ pair \in DOMAIN e.possible /\ e.possible[pair] = verdict
        <3>1. \E c \in pair : MemoryOf(c) = s.call.memory
            BY <1>2, <2>2
        <3> DEFINE m == s.call.memory
        <3>2. Sane(d) /\ pair \notin DOMAIN d.possible /\ \E c \in pair : MemoryOf(c) = m
            BY <1>1, <1>4, <3>1
        <3> HIDE DEF m, d
        <3>3. /\ Sane(e) /\ MoreAnswers(d, e) /\ Grown(d, e, m)
              /\ pair \in DOMAIN e.possible /\ e.possible[pair] = verdict
            BY ONLY <2>2, <3>2, OneMoreFacts
        <3> QED
            BY <3>3 DEF m
    <2> HIDE DEF e
    <2>5. SessionOK(t, e)
        BY <1>1, <2>2, <2>4, AnsweredIsOK
    <2>6. t.at # "idle" /\ t.call.op = "confirm" /\ Grown(Seen(p), e, t.call.memory)
        BY <1>2, <2>3, <2>4
    <2> HIDE DEF t
    <2> QED
        BY <2>1, <2>3, <2>4, <2>5, <2>6, FlushStep
<1> QED
    BY <1>3, <1>4

LEMMA DecideStep ==
    ASSUME ServiceInv, NEW p \in Process, Decide(p)
    PROVE  ServiceInv'
<1> DEFINE s == session[p]
           t == [s EXCEPT !.at = IF s.call.strategy = "reject" THEN "rows" ELSE "own"]
<1>1. SessionOK(s, Seen(p)) /\ s.at = "judge" /\ s.todo = {} /\ s \in Session
    BY SeenFacts DEF Decide, At, SessionOK
<1>2. CASE s.conflicts # {} /\ s.call.strategy = NULL
    <2>1. Rollback(p)
        BY <1>2 DEF Decide
    <2> QED
        BY <2>1, RollbackStep
<1>3. CASE ~(s.conflicts # {} /\ s.call.strategy = NULL)
    <2>1. Continue(p, t) /\ UNCHANGED <<tables, blind>>
        BY <1>3 DEF Decide
    <2>2. SessionOK(t, Seen(p))
        BY <1>1, DecidedIsOK
    <2>3. t.at # "idle" /\ t.call = s.call
        BY <1>1 DEF Session
    <2> HIDE DEF t
    <2> QED
        BY <2>1, <2>2, <2>3, ReadStep
<1> QED
    BY <1>2, <1>3

LEMMA OthersStep ==
    ASSUME ServiceInv, NEW p \in Process, Others(p)
    PROVE  ServiceInv'
<1> DEFINE s == session[p]
           d == Seen(p)
           u == OthersSession(s, d)
           path == OthersPaths(s, d)
           t == Planned(u, path)
<1>1. SessionOK(s, d) /\ s.at = "others" /\ s \in Session /\ Sane(d)
    BY SeenFacts DEF Others, At, SessionOK
<1>2. Continue(p, t) /\ UNCHANGED <<tables, blind>>
    BY DEF Others, OthersSession, OthersPaths, Disputes
<1>3. SessionOK(t, d)
    BY <1>1, PlannedActivationIsOK
<1>4. u.call = s.call
    BY <1>1 DEF OthersSession, Session
<1>5. t.at # "idle" /\ t.call = u.call
    BY DEF Planned
<1> HIDE DEF t, u
<1> QED
    BY <1>2, <1>3, <1>4, <1>5, ReadStep

LEMMA RowsStep ==
    ASSUME ServiceInv, NEW p \in Process, Rows(p)
    PROVE  ServiceInv'
<1> DEFINE s == session[p]
           d == Seen(p)
           u == RowsSession(s, d)
           path == RowsPaths(s, d)
           t == Planned(u, path)
<1>1. SessionOK(s, d) /\ s.at = "rows" /\ s \in Session /\ Sane(d)
    BY SeenFacts DEF Rows, At, SessionOK
<1>2. Continue(p, t) /\ UNCHANGED <<tables, blind>>
    BY DEF Rows, RowsSession, RowsPaths, M
<1>3. SessionOK(t, d)
    BY <1>1, PlannedRemovalIsOK
<1>4. u.call = s.call
    BY <1>1 DEF RowsSession, Session
<1>5. t.at # "idle" /\ t.call = u.call
    BY DEF Planned
<1> HIDE DEF t, u
<1> QED
    BY <1>2, <1>3, <1>4, <1>5, ReadStep

LEMMA CurrentStep ==
    ASSUME ServiceInv, NEW p \in Process, Current(p)
    PROVE  ServiceInv'
<1> DEFINE s == session[p]
           d == Seen(p)
           t == [s EXCEPT !.at = "number",
                          !.current = OpenVersion(d.claims[First(s)].versions)]
<1>1. SessionOK(s, d) /\ s.at = "current" /\ s \in Session /\ Sane(d)
    BY SeenFacts DEF Current, At, SessionOK
<1>2. Continue(p, t) /\ UNCHANGED <<tables, blind>>
    BY DEF Current
<1>3. SessionOK(t, d)
    BY <1>1, CurrentIsOK
<1>4. t.at # "idle" /\ t.call = s.call
    BY <1>1 DEF Session
<1> HIDE DEF t
<1> QED
    BY <1>2, <1>3, <1>4, ReadStep

LEMMA NumberStep ==
    ASSUME ServiceInv, NEW p \in Process, Number(p)
    PROVE  ServiceInv'
<1> DEFINE s == session[p]
           d == Seen(p)
           t == [s EXCEPT !.at = "write",
                          !.number = NextNumber(d.claims[First(s)].versions)]
<1>1. SessionOK(s, d) /\ s.at = "number" /\ s \in Session /\ Sane(d)
    BY SeenFacts DEF Number, At, SessionOK
<1>2. Continue(p, t) /\ UNCHANGED <<tables, blind>>
    BY DEF Number
<1>3. SessionOK(t, d)
    BY <1>1, NumberIsOK
<1>4. t.at # "idle" /\ t.call = s.call
    BY <1>1 DEF Session
<1> HIDE DEF t
<1> QED
    BY <1>2, <1>3, <1>4, ReadStep

LEMMA BusyStep ==
    ASSUME ServiceInv, NEW p \in Process, Busy(p)
    PROVE  ServiceInv'
BY RollbackStep DEF Busy

LEMMA ServiceStep == ServiceInv /\ [Next]_vars => ServiceInv'
<1> SUFFICES ASSUME ServiceInv, [Next]_vars PROVE ServiceInv'
    OBVIOUS
<1>1. ASSUME NEW p \in Process, Step(p) PROVE ServiceInv'
    BY <1>1, GatherStep, CompareStep, JudgeStep, NoteStep, DecideStep, OwnStep,
       OthersStep, RowsStep, CurrentStep, NumberStep, WriteStep, BusyStep DEF Step
<1>2. ASSUME NEW p \in Process, NEW call \in Call, Begin(p, call) PROVE ServiceInv'
    BY <1>2, BeginStep
<1>3. CASE UNCHANGED vars
    <2>1. /\ db' = db /\ draft' = draft /\ lock' = lock
          /\ session' = session /\ blind' = blind
        BY <1>3 DEF vars, tables
    <2>2. \A p \in Process : Seen(p)' = Seen(p)
        BY <2>1 DEF Seen
    <2> QED
        BY <2>1, <2>2 DEF ServiceInv, LockInv
<1> QED
    BY <1>1, <1>2, <1>3 DEF Next

\* The first claims of the memories are candidates of one version each.
LEMMA ServiceInit == Init => ServiceInv
<1> SUFFICES ASSUME Init PROVE ServiceInv
    OBVIOUS
<1> DEFINE C == [c \in Claim |-> IF c[2] = 1 THEN FirstVersion("candidate") ELSE Absent]
           W == [m \in Memory |-> "candidate"]
<1>1. /\ db = [memories |-> W, claims |-> C, possible |-> << >>, relations |-> {}]
      /\ draft = NULL /\ lock = NULL /\ blind = {}
      /\ session = [p \in Process |-> Idle]
    BY DEF Init
<1>2. C \in [Claim -> {Absent} \cup ClaimRow]
    BY FirstVersionSane
<1>3. \A c \in Claim : C[c] = FirstVersion("candidate") \/ C[c] = Absent
    OBVIOUS
<1>4. W \in [Memory -> MemoryStatus]
    BY DEF MemoryStatus
<1>5. << >> \in Possible
    <2>1. << >> \in [DOMAIN << >> -> Verdict] /\ DOMAIN << >> \subseteq Pairs
        <3>1. DOMAIN << >> = {}
            OBVIOUS
        <3>2. << >> \in Seq(Verdict)
            OBVIOUS
        <3> QED
            BY <3>1, <3>2
    <2> QED
        BY <2>1, PossibleFacts
<1> HIDE DEF C, W
<1>6. /\ db \in Database /\ db.claims = C /\ db.memories = W
    BY <1>1, <1>2, <1>4, <1>5, DatabaseType
<1>7. Numbered(Absent)
    BY DEF Numbered, Absent
<1>8. Sane(db)
    BY <1>3, <1>6, <1>7, FirstVersionSane DEF Sane
<1>9. LockInv
    BY <1>1 DEF LockInv
<1>10. /\ session \in [Process -> Session]
       /\ \A p \in Process : SessionOK(session[p], Seen(p))
    BY <1>1, IdleIsSession, IdleIsOK
<1>11. NoneSilent(db, blind)
    <2>1. \A m \in Memory : db.memories[m] # "active"
        BY <1>6 DEF W
    <2> QED
        BY <2>1, ClaimMemory DEF NoneSilent, Silent, Undisputed, InForce
<1> QED
    BY <1>8, <1>9, <1>10, <1>11 DEF ServiceInv

\* The invariant holds whatever the calls of the processes are.
THEOREM ServiceAlways == Spec => []ServiceInv
<1>1. Init => ServiceInv
    BY ServiceInit
<1>2. ServiceInv /\ [Next]_vars => ServiceInv'
    BY ServiceStep
<1> QED
    BY <1>1, <1>2, PTL DEF Spec

-----------------------------------------------------------------------------
\* The theorems.

\* TypeOK: the file and the draft under the write lock are well formed, and the
\* lock belongs to a process in a call.
THEOREM ConcurrentTypes == Spec => []TypeOK
<1>1. ServiceInv => TypeOK
    BY NullAssumption DEF ServiceInv, LockInv, Sane, TypeOK, At
<1> QED
    BY <1>1, ServiceAlways, PTL

\* NumbersFollowCommits: transition reads the number of the next version before
\* its session holds the write lock, and the unique constraint is all that keeps
\* two calls from giving one number twice or leaving a gap.
THEOREM NumbersAlwaysFollow == Spec => []NumbersFollowCommits
<1>1. ServiceInv => NumbersFollowCommits
    BY DEF ServiceInv, Sane, Numbered, NumbersFollowCommits
<1> QED
    BY <1>1, ServiceAlways, PTL

\* OnlyOverlapIsSilent: two active memories whose accepted claims contradict
\* each other are a pair that a call has confirmed while the commit of another
\* call changed one of the two.
THEOREM OnlyOverlapAlwaysSilent == Spec => []OnlyOverlapIsSilent
<1>1. ServiceInv => OnlyOverlapIsSilent
    BY SilentFacts DEF ServiceInv
<1> QED
    BY <1>1, ServiceAlways, PTL
================================================================================
