------------------------ MODULE MemoryPluginProofs ------------------------
(***************************************************************************)
(* What the plugin's switch, its notice and its pending conflicts keep,    *)
(* for every number of sessions, candidates, restarts and lost requests.   *)
(***************************************************************************)
EXTENDS MemoryPlugin, SequenceTheorems, TLAPS

-----------------------------------------------------------------------------
\* The inductive invariant.

\* A confirm names a candidate of its own session.
Named ==
    \A s \in Session : call[s].at = "confirm" =>
        call[s].candidate \in Candidate /\ Owner[call[s].candidate] = s

\* A call that outlived the switch belongs to a session that has no state.
Orphaned ==
    \A s \in Session : call[s].orphan => s \in forgotten /\ writeStates[s] = NULL

\* A confirm of a blocked session is for the candidate that blocks it.
Retried ==
    \A s \in Session : call[s].at = "confirm" /\ writeStates[s] # NULL =>
        writeStates[s] = call[s].candidate

Open(c) == service[c] = "candidate" \/ c \in elsewhere

StillOpen(c) == service'[c] = "candidate" \/ c \in elsewhere'

\* A conflict was answered when the candidate was undecided.
Answered ==
    \A s \in Session : call[s].at = "confirm" /\ call[s].answer = "conflict" =>
        Open(call[s].candidate)

\* A blocking candidate is undecided, or its session is about to hear.
Blocking ==
    \A s \in Session : writeStates[s] # NULL =>
        \/ Open(writeStates[s])
        \/ call[s].at = "confirm" /\ call[s].answer \in {"active", "rejected"}

\* The notice was shown no later in the file than in the queue, in the queue
\* no later than behind it, and there no later than in the process.
Ordered(file, queue, shown) ==
    /\ file => shown
    /\ \A i \in DOMAIN queue :
          (queue[i].state.notice => shown) /\ (file => queue[i].state.notice)
    /\ \A i, k \in DOMAIN queue :
          i < k => (queue[i].state.notice => queue[k].state.notice)

NoticeOrder == Ordered(Read(disk).notice, writes, onboardingNoticeShown)

\* A call alone at the switch: what its write will make of the file is what
\* its end will make of the tools.
AtWrite(at, will, file, now) ==
    \/ at = "disable" /\ now /\ file /\ ~will
    \/ at = "enable" /\ now /\ ~file /\ will
    \/ at = "notice" /\ file = now /\ will = now

Alone ==
    ~overlap =>
        /\ Len(writes) <= 1
        /\ \A s \in Session : call[s].at = "health" => ~enabled
        /\ writes = << >> => Read(disk).enabled = enabled
        /\ writes # << >> => AtWrite(call[writes[1].by].at, writes[1].state.enabled,
                                    Read(disk).enabled, enabled)

Inv ==
    /\ TypeOK /\ Named
    /\ Orphaned /\ ConflictIsKept
    /\ Retried /\ Answered /\ Blocking
    /\ NoticeOrder /\ Alone

-----------------------------------------------------------------------------
\* A file is read as a state.
LEMMA Reads ==
    ASSUME NEW file \in State \cup {NoFile, Unreadable}
    PROVE  Read(file) \in State
BY BoundAssumption DEF Read, State

\* A state that was written is read as it is.
LEMMA ReadsBack ==
    ASSUME NEW state \in State
    PROVE  Read(state) = state
BY FileAssumption DEF Read

\* The first of a queue that is not empty.
LEMMA First ==
    ASSUME NEW S, NEW queue \in Seq(S), queue # << >>
    PROVE  1 \in DOMAIN queue /\ queue[1] \in S
<1>1. Len(queue) # 0 /\ Len(queue) \in Nat /\ DOMAIN queue = 1 .. Len(queue)
  BY EmptySeq, LenProperties
<1>2. 1 \in 1 .. Len(queue)  BY <1>1
<1> QED  BY <1>1, <1>2, ElementOfSeq

\* What the queue is after a write is queued.
LEMMA Queued ==
    ASSUME TypeOK, NEW s \in Session, NEW on \in BOOLEAN, NEW shown \in BOOLEAN,
           Write(s, on, shown)
    PROVE  /\ writes' \in Seq([by: Session, state: State])
           /\ Len(writes') = Len(writes) + 1
           /\ \A i \in 1 .. Len(writes) : writes'[i] = writes[i]
           /\ writes'[Len(writes) + 1].by = s
           /\ writes'[Len(writes) + 1].state.enabled = on
           /\ writes'[Len(writes) + 1].state.notice = shown
           /\ Len(writes) \in Nat
<1> DEFINE w == [by |-> s, state |-> [enabled |-> on, notice |-> shown]]
<1>1. w \in [by: Session, state: State]  BY DEF State
<1>2. writes \in Seq([by: Session, state: State]) /\ writes' = Append(writes, w)
  BY DEF TypeOK, Write
<1>3. /\ writes' \in Seq([by: Session, state: State])
      /\ Len(writes') = Len(writes) + 1 /\ Len(writes) \in Nat
      /\ \A i \in 1 .. Len(writes) : writes'[i] = writes[i]
      /\ writes'[Len(writes) + 1] = w
  <2> HIDE DEF w
  <2> QED  BY <1>1, <1>2, AppendProperties, LenProperties
<1> QED  BY <1>3

\* What the queue is after a write ends: it was the first.
LEMMA Unqueued ==
    ASSUME TypeOK, NEW i \in DOMAIN writes, i \in Started, writes' = RemoveAt(writes, i)
    PROVE  /\ i = 1 /\ Len(writes) \in Nat /\ Len(writes) >= 1
           /\ writes' \in Seq([by: Session, state: State])
           /\ Len(writes') = Len(writes) - 1
           /\ \A k \in 1 .. Len(writes) - 1 : writes'[k] = writes[k + 1]
           /\ writes[1] \in [by: Session, state: State]
<1> DEFINE T == [by: Session, state: State]
<1>1. writes \in Seq(T)  BY DEF TypeOK
<1> HIDE DEF T
<1>2. i = 1 /\ Len(writes) \in Nat /\ Len(writes) >= 1
  BY <1>1, LenProperties DEF Started
<1>3. writes' = SubSeq(writes, 1, 0) \o SubSeq(writes, 2, Len(writes))
  BY <1>2 DEF RemoveAt
<1>4. SubSeq(writes, 1, 0) = << >>  BY SubSeqEmpty
<1>5. /\ SubSeq(writes, 2, Len(writes)) \in Seq(T)
      /\ Len(SubSeq(writes, 2, Len(writes))) = Len(writes) - 1
      /\ \A k \in 1 .. Len(writes) - 1 : SubSeq(writes, 2, Len(writes))[k] = writes[k + 1]
  <2>1. \A k \in 2 .. Len(writes) : writes[k] \in T  BY <1>1, <1>2, ElementOfSeq
  <2>2. /\ SubSeq(writes, 2, Len(writes)) \in Seq(T)
        /\ Len(SubSeq(writes, 2, Len(writes)))
              = IF 2 <= Len(writes) THEN Len(writes) - 2 + 1 ELSE 0
        /\ \A k \in 1 .. Len(writes) - 2 + 1 :
              SubSeq(writes, 2, Len(writes))[k] = writes[2 + k - 1]
    BY <1>2, <2>1, SubSeqProperties
  <2>3. \A k \in 1 .. Len(writes) - 1 : 2 + k - 1 = k + 1  BY <1>2
  <2> QED  BY <1>2, <2>2, <2>3, SMTT(30)
<1>6. writes' = SubSeq(writes, 2, Len(writes))  BY <1>3, <1>4, <1>5, ConcatEmptySeq
<1>7. writes[1] \in T  BY <1>1, <1>2, ElementOfSeq
<1> QED  BY <1>2, <1>5, <1>6, <1>7 DEF T
-----------------------------------------------------------------------------
\* Types.

Ats     == {"none", "disable", "health", "enable", "context", "notice", "propose",
            "confirm"}
Writing == {"disable", "enable", "notice"}
CallRecord ==
    [at: Ats, candidate: Candidate \cup {NULL}, strategy: Strategy \cup {NULL},
     orphan: BOOLEAN, answer: {NULL, "refused", "conflict", "rejected", "active"}]

LEMMA CallTypes ==
    ASSUME NEW at \in Ats
    PROVE  /\ NoCall \in CallRecord /\ NoCall.at = "none" /\ ~NoCall.orphan
           /\ Call(at) \in CallRecord /\ Call(at).at = at /\ ~Call(at).orphan
           /\ Call(at).answer = NULL
BY DEF NoCall, Call, CallRecord, Ats

\* A session's step that leaves the switch alone.
LEMMA CallStep ==
    ASSUME TypeOK, NEW s \in Session, NEW r \in CallRecord, UNCHANGED switch,
           call' = [call EXCEPT ![s] = r],
           call[s].at \notin Writing, r.at \notin Writing,
           writeStates' \in [Session -> Candidate \cup {NULL}],
           \A x \in Session :
              writeStates'[x] \in {NULL} \cup {c \in Candidate : Owner[c] = x},
           told' \in [Session -> Candidate \cup {NULL}], forgotten' \subseteq Session,
           service' \in [Candidate -> {"none", "candidate", "active", "rejected"}],
           stray' \subseteq Candidate \X (Strategy \cup {NULL}),
           elsewhere' \subseteq Candidate, UNCHANGED restarts
    PROVE  TypeOK'
<1>1. call' \in [Session -> CallRecord]  BY DEF TypeOK, CallRecord, Ats
<1>2. \A x \in Session : call'[x].at \in Writing <=> \E i \in DOMAIN writes : writes[i].by = x
  BY DEF TypeOK, Writing
<1> QED  BY <1>1, <1>2 DEF TypeOK, CallRecord, Ats, Writing, switch

\* A session's step that queues a write.
LEMMA WriteStep ==
    ASSUME TypeOK, NEW s \in Session, NEW at \in Writing,
           NEW on \in BOOLEAN, NEW shown \in BOOLEAN, Write(s, on, shown),
           call' = [call EXCEPT ![s] = Call(at)], call[s].at \notin Writing,
           enabled' \in BOOLEAN, onboardingNoticeShown' \in BOOLEAN,
           UNCHANGED <<disk, writeStates, remote, agents, restarts>>
    PROVE  TypeOK'
<1>1. at \in Ats  BY DEF Writing, Ats
<1>2. call' \in [Session -> CallRecord]  BY <1>1, CallTypes DEF TypeOK, CallRecord, Ats
<1>3. overlap' \in BOOLEAN  BY DEF Write, TypeOK
<1>4. /\ writes' \in Seq([by: Session, state: State])
      /\ \A i \in 1 .. Len(writes) : writes'[i] = writes[i]
      /\ writes'[Len(writes) + 1].by = s
      /\ Len(writes) \in Nat
      /\ DOMAIN writes = 1 .. Len(writes) /\ DOMAIN writes' = 1 .. Len(writes) + 1
  <2>1. writes \in Seq([by: Session, state: State])  BY DEF TypeOK
  <2>2. /\ writes' \in Seq([by: Session, state: State])
        /\ Len(writes') = Len(writes) + 1
        /\ \A i \in 1 .. Len(writes) : writes'[i] = writes[i]
        /\ writes'[Len(writes) + 1].by = s
        /\ Len(writes) \in Nat
    BY Queued
  <2> QED  BY <2>1, <2>2, LenProperties
<1>5. \A i \in DOMAIN writes : writes[i].by # s  BY DEF TypeOK, Writing
<1>6. \A i, k \in DOMAIN writes' : writes'[i].by = writes'[k].by => i = k
  BY <1>4, <1>5, SMTT(30) DEF TypeOK
<1>7. \A x \in Session : call'[x].at \in Writing <=> \E i \in DOMAIN writes' : writes'[i].by = x
  <2> SUFFICES ASSUME NEW x \in Session
               PROVE  call'[x].at \in Writing <=> \E i \in DOMAIN writes' : writes'[i].by = x
    OBVIOUS
  <2>1. CASE x = s
    <3>1. call'[x].at \in Writing  BY <2>1, <1>1, CallTypes DEF TypeOK
    <3>2. Len(writes) + 1 \in DOMAIN writes'  BY <1>4
    <3> QED  BY <2>1, <3>1, <3>2, <1>4
  <2>2. CASE x # s
    <3>1. call'[x] = call[x]  BY <2>2 DEF TypeOK
    <3>2. (\E i \in DOMAIN writes' : writes'[i].by = x) <=> \E i \in DOMAIN writes : writes[i].by = x
      BY <1>4, <2>2
    <3> QED  BY <3>1, <3>2 DEF TypeOK, Writing
  <2> QED  BY <2>1, <2>2
<1> QED  BY <1>2, <1>3, <1>4, <1>6, <1>7 DEF TypeOK, CallRecord, Ats, Writing, remote, agents

\* A step of every kind keeps the types.
LEMMA TypesStep ==
    ASSUME TypeOK, Named, [Next]_vars
    PROVE  TypeOK' /\ Named'
<1> USE CandidateAssumption
<1>1. \A at \in Ats : /\ NoCall \in CallRecord /\ NoCall.at = "none"
                      /\ Call(at) \in CallRecord /\ Call(at).at = at
  BY CallTypes
<1>2. call \in [Session -> CallRecord]  BY DEF TypeOK, CallRecord, Ats
<1>3. /\ "health" \in Ats /\ "context" \in Ats /\ "propose" \in Ats /\ "disable" \in Ats
      /\ "enable" \in Ats /\ "notice" \in Ats
  BY DEF Ats
<1> DEFINE Calls(s) == Enable(s) \/ HealthFails(s) \/ Context(s) \/ ContextEnds(s)
                       \/ Propose(s) \/ Refused(s)
<1>4. ASSUME NEW s \in Session, Calls(s)  PROVE TypeOK' /\ Named'
  <2>1. PICK r \in CallRecord : call' = [call EXCEPT ![s] = r] /\ r.at # "confirm"
                               /\ r.at \notin Writing
    BY <1>1, <1>3, <1>4 DEF Enable, HealthFails, Context, ContextEnds, Propose, Refused, Ends,
       Writing
  <2>2. call[s].at \notin Writing
        /\ UNCHANGED <<switch, writeStates, service, stray, elsewhere, told, forgotten, restarts>>
    BY <1>4 DEF Enable, HealthFails, Context, ContextEnds, Propose, Refused, Writing, remote,
       agents
  <2>3. TypeOK'  BY <2>1, <2>2, CallStep DEF TypeOK
  <2>4. Named'  BY <2>1, <1>2 DEF Named
  <2> QED  BY <2>3, <2>4
<1>5. ASSUME NEW s \in Session, Disable(s) \/ Mount(s) \/ AppendFirstActivationNotice(s)
      PROVE  TypeOK' /\ Named'
  <2>1. PICK at \in Writing : call' = [call EXCEPT ![s] = Call(at)]
    BY <1>5 DEF Disable, Mount, AppendFirstActivationNotice, Writing
  <2>2. \E on, shown \in BOOLEAN : Write(s, on, shown)
    BY <1>5, ZenonT(60) DEF Disable, Mount, AppendFirstActivationNotice, TypeOK
  <2>3. /\ call[s].at \notin Writing
        /\ enabled' \in BOOLEAN /\ onboardingNoticeShown' \in BOOLEAN
        /\ UNCHANGED <<disk, writeStates, remote, agents, restarts>>
    BY <1>5 DEF Disable, Mount, AppendFirstActivationNotice, TypeOK, Writing
  <2>4. TypeOK'  BY <2>1, <2>2, <2>3, WriteStep
  <2>5. Call(at).at # "confirm"  BY <1>1, <1>3 DEF Writing
  <2>6. Named'  BY <2>1, <2>5, <1>2 DEF Named
  <2> QED  BY <2>4, <2>6
<1>6. ASSUME NEW s \in Session, ProposeEnds(s)  PROVE TypeOK' /\ Named'
  <2>1. service' \in [Candidate -> {"none", "candidate", "active", "rejected"}]
    BY <1>6 DEF ProposeEnds, TypeOK
  <2>2. /\ call' = [call EXCEPT ![s] = NoCall] /\ call[s].at \notin Writing
        /\ UNCHANGED <<switch, writeStates, stray, elsewhere, told, forgotten, restarts>>
    BY <1>6 DEF ProposeEnds, Ends, Writing, agents
  <2>3. NoCall \in CallRecord /\ NoCall.at = "none" /\ NoCall.at \notin Writing
    BY <1>1, <1>3 DEF Writing
  <2>4. TypeOK'  BY <2>1, <2>2, <2>3, CallStep DEF TypeOK
  <2>5. Named'  BY <2>2, <2>3, <1>2 DEF Named
  <2> QED  BY <2>4, <2>5
<1>7. ASSUME NEW s \in Session, NEW c \in Candidate, NEW strategy \in Strategy \cup {NULL},
             Confirm(s, c, strategy)
      PROVE  TypeOK' /\ Named'
  <2> DEFINE r == [Call("confirm") EXCEPT !.candidate = c, !.strategy = strategy]
  <2>1. /\ r \in CallRecord /\ r.at = "confirm" /\ r.candidate = c /\ r.at \notin Writing
    BY DEF Call, NoCall, CallRecord, Ats, Writing
  <2>2. /\ call' = [call EXCEPT ![s] = r] /\ call[s].at \notin Writing
        /\ UNCHANGED <<switch, writeStates, service, stray, elsewhere, told, forgotten, restarts>>
        /\ Owner[c] = s
    BY <1>7 DEF Confirm, Writing, remote, agents
  <2> HIDE DEF r
  <2>3. TypeOK'  BY <2>1, <2>2, CallStep DEF TypeOK
  <2>4. Named'  BY <2>1, <2>2, <1>2 DEF Named
  <2> QED  BY <2>3, <2>4
<1>8. ASSUME NEW s \in Session, Serve(s)  PROVE TypeOK' /\ Named'
  <2>1. call[s].candidate \in Candidate  BY <1>8 DEF Serve, Named
  <2> DEFINE a == Answer(call[s].candidate, call[s].strategy)
             r == [call[s] EXCEPT !.answer = a]
  <2>2. a \in {"refused", "conflict", "rejected", "active"}  BY DEF Answer
  <2>3. /\ r \in CallRecord /\ r.at = "confirm" /\ r.candidate = call[s].candidate
        /\ r.at \notin Writing /\ call[s].at \notin Writing
    <3>1. call[s] \in CallRecord /\ call[s].at = "confirm"  BY <1>2, <1>8 DEF Serve
    <3> HIDE DEF a
    <3> QED  BY <2>2, <3>1 DEF CallRecord, Writing
  <2>4. service' \in [Candidate -> {"none", "candidate", "active", "rejected"}]
    BY <1>8, <2>1, <2>2 DEF Serve, Settled, TypeOK
  <2>5. /\ call' = [call EXCEPT ![s] = r]
        /\ UNCHANGED <<switch, writeStates, stray, elsewhere, told, forgotten, restarts>>
    BY <1>8, <1>2 DEF Serve, agents
  <2> HIDE DEF r
  <2>6. TypeOK'  BY <2>3, <2>4, <2>5, CallStep DEF TypeOK
  <2>7. Named'  BY <2>3, <2>5, <1>2, <1>8 DEF Named, Serve
  <2> QED  BY <2>6, <2>7
<1>9. ASSUME NEW s \in Session, Conflict(s) \/ Resolved(s)  PROVE TypeOK' /\ Named'
  <2>1. call[s].candidate \in Candidate /\ Owner[call[s].candidate] = s
    BY <1>9 DEF Conflict, Resolved, Named
  <2>2. /\ writeStates' \in [Session -> Candidate \cup {NULL}]
        /\ \A x \in Session :
              writeStates'[x] \in {NULL} \cup {c \in Candidate : Owner[c] = x}
        /\ told' \in [Session -> Candidate \cup {NULL}] /\ forgotten' \subseteq Session
    <3>1. PICK v \in {NULL, call[s].candidate} :
             /\ writeStates' = writeStates \/ writeStates' = [writeStates EXCEPT ![s] = v]
             /\ told' = [told EXCEPT ![s] = v]
      BY <1>9 DEF Conflict, Resolved, AfterConflict, AfterResolution
    <3>2. v \in {NULL} \cup {c \in Candidate : Owner[c] = s}  BY <2>1
    <3> DEFINE moved == [writeStates EXCEPT ![s] = v]
    <3>0. moved[s] = v /\ \A x \in Session \ {s} : moved[x] = writeStates[x]
      BY DEF TypeOK
    <3>3. \A x \in Session : writeStates'[x] = writeStates[x] \/ (x = s /\ writeStates'[x] = v)
      BY <3>0, <3>1
    <3>4. writeStates' \in [Session -> Candidate \cup {NULL}]
          /\ told' \in [Session -> Candidate \cup {NULL}]
      <4>1. v \in Candidate \cup {NULL}  BY <2>1
      <4>2. moved \in [Session -> Candidate \cup {NULL}]
            /\ [told EXCEPT ![s] = v] \in [Session -> Candidate \cup {NULL}]
        BY <4>1 DEF TypeOK
      <4>3. writeStates \in [Session -> Candidate \cup {NULL}]  BY DEF TypeOK
      <4> QED  BY <3>1, <4>2, <4>3
    <3>5. forgotten' \subseteq Session  BY <1>9 DEF Conflict, Resolved, TypeOK
    <3>6. \A x \in Session : writeStates[x] \in {NULL} \cup {c \in Candidate : Owner[c] = x}
      BY DEF TypeOK
    <3>7. \A x \in Session : writeStates'[x] \in {NULL} \cup {c \in Candidate : Owner[c] = x}
      BY <3>2, <3>3, <3>6
    <3> QED  BY <3>4, <3>5, <3>7
  <2>3. /\ call' = [call EXCEPT ![s] = NoCall] /\ call[s].at \notin Writing
        /\ UNCHANGED <<switch, service, stray, elsewhere, restarts>>
    BY <1>9 DEF Conflict, Resolved, Ends, Writing, remote
  <2>4. NoCall \in CallRecord /\ NoCall.at = "none" /\ NoCall.at \notin Writing
    BY <1>1, <1>3 DEF Writing
  <2>5. TypeOK'  BY <2>2, <2>3, <2>4, CallStep DEF TypeOK
  <2>6. Named'  BY <2>3, <2>4, <1>2 DEF Named
  <2> QED  BY <2>5, <2>6
<1>10. ASSUME NEW s \in Session, TimeOut(s)  PROVE TypeOK' /\ Named'
  <2>1. call[s].candidate \in Candidate /\ call[s].strategy \in Strategy \cup {NULL}
    BY <1>10, <1>2 DEF TimeOut, Named, CallRecord
  <2>2. /\ stray' \subseteq Candidate \X (Strategy \cup {NULL}) /\ elsewhere' \subseteq Candidate
    BY <1>10, <2>1 DEF TimeOut, Abandoned, TypeOK
  <2>3. /\ call' = [call EXCEPT ![s] = NoCall] /\ call[s].at \notin Writing
        /\ UNCHANGED <<switch, writeStates, service, told, forgotten, restarts>>
    BY <1>10 DEF TimeOut, Ends, Writing, agents
  <2>4. NoCall \in CallRecord /\ NoCall.at = "none" /\ NoCall.at \notin Writing
    BY <1>1, <1>3 DEF Writing
  <2>5. TypeOK'  BY <2>2, <2>3, <2>4, CallStep DEF TypeOK
  <2>6. Named'  BY <2>3, <2>4, <1>2 DEF Named
  <2> QED  BY <2>5, <2>6
<1>11. ASSUME NEW i \in DOMAIN writes, NEW ok \in BOOLEAN, WriteEnds(i, ok)
       PROVE  TypeOK' /\ Named'
  <2> DEFINE s == writes[1].by
             base == [call EXCEPT ![s] = NoCall]
  <2>1. writes' = RemoveAt(writes, i) /\ i \in Started  BY <1>11 DEF WriteEnds
  <2>2. /\ i = 1 /\ Len(writes) \in Nat /\ Len(writes) >= 1
        /\ writes' \in Seq([by: Session, state: State])
        /\ Len(writes') = Len(writes) - 1
        /\ \A k \in 1 .. Len(writes) - 1 : writes'[k] = writes[k + 1]
        /\ writes[1] \in [by: Session, state: State]
    BY <2>1, Unqueued
  <2>3. /\ DOMAIN writes = 1 .. Len(writes) /\ DOMAIN writes' = 1 .. Len(writes) - 1
    BY <2>2, LenProperties DEF TypeOK
  <2>4. s \in Session /\ base \in [Session -> CallRecord] /\ base[s] = NoCall
        /\ \A x \in Session \ {s} : base[x] = call[x]
    BY <2>2, <1>1, <1>2, <1>3
  <2> DEFINE torn == [x \in Session |-> IF base[x].at = "none" THEN NoCall
                                         ELSE [base[x] EXCEPT !.orphan = TRUE]]
  <2>5. \/ /\ enabled' = FALSE /\ writeStates' = [x \in Session |-> NULL]
           /\ forgotten' = Session /\ call' = torn
        \/ call' = base /\ UNCHANGED <<enabled, writeStates, forgotten>>
    BY <1>11, <2>2 DEF WriteEnds, Unmount, Ends
  <2>6. /\ torn \in [Session -> CallRecord]
        /\ \A x \in Session : torn[x].at = base[x].at
                               /\ (base[x].at # "none" => torn[x].candidate = base[x].candidate)
    <3> SUFFICES ASSUME NEW x \in Session
                 PROVE  /\ torn[x] \in CallRecord /\ torn[x].at = base[x].at
                        /\ (base[x].at # "none" => torn[x].candidate = base[x].candidate)
      OBVIOUS
    <3>1. base[x] \in CallRecord  BY <2>4
    <3> HIDE DEF base
    <3> QED  BY <3>1, <1>1, <1>3 DEF CallRecord
  <2>7. /\ call' \in [Session -> CallRecord]
        /\ \A x \in Session : call'[x].at = base[x].at
                               /\ (base[x].at # "none" => call'[x].candidate = base[x].candidate)
    <3> HIDE DEF base, torn
    <3> QED  BY <2>4, <2>5, <2>6
  <2>8. call'[s].at = "none"
        /\ \A x \in Session \ {s} : call'[x].at = call[x].at
              /\ (call[x].at # "none" => call'[x].candidate = call[x].candidate)
    <3> HIDE DEF base, torn
    <3> QED  BY <2>4, <2>7, <1>1, <1>3
  <2> HIDE DEF s, base, torn
  <2>9. \A k \in DOMAIN writes' : k + 1 \in DOMAIN writes /\ writes'[k] = writes[k + 1]
    BY <2>2, <2>3
  <2>10. \A k, m \in DOMAIN writes' : writes'[k].by = writes'[m].by => k = m
    <3> SUFFICES ASSUME NEW k \in DOMAIN writes', NEW m \in DOMAIN writes',
                        writes'[k].by = writes'[m].by
                 PROVE  k = m
      OBVIOUS
    <3>1. k + 1 = m + 1  BY <2>9 DEF TypeOK
    <3> QED  BY <3>1, <2>2, <2>3
  <2>11. \A x \in Session : call'[x].at \in Writing <=> \E k \in DOMAIN writes' : writes'[k].by = x
    <3> SUFFICES ASSUME NEW x \in Session
                 PROVE  call'[x].at \in Writing <=> \E k \in DOMAIN writes' : writes'[k].by = x
      OBVIOUS
    <3>1. CASE x = s
      <4>1. call'[x].at \notin Writing  BY <3>1, <2>8 DEF Writing
      <4>2. ASSUME NEW k \in DOMAIN writes', writes'[k].by = x  PROVE FALSE
        <5>1. writes[k + 1].by = writes[1].by /\ k + 1 \in DOMAIN writes /\ 1 \in DOMAIN writes
          BY <2>2, <2>3, <2>9, <3>1, <4>2 DEF s
        <5>2. k + 1 = 1  BY <5>1 DEF TypeOK
        <5> QED  BY <5>2, <2>2, <2>3
      <4> QED  BY <4>1, <4>2
    <3>2. CASE x # s
      <4>1. call'[x].at \in Writing <=> \E m \in DOMAIN writes : writes[m].by = x
        BY <3>2, <2>8 DEF TypeOK, Writing
      <4>2. ASSUME NEW m \in DOMAIN writes, writes[m].by = x
            PROVE  \E k \in DOMAIN writes' : writes'[k].by = x
        <5>1. m # 1  BY <4>2, <3>2 DEF s
        <5>2. m - 1 \in 1 .. Len(writes) - 1 /\ (m - 1) + 1 = m  BY <5>1, <2>2, <2>3
        <5> QED  BY <5>2, <2>2, <2>3, <4>2
      <4>3. ASSUME NEW k \in DOMAIN writes', writes'[k].by = x
            PROVE  \E m \in DOMAIN writes : writes[m].by = x
        BY <2>9, <4>3
      <4> QED  BY <4>1, <4>2, <4>3
    <3> QED  BY <3>1, <3>2
  <2>12. disk' \in State \cup {NoFile, Unreadable}  BY <1>11, <2>2 DEF WriteEnds, TypeOK
  <2>13. /\ enabled' \in BOOLEAN
         /\ writeStates' \in [Session -> Candidate \cup {NULL}]
         /\ \A x \in Session :
               writeStates'[x] \in {NULL} \cup {c \in Candidate : Owner[c] = x}
         /\ forgotten' \subseteq Session
    <3>1. CASE UNCHANGED <<enabled, writeStates, forgotten>>  BY <3>1 DEF TypeOK
    <3>2. CASE /\ enabled' = FALSE /\ writeStates' = [x \in Session |-> NULL]
               /\ forgotten' = Session
      <4>1. \A x \in Session : writeStates'[x] = NULL  BY <3>2
      <4> QED  BY <3>2, <4>1
    <3> QED  BY <2>5, <3>1, <3>2
  <2>14. UNCHANGED <<onboardingNoticeShown, overlap, service, stray, elsewhere, told, restarts>>
    BY <1>11 DEF WriteEnds, remote
  <2>15. TypeOK'
    BY <2>2, <2>7, <2>10, <2>11, <2>12, <2>13, <2>14 DEF TypeOK, CallRecord, Ats, Writing
  <2>16. Named'  BY <2>8 DEF Named
  <2> QED  BY <2>15, <2>16
<1>12. ASSUME NEW r \in stray, ServeStray(r)  PROVE TypeOK' /\ Named'
  <2>1. r[1] \in Candidate  BY DEF TypeOK
  <2>2. /\ service' \in [Candidate -> {"none", "candidate", "active", "rejected"}]
        /\ stray' \subseteq Candidate \X (Strategy \cup {NULL}) /\ elsewhere' \subseteq Candidate
    BY <1>12, <2>1 DEF ServeStray, Settled, TypeOK
  <2> QED  BY <1>12, <2>2 DEF ServeStray, TypeOK, Named, switch, agents
<1>13. ASSUME NEW c \in Candidate, Review(c)  PROVE TypeOK' /\ Named'
  BY <1>13 DEF Review, TypeOK, Named, switch, agents
<1>14. CASE Restart
  <2>1. \E file \in State \cup {NoFile, Unreadable} :
           disk' = file /\ enabled' = Read(file).enabled
           /\ onboardingNoticeShown' = Read(file).notice
    <3>1. \A i \in Started : writes[i].state \in State
      <4> SUFFICES ASSUME NEW i \in Started  PROVE writes[i].state \in State
        OBVIOUS
      <4>1. i \in DOMAIN writes /\ writes \in Seq([by: Session, state: State])
        BY DEF Started, TypeOK
      <4>2. writes[i] \in [by: Session, state: State]  BY <4>1, ElementOfSeq, LenProperties
      <4> QED  BY <4>2
    <3> QED  BY <1>14, <3>1 DEF Restart, TypeOK
  <2>2. disk' \in State \cup {NoFile, Unreadable} /\ enabled' \in BOOLEAN
        /\ onboardingNoticeShown' \in BOOLEAN
    BY <2>1, Reads DEF State
  <2>3. /\ stray' \subseteq Candidate \X (Strategy \cup {NULL}) /\ elsewhere' \subseteq Candidate
    BY <1>14, <1>2 DEF Restart, Abandoned, TypeOK, Named, CallRecord
  <2>4. /\ call' = [s \in Session |-> NoCall] /\ writes' = << >> /\ overlap' = FALSE
        /\ writeStates' = [s \in Session |-> NULL] /\ forgotten' = Session
        /\ restarts' \in 0 .. MaxRestarts /\ UNCHANGED <<service, told>>
    BY <1>14, BoundAssumption DEF Restart, TypeOK
  <2>5. call' \in [Session -> CallRecord] /\ \A s \in Session : call'[s].at = "none"
    BY <2>4, <1>1, <1>3
  <2>6. writes' \in Seq([by: Session, state: State]) /\ DOMAIN writes' = {}
    BY <2>4, EmptySeq, LenProperties
  <2> QED
    BY <2>2, <2>3, <2>4, <2>5, <2>6 DEF TypeOK, Named, CallRecord, Ats
<1>15. CASE UNCHANGED vars
  BY <1>15 DEF vars, switch, remote, agents, TypeOK, Named
<1> QED
  BY <1>4, <1>5, <1>6, <1>7, <1>8, <1>9, <1>10, <1>11, <1>12, <1>13, <1>14, <1>15 DEF Next
-----------------------------------------------------------------------------
\* Conflicts.

Conflicts == Orphaned /\ ConflictIsKept /\ Retried /\ Answered /\ Blocking

\* A call that begins or ends, not as a confirm, disturbs no conflict.
LEMMA OtherCalls ==
    ASSUME TypeOK, Conflicts, NEW s \in Session, NEW r \in CallRecord,
           call' = [call EXCEPT ![s] = r], ~r.orphan, r.at # "confirm",
           call[s].at = "confirm" =>
              (call[s].answer \in {"active", "rejected"} => StillOpen(call[s].candidate)),
           \A c \in Candidate : Open(c) => StillOpen(c),
           Named,
           UNCHANGED <<writeStates, forgotten, told>>
    PROVE  Conflicts'
<1>1. call'[s] = r /\ \A x \in Session \ {s} : call'[x] = call[x]  BY DEF TypeOK
<1>2. Orphaned' /\ ConflictIsKept'  BY <1>1 DEF Conflicts, Orphaned, ConflictIsKept
<1>3. Retried'  BY <1>1 DEF Conflicts, Retried
<1>4. Answered'  BY <1>1 DEF Conflicts, Answered, Named, Open, StillOpen
<1>5. Blocking'
  <2> SUFFICES ASSUME NEW x \in Session, writeStates[x] # NULL
               PROVE  \/ StillOpen(writeStates[x])
                      \/ x # s /\ call[x].at = "confirm" /\ call[x].answer \in {"active", "rejected"}
    BY <1>1 DEF Blocking, Open, StillOpen
  <2>1. writeStates[x] \in Candidate  BY DEF TypeOK
  <2>2. CASE Open(writeStates[x])  BY <2>1, <2>2
  <2>3. CASE call[x].at = "confirm" /\ call[x].answer \in {"active", "rejected"}
    BY <2>3 DEF Conflicts, Retried
  <2> QED  BY <2>2, <2>3 DEF Conflicts, Blocking
<1> QED  BY <1>2, <1>3, <1>4, <1>5 DEF Conflicts

LEMMA ConflictsStep ==
    ASSUME TypeOK, Named, Conflicts, [Next]_vars
    PROVE  Conflicts'
<1>1. \A at \in Ats : /\ NoCall \in CallRecord /\ NoCall.at = "none" /\ ~NoCall.orphan
                      /\ Call(at) \in CallRecord /\ Call(at).at = at /\ ~Call(at).orphan
  BY CallTypes
<1>2. call \in [Session -> CallRecord]  BY DEF TypeOK, CallRecord, Ats
<1>3. /\ "health" \in Ats /\ "context" \in Ats /\ "propose" \in Ats /\ "disable" \in Ats
      /\ "enable" \in Ats /\ "notice" \in Ats
  BY DEF Ats
<1> DEFINE Calls(s) == Disable(s) \/ Enable(s) \/ HealthFails(s) \/ Mount(s) \/ Context(s)
                       \/ ContextEnds(s) \/ AppendFirstActivationNotice(s) \/ Propose(s)
                       \/ ProposeEnds(s) \/ Refused(s) \/ TimeOut(s)
<1>4. ASSUME NEW s \in Session, Calls(s)  PROVE Conflicts'
  <2>1. PICK r \in CallRecord : call' = [call EXCEPT ![s] = r] /\ r.at # "confirm" /\ ~r.orphan
    BY <1>1, <1>3, <1>4 DEF Disable, Enable, HealthFails, Mount, Context, ContextEnds,
       AppendFirstActivationNotice, Propose, ProposeEnds, Refused, TimeOut, Ends
  <2>2. UNCHANGED <<writeStates, forgotten, told>>
    BY <1>4 DEF Disable, Enable, HealthFails, Mount, Context, ContextEnds,
       AppendFirstActivationNotice, Propose, ProposeEnds, Refused, TimeOut, agents
  <2>3. \A c \in Candidate : Open(c) => StillOpen(c)
    <3>1. CASE ProposeEnds(s)  BY <3>1 DEF ProposeEnds, Open, StillOpen, TypeOK
    <3>2. CASE TimeOut(s)  BY <3>2 DEF TimeOut, Open, StillOpen
    <3>3. CASE ~ProposeEnds(s) /\ ~TimeOut(s)
      BY <1>4, <3>3 DEF Disable, Enable, HealthFails, Mount, Context, ContextEnds,
         AppendFirstActivationNotice, Propose, Refused, Open, StillOpen, remote
    <3> QED  BY <3>1, <3>2, <3>3
  <2>4. call[s].at = "confirm" =>
           (call[s].answer \in {"active", "rejected"} => StillOpen(call[s].candidate))
    <3>1. CASE TimeOut(s)  BY <3>1, NullAssumption DEF TimeOut, Open, StillOpen
    <3>2. CASE ~TimeOut(s)
      BY <1>4, <3>2 DEF Disable, Enable, HealthFails, Mount, Context, ContextEnds,
         AppendFirstActivationNotice, Propose, ProposeEnds, Refused
    <3> QED  BY <3>1, <3>2
  <2> QED  BY <2>1, <2>2, <2>3, <2>4, OtherCalls
<1>5. ASSUME NEW s \in Session, NEW c \in Candidate, NEW strategy \in Strategy \cup {NULL},
             Confirm(s, c, strategy)
      PROVE  Conflicts'
  <2> DEFINE r == [Call("confirm") EXCEPT !.candidate = c, !.strategy = strategy]
  <2>1. r.at = "confirm" /\ r.candidate = c /\ ~r.orphan /\ r.answer = NULL
    BY DEF Call, NoCall
  <2>2. /\ call' = [call EXCEPT ![s] = r] /\ call[s].at = "none"
        /\ writeStates[s] # NULL => writeStates[s] = c
        /\ UNCHANGED <<writeStates, service, elsewhere, told, forgotten>>
    BY <1>5 DEF Confirm, remote, agents
  <2> HIDE DEF r
  <2>3. call'[s] = r /\ \A x \in Session \ {s} : call'[x] = call[x]  BY <2>2 DEF TypeOK
  <2>4. Orphaned' /\ ConflictIsKept'
    BY <2>1, <2>2, <2>3 DEF Conflicts, Orphaned, ConflictIsKept
  <2>5. Retried'  BY <2>1, <2>2, <2>3 DEF Conflicts, Retried
  <2>6. Answered'
    BY <2>1, <2>2, <2>3, NullAssumption DEF Conflicts, Answered, Open, StillOpen
  <2>7. Blocking'  BY <2>1, <2>2, <2>3 DEF Conflicts, Blocking, Open, StillOpen
  <2> QED  BY <2>4, <2>5, <2>6, <2>7 DEF Conflicts
<1>6. ASSUME NEW s \in Session, Serve(s)  PROVE Conflicts'
  <2> DEFINE d == call[s].candidate
             a == Answer(d, call[s].strategy)
             r == [call[s] EXCEPT !.answer = a]
  <2>1. d \in Candidate /\ Owner[d] = s /\ call[s].at = "confirm" /\ call[s] \in CallRecord
    BY <1>2, <1>6 DEF Serve, Named
  <2>2. /\ r.at = "confirm" /\ r.candidate = d /\ r.orphan = call[s].orphan /\ r.answer = a
    <3> HIDE DEF a
    <3> QED  BY <2>1 DEF CallRecord
  <2>3. /\ call' = [call EXCEPT ![s] = r]
        /\ UNCHANGED <<writeStates, elsewhere, told, forgotten>>
        /\ service' = Settled(d, call[s].strategy)
    BY <1>6, <1>2 DEF Serve, agents
  <2>4. /\ \A c \in Candidate \ {d} : service'[c] = service[c]
        /\ a = "conflict" => service[d] = "candidate"
        /\ a \notin {"active", "rejected"} => service' = service
    <3>1. a = "conflict" => service[d] = "candidate"  BY DEF Answer
    <3>2. service' = IF a \in {"active", "rejected"} THEN [service EXCEPT ![d] = a] ELSE service
      BY <2>3 DEF Settled
    <3> HIDE DEF a, d
    <3>3. \A c \in Candidate \ {d} : [service EXCEPT ![d] = a][c] = service[c]  BY DEF TypeOK
    <3> QED  BY <3>1, <3>2, <3>3
  <2> HIDE DEF r, a
  <2>5. call'[s] = r /\ \A x \in Session \ {s} : call'[x] = call[x]  BY <2>3 DEF TypeOK
  <2>6. Orphaned' /\ ConflictIsKept'
    BY <2>2, <2>3, <2>5 DEF Conflicts, Orphaned, ConflictIsKept
  <2>7. Retried'  BY <2>2, <2>3, <2>5, <2>1 DEF Conflicts, Retried
  <2>8. \A x \in Session \ {s} :
           /\ call[x].at = "confirm" => call[x].candidate \in Candidate \ {d}
           /\ writeStates[x] # NULL => writeStates[x] \in Candidate \ {d}
    BY <2>1 DEF Named, TypeOK
  <2>9. Answered'
    <3> SUFFICES ASSUME NEW x \in Session, call'[x].at = "confirm", call'[x].answer = "conflict"
                 PROVE  StillOpen(call'[x].candidate)
      BY DEF Answered, Open, StillOpen
    <3>1. CASE x = s
      <4>1. a = "conflict" /\ call'[x].candidate = d  BY <3>1, <2>2, <2>5
      <4>2. service'[d] = "candidate"  BY <4>1, <2>4
      <4> QED  BY <4>1, <4>2 DEF Open, StillOpen
    <3>2. CASE x # s
      <4>1. Open(call[x].candidate) /\ call'[x] = call[x]  BY <3>2, <2>5 DEF Conflicts, Answered
      <4>2. call[x].candidate \in Candidate \ {d}  BY <3>2, <2>5, <2>8
      <4> QED  BY <4>1, <4>2, <2>3, <2>4 DEF Open, StillOpen
    <3> QED  BY <3>1, <3>2
  <2>10. Blocking'
    <3> SUFFICES ASSUME NEW x \in Session, writeStates[x] # NULL
                 PROVE  \/ StillOpen(writeStates[x])
                        \/ call'[x].at = "confirm" /\ call'[x].answer \in {"active", "rejected"}
      BY <2>3 DEF Blocking, Open, StillOpen
    <3>1. CASE x = s
      <4>1. CASE a \in {"active", "rejected"}  BY <3>1, <4>1, <2>2, <2>5
      <4>2. CASE a \notin {"active", "rejected"}
        <5>1. call[s].answer = NULL  BY <1>6 DEF Serve
        <5>2. Open(writeStates[s])  BY <3>1, <5>1, NullAssumption DEF Conflicts, Blocking
        <5> QED  BY <3>1, <4>2, <5>2, <2>3, <2>4 DEF Open, StillOpen
      <4> QED  BY <4>1, <4>2
    <3>2. CASE x # s
      <4>1. call'[x] = call[x] /\ writeStates[x] \in Candidate \ {d}  BY <3>2, <2>5, <2>8
      <4> QED  BY <4>1, <2>3, <2>4 DEF Conflicts, Blocking, Open, StillOpen
    <3> QED  BY <3>1, <3>2
  <2> QED  BY <2>6, <2>7, <2>9, <2>10 DEF Conflicts
<1>7. ASSUME NEW s \in Session, Conflict(s) \/ Resolved(s)  PROVE Conflicts'
  <2> DEFINE d == call[s].candidate
             v == IF Conflict(s) THEN d ELSE NULL
  <2>1. d \in Candidate /\ Owner[d] = s /\ call[s].at = "confirm" /\ call[s] \in CallRecord
    BY <1>2, <1>7 DEF Conflict, Resolved, Named
  <2>2. /\ call' = [call EXCEPT ![s] = NoCall] /\ told' = [told EXCEPT ![s] = v]
        /\ UNCHANGED <<service, elsewhere>>
    BY <1>7 DEF Conflict, Resolved, Ends, remote
  <2>3. IF call[s].orphan THEN UNCHANGED <<writeStates, forgotten>>
        ELSE writeStates' = [writeStates EXCEPT ![s] = v] /\ forgotten' = forgotten \ {s}
    BY <1>7 DEF Conflict, Resolved, AfterConflict, AfterResolution
  <2>4. v # NULL => v = d /\ Open(d)
    BY <2>1 DEF Conflict, Conflicts, Answered
  <2> HIDE DEF v
  <2>5. /\ call'[s] = NoCall /\ told'[s] = v
        /\ \A x \in Session \ {s} : call'[x] = call[x] /\ told'[x] = told[x]
                                   /\ writeStates'[x] = writeStates[x]
                                   /\ (x \in forgotten' <=> x \in forgotten)
        /\ IF call[s].orphan THEN writeStates'[s] = writeStates[s] /\ s \in forgotten'
           ELSE writeStates'[s] = v /\ s \notin forgotten'
        /\ call[s].orphan => writeStates[s] = NULL
    BY <2>2, <2>3 DEF TypeOK, Conflicts, Orphaned
  <2>6. Orphaned' /\ ConflictIsKept'
    BY <1>1, <1>3, <2>5 DEF Conflicts, Orphaned, ConflictIsKept
  <2>7. Retried'  BY <1>1, <1>3, <2>5 DEF Conflicts, Retried
  <2>8. Answered'  BY <1>1, <1>3, <2>2, <2>5 DEF Conflicts, Answered, Open, StillOpen
  <2>9. Blocking'
    <3> SUFFICES ASSUME NEW x \in Session, writeStates'[x] # NULL
                 PROVE  \/ StillOpen(writeStates'[x])
                        \/ call'[x].at = "confirm" /\ call'[x].answer \in {"active", "rejected"}
      BY DEF Blocking, Open, StillOpen
    <3>1. CASE x = s
      <4>1. writeStates'[s] = v /\ v # NULL  BY <3>1, <2>5
      <4> QED  BY <3>1, <4>1, <2>2, <2>4 DEF Open, StillOpen
    <3>2. CASE x # s
      BY <3>2, <2>2, <2>5 DEF Conflicts, Blocking, Open, StillOpen
    <3> QED  BY <3>1, <3>2
  <2> QED  BY <2>6, <2>7, <2>8, <2>9 DEF Conflicts
<1>8. ASSUME writeStates' = [s \in Session |-> NULL], forgotten' = Session,
             \A x \in Session : call'[x].at = "confirm" =>
                 call[x].at = "confirm" /\ call'[x].candidate = call[x].candidate
                 /\ call'[x].answer = call[x].answer,
             UNCHANGED <<service>>, elsewhere \subseteq elsewhere'
      PROVE  Conflicts'
  BY <1>8 DEF Conflicts, Orphaned, ConflictIsKept, Retried, Answered, Blocking, Open, StillOpen
<1>9. ASSUME NEW i \in DOMAIN writes, NEW ok \in BOOLEAN, WriteEnds(i, ok)
      PROVE  Conflicts'
  <2>1. writes' = RemoveAt(writes, i) /\ i \in Started  BY <1>9 DEF WriteEnds
  <2> DEFINE s == writes[i].by
             base == [call EXCEPT ![s] = NoCall]
  <2>2. s \in Session  BY <2>1, Unqueued
  <2>3. call[s].at \in Writing  BY <2>2 DEF TypeOK, Writing
  <2>4. base[s] = NoCall /\ \A x \in Session \ {s} : base[x] = call[x]  BY <2>2 DEF TypeOK
  <2>5. UNCHANGED <<service, elsewhere, told>>  BY <1>9 DEF WriteEnds, remote
  <2>6. CASE Unmounts(call[s].at, ok)
    <3>1. /\ writeStates' = [x \in Session |-> NULL] /\ forgotten' = Session
          /\ call' = [x \in Session |-> IF base[x].at = "none" THEN NoCall
                                         ELSE [base[x] EXCEPT !.orphan = TRUE]]
      BY <1>9, <2>6 DEF WriteEnds, Unmount
    <3>2. ASSUME NEW x \in Session, call'[x].at = "confirm"
          PROVE  call[x].at = "confirm" /\ call'[x].candidate = call[x].candidate
                 /\ call'[x].answer = call[x].answer
      <4>0. base[x] \in CallRecord  BY <2>4, <1>1, <1>2, <1>3
      <4> HIDE DEF base
      <4>1. base[x].at # "none" /\ call'[x] = [base[x] EXCEPT !.orphan = TRUE]
        BY <3>1, <3>2, <1>1, <1>3
      <4>2. x # s  BY <4>1, <2>4, <1>1, <1>3
      <4>3. base[x] = call[x]  BY <4>2, <2>4
      <4> QED  BY <4>0, <4>1, <4>3, <3>2 DEF CallRecord
    <3> QED  BY <3>1, <3>2, <2>5, <1>8
  <2>7. CASE ~Unmounts(call[s].at, ok)
    <3>1. call' = base /\ UNCHANGED <<writeStates, forgotten>>
      BY <1>9, <2>7 DEF WriteEnds, Ends
    <3>2. \A c \in Candidate : Open(c) => StillOpen(c)  BY <2>5 DEF Open, StillOpen
    <3>3. NoCall \in CallRecord /\ NoCall.at # "confirm" /\ ~NoCall.orphan  BY <1>1, <1>3
    <3>4. call[s].at # "confirm"  BY <2>3 DEF Writing
    <3> QED  BY <2>2, <2>5, <3>1, <3>2, <3>3, <3>4, OtherCalls
  <2> QED  BY <2>6, <2>7
<1>10. ASSUME NEW c \in Candidate,
              \A x \in Candidate \ {c} : Open(x) => StillOpen(x),
              service' # service => c \in elsewhere', elsewhere \subseteq elsewhere',
              UNCHANGED <<call, writeStates, forgotten, told>>
       PROVE  Conflicts'
  <2>1. \A x \in Candidate : Open(x) => StillOpen(x)  BY <1>10 DEF Open, StillOpen
  <2>2. Orphaned' /\ ConflictIsKept' /\ Retried'
    BY <1>10 DEF Conflicts, Orphaned, ConflictIsKept, Retried
  <2>3. Answered'  BY <1>10, <2>1 DEF Conflicts, Answered, Named, Open, StillOpen
  <2>4. Blocking'  BY <1>10, <2>1 DEF Conflicts, Blocking, TypeOK, Open, StillOpen
  <2> QED  BY <2>2, <2>3, <2>4 DEF Conflicts
<1>11. ASSUME NEW r \in stray, ServeStray(r)  PROVE Conflicts'
  <2>1. r[1] \in Candidate  BY DEF TypeOK
  <2>2. /\ service' = service \/ (service' = Settled(r[1], r[2]) /\ r[1] \in elsewhere')
        /\ elsewhere \subseteq elsewhere'
        /\ UNCHANGED <<call, writeStates, forgotten, told>>
    BY <1>11 DEF ServeStray, agents
  <2>3. \A x \in Candidate \ {r[1]} : service'[x] = service[x]
    BY <2>1, <2>2 DEF Settled, TypeOK
  <2> QED  BY <1>10, <2>1, <2>2, <2>3 DEF Open, StillOpen
<1>12. ASSUME NEW c \in Candidate, Review(c)  PROVE Conflicts'
  <2>1. /\ \A x \in Candidate \ {c} : service'[x] = service[x]
        /\ c \in elsewhere' /\ elsewhere \subseteq elsewhere'
        /\ UNCHANGED <<call, writeStates, forgotten, told>>
    BY <1>12 DEF Review, TypeOK, agents
  <2> QED  BY <1>10, <2>1 DEF Open, StillOpen
<1>13. CASE Restart
  <2>1. /\ writeStates' = [s \in Session |-> NULL] /\ forgotten' = Session
        /\ call' = [s \in Session |-> NoCall]
        /\ UNCHANGED <<service>> /\ elsewhere \subseteq elsewhere'
    BY <1>13 DEF Restart
  <2>2. \A x \in Session : call'[x].at = "none"  BY <2>1, <1>1, <1>3
  <2> QED  BY <1>8, <2>1, <2>2
<1>14. CASE UNCHANGED vars
  BY <1>14 DEF vars, remote, agents, Conflicts, Orphaned, ConflictIsKept, Retried, Answered,
     Blocking, Open, StillOpen
<1> QED
  BY <1>4, <1>5, <1>6, <1>7, <1>9, <1>11, <1>12, <1>13, <1>14 DEF Next

-----------------------------------------------------------------------------
\* The switch and the notice.

\* A step that leaves the switch alone.
LEMMA SwitchUntouched ==
    ASSUME TypeOK, NoticeOrder, Alone, UNCHANGED switch,
           \A x \in Session : call[x].at \in Writing => call'[x].at = call[x].at,
           \A x \in Session : call'[x].at = "health" => call[x].at = "health" \/ ~enabled
    PROVE  NoticeOrder' /\ Alone'
<1>1. UNCHANGED <<enabled, onboardingNoticeShown, disk, writes, overlap>>  BY DEF switch
<1>2. NoticeOrder'  BY <1>1 DEF NoticeOrder, Ordered
<1>3. ASSUME writes # << >>
      PROVE  call'[writes[1].by].at = call[writes[1].by].at
  <2>1. writes \in Seq([by: Session, state: State])  BY DEF TypeOK
  <2>2. 1 \in DOMAIN writes /\ writes[1] \in [by: Session, state: State]  BY <1>3, <2>1, First
  <2>3. writes[1].by \in Session  BY <2>2
  <2>4. call[writes[1].by].at \in Writing  BY <2>2, <2>3 DEF TypeOK, Writing
  <2> QED  BY <2>3, <2>4
<1>4. Alone'  BY <1>1, <1>3 DEF Alone, AtWrite
<1> QED  BY <1>2, <1>4

\* A write that is queued while the notice is shown, behind others that did
\* not know more.
LEMMA QueuedNotice ==
    ASSUME TypeOK, NoticeOrder, NEW s \in Session, NEW on \in BOOLEAN,
           Write(s, on, onboardingNoticeShown'), UNCHANGED disk,
           onboardingNoticeShown' \in BOOLEAN, onboardingNoticeShown => onboardingNoticeShown'
    PROVE  NoticeOrder'
<1>1. /\ writes' \in Seq([by: Session, state: State])
      /\ Len(writes') = Len(writes) + 1 /\ Len(writes) \in Nat
      /\ \A i \in 1 .. Len(writes) : writes'[i] = writes[i]
      /\ writes'[Len(writes) + 1].state.notice = onboardingNoticeShown'
  BY Queued
<1>2. DOMAIN writes = 1 .. Len(writes) /\ DOMAIN writes' = 1 .. Len(writes) + 1
  BY <1>1, LenProperties DEF TypeOK
<1>3. /\ Read(disk').notice => onboardingNoticeShown
      /\ \A i \in DOMAIN writes :
            /\ writes[i].state.notice => onboardingNoticeShown
            /\ Read(disk').notice => writes[i].state.notice
      /\ \A i, k \in DOMAIN writes :
            i < k => (writes[i].state.notice => writes[k].state.notice)
  BY DEF NoticeOrder, Ordered
<1>4. \A i \in DOMAIN writes' : \/ i \in DOMAIN writes /\ writes'[i] = writes[i]
                               \/ i = Len(writes) + 1
  BY <1>1, <1>2
<1>5. \A i \in DOMAIN writes' :
         /\ writes'[i].state.notice => onboardingNoticeShown'
         /\ Read(disk').notice => writes'[i].state.notice
  BY <1>1, <1>3, <1>4
<1>6. \A i, k \in DOMAIN writes' :
         i < k => (writes'[i].state.notice => writes'[k].state.notice)
  <2> SUFFICES ASSUME NEW i \in DOMAIN writes', NEW k \in DOMAIN writes', i < k,
                      writes'[i].state.notice
               PROVE  writes'[k].state.notice
    OBVIOUS
  <2>1. i \in DOMAIN writes /\ writes'[i] = writes[i]  BY <1>1, <1>2
  <2>2. CASE k = Len(writes) + 1  BY <2>1, <2>2, <1>1, <1>3
  <2>3. CASE k # Len(writes) + 1  BY <2>1, <2>3, <1>3, <1>4
  <2> QED  BY <2>2, <2>3
<1> QED  BY <1>3, <1>5, <1>6 DEF NoticeOrder, Ordered

\* A call that writes although another is at the switch is not alone, and
\* one that writes alone writes first.
LEMMA WritesAlone ==
    ASSUME TypeOK, Alone, NEW s \in Session, NEW on \in BOOLEAN, NEW shown \in BOOLEAN,
           Write(s, on, shown), NEW at \in Writing, call' = [call EXCEPT ![s] = Call(at)],
           call[s].at \notin Writing, ~overlap'
    PROVE  /\ ~overlap /\ writes = << >> /\ Len(writes') <= 1 /\ writes' # << >>
           /\ writes'[1].by = s /\ writes'[1].state.enabled = on
           /\ call'[s].at = at /\ Read(disk).enabled = enabled
           /\ \A x \in Session : call'[x].at # "health"
<1>1. ~overlap /\ \A x \in Session \ {s} : ~Switching(x)  BY DEF Write
<1>2. writes = << >>
  <2> SUFFICES ASSUME writes # << >>  PROVE FALSE
    OBVIOUS
  <2>1. writes \in Seq([by: Session, state: State])  BY DEF TypeOK
  <2>2. 1 \in DOMAIN writes /\ writes[1] \in [by: Session, state: State]  BY <2>1, First
  <2>3. writes[1].by \in Session  BY <2>2
  <2>4. call[writes[1].by].at \in Writing  BY <2>2, <2>3 DEF TypeOK, Writing
  <2> QED  BY <1>1, <2>3, <2>4 DEF Switching, Writing
<1>3. Len(writes) = 0  BY <1>2, EmptySeq
<1>4. /\ Len(writes') <= 1 /\ writes' # << >> /\ writes'[1].by = s /\ writes'[1].state.enabled = on
  <2>1. /\ Len(writes') = Len(writes) + 1
        /\ writes'[Len(writes) + 1].by = s
        /\ writes'[Len(writes) + 1].state.enabled = on
    BY Queued
  <2>2. Len(writes') = 1  BY <1>3, <2>1
  <2>3. writes' # << >>  BY <2>2, EmptySeq
  <2> QED  BY <1>3, <2>1, <2>2, <2>3
<1>5. at \in Ats /\ at # "health"  BY DEF Writing, Ats
<1>6. call'[s].at = at /\ \A x \in Session \ {s} : call'[x] = call[x]
  BY <1>5, CallTypes DEF TypeOK
<1>7. \A x \in Session : call'[x].at # "health"  BY <1>1, <1>5, <1>6 DEF Switching
<1> QED  BY <1>1, <1>2, <1>4, <1>6, <1>7 DEF Alone

LEMMA SwitchStep ==
    ASSUME TypeOK, NoticeOrder, Alone, [Next]_vars
    PROVE  NoticeOrder' /\ Alone'
<1>1. \A at \in Ats : NoCall.at = "none" /\ Call(at).at = at  BY CallTypes
<1>2. call \in [Session -> CallRecord]  BY DEF TypeOK, CallRecord, Ats
<1>3. /\ "health" \in Ats /\ "context" \in Ats /\ "propose" \in Ats /\ "disable" \in Ats
      /\ "enable" \in Ats /\ "notice" \in Ats
  BY DEF Ats
<1> DEFINE Calls(s) ==
       \/ Enable(s) \/ HealthFails(s) \/ Context(s) \/ ContextEnds(s) \/ Propose(s)
       \/ ProposeEnds(s) \/ Conflict(s) \/ Resolved(s) \/ Refused(s) \/ TimeOut(s)
<1>4. ASSUME NEW s \in Session, Calls(s)  PROVE NoticeOrder' /\ Alone'
  <2>1. PICK r : call' = [call EXCEPT ![s] = r] /\ (r.at = "health" => ~enabled)
    BY <1>1, <1>3, <1>4 DEF Enable, HealthFails, Context, ContextEnds, Propose, ProposeEnds,
       Conflict, Resolved, Refused, TimeOut, Ends
  <2>2. UNCHANGED switch /\ call[s].at \notin Writing
    BY <1>4 DEF Enable, HealthFails, Context, ContextEnds, Propose, ProposeEnds,
       Conflict, Resolved, Refused, TimeOut, Writing
  <2>3. call'[s] = r /\ \A x \in Session \ {s} : call'[x] = call[x]  BY <2>1 DEF TypeOK
  <2> QED  BY <2>1, <2>2, <2>3, SwitchUntouched
<1>5. ASSUME NEW s \in Session, NEW c \in Candidate, NEW strategy \in Strategy \cup {NULL},
             Confirm(s, c, strategy)
      PROVE  NoticeOrder' /\ Alone'
  <2> DEFINE r == [Call("confirm") EXCEPT !.candidate = c, !.strategy = strategy]
  <2>1. r.at = "confirm"  BY DEF Call, NoCall
  <2>2. /\ call' = [call EXCEPT ![s] = r] /\ UNCHANGED switch /\ call[s].at \notin Writing
    BY <1>5 DEF Confirm, Writing
  <2> HIDE DEF r
  <2>3. call'[s] = r /\ \A x \in Session \ {s} : call'[x] = call[x]  BY <2>2 DEF TypeOK
  <2> QED  BY <2>1, <2>2, <2>3, SwitchUntouched
<1>6. ASSUME NEW s \in Session, Serve(s)  PROVE NoticeOrder' /\ Alone'
  <2> DEFINE a == Answer(call[s].candidate, call[s].strategy)
             r == [call[s] EXCEPT !.answer = a]
  <2>1. r.at = "confirm"
    <3>1. call[s] \in CallRecord /\ call[s].at = "confirm"  BY <1>2, <1>6 DEF Serve
    <3> HIDE DEF a
    <3> QED  BY <3>1 DEF CallRecord
  <2>2. /\ call' = [call EXCEPT ![s] = r] /\ UNCHANGED switch /\ call[s].at \notin Writing
    BY <1>2, <1>6 DEF Serve, Writing
  <2> HIDE DEF r
  <2>3. call'[s] = r /\ \A x \in Session \ {s} : call'[x] = call[x]  BY <2>2 DEF TypeOK
  <2> QED  BY <2>1, <2>2, <2>3, SwitchUntouched
<1>7. ASSUME UNCHANGED <<switch, call>>  PROVE NoticeOrder' /\ Alone'
  BY <1>7, SwitchUntouched
<1>8. ASSUME NEW s \in Session, Disable(s)  PROVE NoticeOrder' /\ Alone'
  <2>1. /\ Write(s, FALSE, onboardingNoticeShown) /\ call[s].at \notin Writing
        /\ call' = [call EXCEPT ![s] = Call("disable")] /\ enabled
        /\ UNCHANGED <<enabled, onboardingNoticeShown, disk>>
    BY <1>8 DEF Disable, Writing
  <2>2. NoticeOrder'
    <3>1. Write(s, FALSE, onboardingNoticeShown') /\ onboardingNoticeShown' \in BOOLEAN
      BY <2>1 DEF TypeOK
    <3> QED  BY <2>1, <3>1, QueuedNotice
  <2>3. ASSUME ~overlap'  PROVE
           /\ Len(writes') <= 1 /\ writes' # << >> /\ writes'[1].by = s /\ ~writes'[1].state.enabled
           /\ call'[s].at = "disable" /\ Read(disk).enabled = enabled
           /\ \A x \in Session : call'[x].at # "health"
    <3>1. "disable" \in Writing /\ onboardingNoticeShown \in BOOLEAN  BY DEF Writing, TypeOK
    <3>2. /\ Len(writes') <= 1 /\ writes' # << >> /\ writes'[1].by = s /\ writes'[1].state.enabled = FALSE
          /\ call'[s].at = "disable" /\ Read(disk).enabled = enabled
          /\ \A x \in Session : call'[x].at # "health"
      BY <2>1, <2>3, <3>1, WritesAlone
    <3> QED  BY <3>2
  <2>4. Alone'
    <3>1. ~overlap' => AtWrite(call'[writes'[1].by].at, writes'[1].state.enabled,
                               Read(disk').enabled, enabled')
      BY <2>1, <2>3 DEF AtWrite
    <3>2. ~overlap' => /\ Len(writes') <= 1 /\ writes' # << >>
                       /\ \A x \in Session : call'[x].at # "health"
      BY <2>3, Zenon
    <3> QED  BY <3>1, <3>2, Zenon DEF Alone
  <2> QED  BY <2>2, <2>4
<1>9. ASSUME NEW s \in Session, Mount(s)  PROVE NoticeOrder' /\ Alone'
  <2>1. /\ Write(s, TRUE, onboardingNoticeShown) /\ call[s].at \notin Writing
        /\ call' = [call EXCEPT ![s] = Call("enable")] /\ enabled' = TRUE
        /\ UNCHANGED <<onboardingNoticeShown, disk>> /\ call[s].at = "health"
    BY <1>9 DEF Mount, Writing
  <2>2. NoticeOrder'
    <3>1. Write(s, TRUE, onboardingNoticeShown') /\ onboardingNoticeShown' \in BOOLEAN
      BY <2>1 DEF TypeOK
    <3> QED  BY <2>1, <3>1, QueuedNotice
  <2>3. ASSUME ~overlap'  PROVE
           /\ Len(writes') <= 1 /\ writes' # << >> /\ writes'[1].by = s /\ writes'[1].state.enabled
           /\ call'[s].at = "enable" /\ ~Read(disk).enabled
           /\ \A x \in Session : call'[x].at # "health"
    <3>1. "enable" \in Writing /\ onboardingNoticeShown \in BOOLEAN  BY DEF Writing, TypeOK
    <3>2. /\ Len(writes') <= 1 /\ writes' # << >> /\ writes'[1].by = s /\ writes'[1].state.enabled = TRUE
          /\ call'[s].at = "enable" /\ Read(disk).enabled = enabled /\ ~overlap
          /\ \A x \in Session : call'[x].at # "health"
      BY <2>1, <2>3, <3>1, WritesAlone
    <3>3. ~enabled  BY <2>1, <3>2 DEF Alone
    <3> QED  BY <3>2, <3>3
  <2>4. Alone'
    <3>1. ~overlap' => AtWrite(call'[writes'[1].by].at, writes'[1].state.enabled,
                               Read(disk').enabled, enabled')
      BY <2>1, <2>3 DEF AtWrite
    <3>2. ~overlap' => /\ Len(writes') <= 1 /\ writes' # << >>
                       /\ \A x \in Session : call'[x].at # "health"
      BY <2>3, Zenon
    <3> QED  BY <3>1, <3>2, Zenon DEF Alone
  <2> QED  BY <2>2, <2>4
<1>10. ASSUME NEW s \in Session, AppendFirstActivationNotice(s)  PROVE NoticeOrder' /\ Alone'
  <2>1. /\ Write(s, enabled, TRUE) /\ call[s].at \notin Writing
        /\ call' = [call EXCEPT ![s] = Call("notice")] /\ onboardingNoticeShown' = TRUE
        /\ UNCHANGED <<enabled, disk>>
    BY <1>10 DEF AppendFirstActivationNotice, Writing
  <2>2. NoticeOrder'
    <3>1. Write(s, enabled, onboardingNoticeShown') /\ onboardingNoticeShown' \in BOOLEAN
          /\ enabled \in BOOLEAN
      BY <2>1 DEF TypeOK
    <3> QED  BY <2>1, <3>1, QueuedNotice
  <2>3. ASSUME ~overlap'  PROVE
           /\ Len(writes') <= 1 /\ writes' # << >> /\ writes'[1].by = s /\ writes'[1].state.enabled = enabled
           /\ call'[s].at = "notice" /\ Read(disk).enabled = enabled
           /\ \A x \in Session : call'[x].at # "health"
    <3>1. "notice" \in Writing /\ enabled \in BOOLEAN  BY DEF Writing, TypeOK
    <3> QED  BY <2>1, <2>3, <3>1, WritesAlone
  <2>4. Alone'
    <3>1. ~overlap' => AtWrite(call'[writes'[1].by].at, writes'[1].state.enabled,
                               Read(disk').enabled, enabled')
      BY <2>1, <2>3 DEF AtWrite
    <3>2. ~overlap' => /\ Len(writes') <= 1 /\ writes' # << >>
                       /\ \A x \in Session : call'[x].at # "health"
      BY <2>3, Zenon
    <3> QED  BY <3>1, <3>2, Zenon DEF Alone
  <2> QED  BY <2>2, <2>4
<1>11. ASSUME NEW i \in DOMAIN writes, NEW ok \in BOOLEAN, WriteEnds(i, ok)
       PROVE  NoticeOrder' /\ Alone'
  <2>1. writes' = RemoveAt(writes, i) /\ i \in Started
        /\ UNCHANGED <<onboardingNoticeShown, overlap>>
    BY <1>11 DEF WriteEnds
  <2>2. /\ i = 1 /\ Len(writes) \in Nat /\ Len(writes) >= 1
        /\ writes' \in Seq([by: Session, state: State])
        /\ Len(writes') = Len(writes) - 1
        /\ \A k \in 1 .. Len(writes) - 1 : writes'[k] = writes[k + 1]
        /\ writes[1] \in [by: Session, state: State]
    BY <2>1, Unqueued
  <2>3. /\ DOMAIN writes = 1 .. Len(writes) /\ DOMAIN writes' = 1 .. Len(writes) - 1
    BY <2>2, LenProperties DEF TypeOK
  <2>4. \A k \in DOMAIN writes' : /\ k + 1 \in DOMAIN writes /\ writes'[k] = writes[k + 1]
                                 /\ 1 < k + 1
    BY <2>2, <2>3
  <2>5. Read(disk') = IF ok THEN writes[1].state ELSE Read(disk)
    BY <1>11, <2>2, ReadsBack DEF WriteEnds
  <2>6. 1 \in DOMAIN writes  BY <2>2, <2>3
  <2>7. NoticeOrder'
    <3>1. Read(disk').notice => onboardingNoticeShown'
      BY <2>1, <2>5, <2>6 DEF NoticeOrder, Ordered
    <3>2. \A k \in DOMAIN writes' :
             /\ writes'[k].state.notice => onboardingNoticeShown'
             /\ Read(disk').notice => writes'[k].state.notice
      <4> SUFFICES ASSUME NEW k \in DOMAIN writes'
                   PROVE  /\ writes'[k].state.notice => onboardingNoticeShown'
                          /\ Read(disk').notice => writes'[k].state.notice
        OBVIOUS
      <4>1. k + 1 \in DOMAIN writes /\ writes'[k] = writes[k + 1] /\ 1 < k + 1  BY <2>4
      <4>2. /\ writes[k + 1].state.notice => onboardingNoticeShown
            /\ Read(disk).notice => writes[k + 1].state.notice
            /\ writes[1].state.notice => writes[k + 1].state.notice
        BY <4>1, <2>6 DEF NoticeOrder, Ordered
      <4> QED  BY <4>1, <4>2, <2>1, <2>5
    <3>3. \A k, m \in DOMAIN writes' :
             k < m => (writes'[k].state.notice => writes'[m].state.notice)
      <4> SUFFICES ASSUME NEW k \in DOMAIN writes', NEW m \in DOMAIN writes', k < m
                   PROVE  writes'[k].state.notice => writes'[m].state.notice
        OBVIOUS
      <4>1. k + 1 < m + 1  BY <2>2, <2>3
      <4>2. k + 1 \in DOMAIN writes /\ m + 1 \in DOMAIN writes
            /\ writes'[k] = writes[k + 1] /\ writes'[m] = writes[m + 1]
        BY <2>4
      <4>3. writes[k + 1].state.notice => writes[m + 1].state.notice
        BY <4>1, <4>2 DEF NoticeOrder, Ordered
      <4> QED  BY <4>2, <4>3
    <3>4. Ordered(Read(disk').notice, writes', onboardingNoticeShown')
      BY <3>1, <3>2, <3>3 DEF Ordered
    <3> QED  BY <3>4 DEF NoticeOrder
  <2>8. ASSUME ~overlap'  PROVE
           /\ writes' = << >> /\ Len(writes') = 0
           /\ Read(disk').enabled = enabled'
           /\ \A x \in Session : call'[x].at = "health" => ~enabled'
    <3> DEFINE s == writes[1].by
               base == [call EXCEPT ![s] = NoCall]
    <3>1. ~overlap /\ Len(writes) = 1 /\ AtWrite(call[s].at, writes[1].state.enabled, Read(disk).enabled, enabled)
      <4>1. ~overlap /\ writes # << >>  BY <2>1, <2>2, <2>8, EmptySeq
      <4> QED  BY <4>1, <2>2 DEF Alone
    <3>2. Len(writes') = 0 /\ writes' = << >>  BY <3>1, <2>2, EmptySeq
    <3>3. s \in Session /\ base[s] = NoCall /\ \A x \in Session \ {s} : base[x] = call[x]
      BY <2>2, <1>2
    <3>4. CASE Unmounts(call[s].at, ok)
      <4>1. enabled' = FALSE  BY <1>11, <2>2, <3>4 DEF WriteEnds, Unmount
      <4>2. ~Read(disk').enabled
        BY <2>5, <3>1, <3>4 DEF Unmounts, AtWrite
      <4>3. Read(disk') \in State  BY <1>11, <2>2, Reads DEF WriteEnds, TypeOK
      <4> QED  BY <3>2, <4>1, <4>2, <4>3 DEF State
    <3>5. CASE ~Unmounts(call[s].at, ok)
      <4>1. enabled' = enabled /\ call' = base  BY <1>11, <2>2, <3>5 DEF WriteEnds, Ends
      <4>2. Read(disk').enabled = enabled
        <5>1. Read(disk) \in State /\ writes[1].state \in State /\ enabled \in BOOLEAN
          BY <2>2, Reads DEF TypeOK
        <5> QED  BY <5>1, <2>5, <3>1, <3>5 DEF Unmounts, AtWrite, State
      <4>3. \A x \in Session : call'[x].at = "health" => call[x].at = "health"
        BY <4>1, <3>3, <1>1, <1>3
      <4>4. \A x \in Session : call[x].at = "health" => ~enabled  BY <3>1 DEF Alone
      <4> QED  BY <3>2, <4>1, <4>2, <4>3, <4>4
    <3> QED  BY <3>4, <3>5
  <2>9. Alone'  BY <2>8 DEF Alone
  <2> QED  BY <2>7, <2>9
<1>12. CASE Restart
  <2>1. PICK file : /\ disk' = file /\ enabled' = Read(file).enabled
                    /\ onboardingNoticeShown' = Read(file).notice
    BY <1>12 DEF Restart
  <2>2. writes' = << >> /\ call' = [s \in Session |-> NoCall]  BY <1>12 DEF Restart
  <2>3. Len(writes') = 0 /\ DOMAIN writes' = {}  BY <2>2, EmptySeq
  <2>4. \A x \in Session : call'[x].at # "health"  BY <2>2, <1>1, <1>3
  <2>5. NoticeOrder'  BY <2>1, <2>3 DEF NoticeOrder, Ordered
  <2>6. Alone'  BY <2>1, <2>2, <2>3, <2>4 DEF Alone
  <2> QED  BY <2>5, <2>6
<1>13. CASE \E r \in stray : ServeStray(r)  BY <1>7, <1>13 DEF ServeStray
<1>14. CASE \E c \in Candidate : Review(c)  BY <1>7, <1>14 DEF Review
<1>15. CASE UNCHANGED vars  BY <1>7, <1>15 DEF vars
<1> QED
  BY <1>4, <1>5, <1>6, <1>8, <1>9, <1>10, <1>11, <1>12, <1>13, <1>14, <1>15 DEF Next

-----------------------------------------------------------------------------
\* The theorems.

LEMMA InitInv == Init => Inv
<1> SUFFICES ASSUME Init  PROVE Inv
  OBVIOUS
<1>1. /\ NoCall \in CallRecord /\ NoCall.at = "none" /\ ~NoCall.orphan
  BY CallTypes DEF Ats
<1>2. call \in [Session -> CallRecord] /\ \A s \in Session : call[s] = NoCall
  BY <1>1 DEF Init
<1>3. writes \in Seq([by: Session, state: State]) /\ DOMAIN writes = {} /\ Len(writes) = 0
  BY EmptySeq DEF Init
<1>4. Read(disk) \in State /\ disk \in State \cup {NoFile, Unreadable}  BY Reads DEF Init
<1>5. TypeOK
  <2>1. enabled \in BOOLEAN /\ onboardingNoticeShown \in BOOLEAN  BY <1>4 DEF Init, State
  <2>2. \A s \in Session : call[s].at \notin Writing  BY <1>1, <1>2 DEF Writing
  <2>3. /\ writeStates = [s \in Session |-> NULL] /\ told = [s \in Session |-> NULL]
        /\ service = [c \in Candidate |-> "none"]
        /\ stray = {} /\ elsewhere = {} /\ forgotten = {} /\ restarts = 0 /\ overlap = FALSE
    BY DEF Init
  <2>4. /\ writeStates \in [Session -> Candidate \cup {NULL}]
        /\ \A s \in Session : writeStates[s] \in {NULL} \cup {c \in Candidate : Owner[c] = s}
        /\ told \in [Session -> Candidate \cup {NULL}] /\ forgotten \subseteq Session
        /\ service \in [Candidate -> {"none", "candidate", "active", "rejected"}]
        /\ stray \subseteq Candidate \X (Strategy \cup {NULL}) /\ elsewhere \subseteq Candidate
        /\ restarts \in 0 .. MaxRestarts /\ overlap \in BOOLEAN
    <3>1. \A s \in Session : writeStates[s] = NULL  BY <2>3
    <3>2. \A s \in Session : writeStates[s] \in {NULL} \cup {c \in Candidate : Owner[c] = s}
      BY <3>1
    <3>3. restarts \in 0 .. MaxRestarts  BY <2>3, BoundAssumption
    <3> QED  BY <2>3, <3>2, <3>3
  <2>5. \A s \in Session : call[s].at \in Writing <=> \E i \in DOMAIN writes : writes[i].by = s
    BY <1>3, <2>2
  <2> QED
    BY <1>2, <1>3, <1>4, <2>1, <2>4, <2>5 DEF TypeOK, CallRecord, Ats, Writing
<1>6. Named /\ Conflicts
  BY <1>1, <1>2 DEF Init, Named, Conflicts, Orphaned, ConflictIsKept, Retried, Answered, Blocking
<1>7. NoticeOrder  BY <1>3, <1>4 DEF Init, NoticeOrder, Ordered, State
<1>8. Alone  BY <1>1, <1>2, <1>3 DEF Init, Alone
<1> QED  BY <1>5, <1>6, <1>7, <1>8 DEF Inv, Conflicts

LEMMA NextInv == Inv /\ [Next]_vars => Inv'
<1> SUFFICES ASSUME Inv, [Next]_vars  PROVE Inv'
  OBVIOUS
<1>1. TypeOK /\ Named /\ Conflicts /\ NoticeOrder /\ Alone  BY DEF Inv, Conflicts
<1>2. TypeOK' /\ Named'  BY <1>1, TypesStep
<1>3. Conflicts'  BY <1>1, ConflictsStep
<1>4. NoticeOrder' /\ Alone'  BY <1>1, SwitchStep
<1> QED  BY <1>2, <1>3, <1>4 DEF Inv, Conflicts

LEMMA InvAlways == Spec => []Inv
BY InitInv, NextInv, PTL DEF Spec

\* Every write of the state file has a call that awaits it, and a session is
\* blocked by nothing but a candidate of its own.
THEOREM PluginTypes == Spec => []TypeOK
<1>1. Inv => TypeOK  BY DEF Inv
<1> QED  BY <1>1, InvAlways, PTL

\* plugin.js, state.js: after failed writes, failed health checks and crashes
\* the file says whether the tools are mounted, as long as no two calls are
\* at the switch at once.
THEOREM RestartNeverChanges == Spec => []RestartChangesNothing
<1>1. Inv => RestartChangesNothing  BY DEF Inv, Alone, RestartChangesNothing
<1> QED  BY <1>1, InvAlways, PTL

\* state.js write: writes that reach the file in the order of their calls
\* never bring the first-activation notice back, of however many sessions.
THEOREM NoticeNeverReturns == Spec => NoticeStaysShown
<1>1. ASSUME Inv, [Next]_vars
      PROVE  [Read(disk).notice => Read(disk').notice]_vars
  <2> SUFFICES ASSUME Next, Read(disk).notice  PROVE Read(disk').notice
    BY <1>1 DEF vars, switch
  <2> DEFINE first == {writes[i].state : i \in Started}
  <2>1. disk' \in {disk} \cup first
    <3>1. CASE \E i \in DOMAIN writes, ok \in BOOLEAN : WriteEnds(i, ok)  BY <3>1 DEF WriteEnds
    <3>2. CASE Restart  BY <3>2 DEF Restart
    <3>3. CASE \E s \in Session :
                  \/ Disable(s) \/ Enable(s) \/ HealthFails(s) \/ Mount(s)
                  \/ Context(s) \/ ContextEnds(s) \/ AppendFirstActivationNotice(s)
                  \/ Propose(s) \/ ProposeEnds(s)
                  \/ \E c \in Candidate, strategy \in Strategy \cup {NULL} : Confirm(s, c, strategy)
                  \/ Serve(s) \/ Conflict(s) \/ Resolved(s) \/ Refused(s) \/ TimeOut(s)
      <4>1. disk' = disk
        BY <3>3 DEF Disable, Enable, HealthFails, Mount, Context, ContextEnds,
           AppendFirstActivationNotice, Propose, ProposeEnds, Confirm, Serve, Conflict,
           Resolved, Refused, TimeOut, switch
      <4> QED  BY <4>1
    <3>4. CASE \/ \E r \in stray : ServeStray(r)
               \/ \E c \in Candidate : Review(c)
      <4>1. disk' = disk  BY <3>4 DEF ServeStray, Review, switch
      <4> QED  BY <4>1
    <3> QED  BY <3>1, <3>2, <3>3, <3>4 DEF Next
  <2>2. ASSUME NEW i \in Started  PROVE Read(writes[i].state).notice
    <3>1. i \in DOMAIN writes /\ writes \in Seq([by: Session, state: State])
      BY <1>1 DEF Started, Inv, TypeOK
    <3>2. writes[i] \in [by: Session, state: State]  BY <3>1, ElementOfSeq, LenProperties
    <3>3. Read(writes[i].state) = writes[i].state  BY <3>2, ReadsBack
    <3>4. writes[i].state.notice  BY <3>1, <1>1 DEF Inv, NoticeOrder, Ordered
    <3> QED  BY <3>3, <3>4
  <2> QED  BY <2>1, <2>2
<1> QED  BY <1>1, InvAlways, PTL DEF Spec, NoticeStaysShown

\* plugin.js, memory_confirm: a session that was told of a conflict is blocked
\* until it is told of its end, and no other session is blocked by it.
THEOREM ConflictAlwaysKept == Spec => []ConflictIsKept
<1>1. Inv => ConflictIsKept  BY DEF Inv
<1> QED  BY <1>1, InvAlways, PTL

\* plugin.js, memory_confirm: only a lost answer or another's decision leaves
\* a session blocked by a candidate that is decided.
THEOREM BlockedAlwaysForAReason == Spec => []BlockedForAReason
<1>1. Inv => BlockedForAReason
  <2> SUFFICES ASSUME Inv, NEW s \in Session, call[s].at = "none", writeStates[s] # NULL
               PROVE  Open(writeStates[s])
    BY DEF BlockedForAReason, Open
  <2> QED  BY DEF Inv, Blocking
<1> QED  BY <1>1, InvAlways, PTL
=============================================================================
