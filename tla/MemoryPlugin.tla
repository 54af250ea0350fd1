--------------------------- MODULE MemoryPlugin ---------------------------
(***************************************************************************)
(* integrations/deepseek-harness-memoryos: the switch that shows and hides *)
(* the memory tools and its state file (lib/plugin.js, lib/state.js), and  *)
(* the write profile's memory_propose and memory_confirm against the       *)
(* service.  One process, many sessions: a session has one tool call at a  *)
(* time, and between two awaits of a call other sessions' calls run.       *)
(*                                                                         *)
(* A request that the client gives up on may still reach the service, and  *)
(* an answer may be lost.                                                  *)
(***************************************************************************)
EXTENDS Naturals, Sequences, SequencesExt, FiniteSets, FiniteSetsExt

CONSTANTS
    Session,
    Candidate,        \* the memories that may be proposed
    Owner,            \* the session in which each is proposed
    Conflicting,      \* those that conflict with an active memory
    EnabledAtFirst,   \* config.enabled, for a first start without a file
    MaxRestarts,      \* bound
    MaxStray,         \* bound: more abandoned requests than this are lost
    NoFile, Unreadable, NULL

State == [enabled: BOOLEAN, notice: BOOLEAN]

ASSUME CandidateAssumption ==
    Conflicting \subseteq Candidate /\ Owner \in [Candidate -> Session]

ASSUME FileAssumption ==
    NoFile \notin State /\ Unreadable \notin State /\ NoFile # Unreadable

ASSUME NullAssumption ==
    NULL \notin Candidate \cup {"refused", "conflict", "rejected", "active"}

ASSUME BoundAssumption == EnabledAtFirst \in BOOLEAN /\ MaxRestarts \in Nat

VARIABLES
    enabled,          \* the memory tools are mounted
    onboardingNoticeShown,
    disk,             \* the state file: its state, NoFile or Unreadable
    writes,           \* stateStore's queue: the session that waits, the state
    call,             \* by session: the tool call under way
    writeStates,      \* by session: pendingConflict
    service,          \* by candidate: its status in the service
    stray,            \* confirms nobody waits for that may yet arrive
    told,             \* by session: the conflict its agent has been told of
                      \* and not told the end of (not stored)
    forgotten,        \* sessions whose write state was cleared since (not stored)
    elsewhere,        \* candidates that were resolved and the session got no
                      \* answer that says so (not stored)
    overlap,          \* two calls were at the switch at once (not stored)
    restarts

switch  == <<enabled, onboardingNoticeShown, disk, writes, overlap>>
remote  == <<service, stray, elsewhere>>
agents  == <<told, forgotten>>
vars    == <<switch, call, writeStates, remote, agents, restarts>>


\* supersede and keep_both are one to the plugin.
Strategy == {"keep", "reject"}

NoCall == [at |-> "none", candidate |-> NULL, strategy |-> NULL, orphan |-> FALSE,
           answer |-> NULL]

Call(at) == [NoCall EXCEPT !.at = at]

Ends(s) == call' = [call EXCEPT ![s] = NoCall]

-----------------------------------------------------------------------------
\* state.js

\* read: no file is a first start, an unreadable one disables.
Read(file) ==
    CASE file = NoFile        -> [enabled |-> EnabledAtFirst, notice |-> FALSE]
      [] file = Unreadable    -> [enabled |-> FALSE, notice |-> FALSE]
      [] OTHER                -> file

\* Calls that read or change the switch, from their first step to their end.
Switching(s) == call[s].at \in {"health", "disable", "enable", "notice"}

\* write: queued behind the writes under way.
Write(s, on, shown) ==
    /\ writes' = Append(writes, [by |-> s, state |-> [enabled |-> on, notice |-> shown]])
    /\ overlap' = (overlap \/ \E other \in Session \ {s} : Switching(other))

-----------------------------------------------------------------------------
\* plugin.js: mounting and unmounting.

\* Mutant: calls under way end with the tools.
UnmountAborts(calls) ==
    /\ enabled' = FALSE
    /\ writeStates' = [s \in Session |-> NULL]
    /\ forgotten' = Session
    /\ call' = [s \in Session |-> NoCall]

\* unmountMemoryTools, clearRuntimeState: a call under way keeps the state
\* object it took, which no later call will see.
Unmount(calls) ==
    /\ enabled' = FALSE
    /\ writeStates' = [s \in Session |-> NULL]
    /\ forgotten' = Session
    /\ call' = [s \in Session |-> IF calls[s].at = "none" THEN NoCall
                               ELSE [calls[s] EXCEPT !.orphan = TRUE]]

\* memoryos_control, disable.
Disable(s) ==
    /\ call[s].at = "none" /\ enabled
    /\ Write(s, FALSE, onboardingNoticeShown)
    /\ call' = [call EXCEPT ![s] = Call("disable")]
    /\ UNCHANGED <<enabled, onboardingNoticeShown, disk, writeStates, remote, agents, restarts>>

\* memoryos_control, enable: the health check comes first.
Enable(s) ==
    /\ call[s].at = "none" /\ ~enabled
    /\ call' = [call EXCEPT ![s] = Call("health")]
    /\ UNCHANGED <<switch, writeStates, remote, agents, restarts>>

HealthFails(s) ==
    /\ call[s].at = "health"
    /\ Ends(s)
    /\ UNCHANGED <<switch, writeStates, remote, agents, restarts>>

\* mountMemoryTools (a registration that throws is undone and ends the call
\* as a failed health check does), then the write.
Mount(s) ==
    /\ call[s].at = "health"
    /\ enabled' = TRUE
    /\ Write(s, TRUE, onboardingNoticeShown)
    /\ call' = [call EXCEPT ![s] = Call("enable")]
    /\ UNCHANGED <<onboardingNoticeShown, disk, writeStates, remote, agents, restarts>>

\* memory_context; its answer carries the first-activation notice once.
Context(s) ==
    /\ call[s].at = "none" /\ enabled
    /\ call' = [call EXCEPT ![s] = Call("context")]
    /\ UNCHANGED <<switch, writeStates, remote, agents, restarts>>

ContextEnds(s) ==
    /\ call[s].at = "context"
    /\ Ends(s)
    /\ UNCHANGED <<switch, writeStates, remote, agents, restarts>>

AppendFirstActivationNotice(s) ==
    /\ call[s].at = "context" /\ ~onboardingNoticeShown
    /\ onboardingNoticeShown' = TRUE
    /\ Write(s, enabled, TRUE)
    /\ call' = [call EXCEPT ![s] = Call("notice")]
    /\ UNCHANGED <<enabled, disk, writeStates, remote, agents, restarts>>

\* Mutant: enable does not undo the mount when its write fails.
UndoesNothing(at, ok) == at = "disable" /\ ok

\* What the end of its write makes of a call.
Unmounts(at, ok) == (at = "disable" /\ ok) \/ (at = "enable" /\ ~ok)

\* Mutant: every write starts at once.
StartedUnqueued == DOMAIN writes

\* The write that is under way, the first of the queue.
Started == {1} \cap DOMAIN writes

\* A write ends, by a rename or by an error, and the call that awaits it
\* goes on to its end.
WriteEnds(i, ok) ==
    LET w == writes[i]
    IN  /\ i \in Started
        /\ disk' = IF ok THEN w.state ELSE disk
        /\ IF Unmounts(call[w.by].at, ok)
           THEN Unmount([call EXCEPT ![w.by] = NoCall])
           ELSE Ends(w.by) /\ UNCHANGED <<enabled, writeStates, forgotten>>
        /\ writes' = RemoveAt(writes, i)
        /\ UNCHANGED <<onboardingNoticeShown, overlap, remote, told, restarts>>

-----------------------------------------------------------------------------
\* The write profile.

\* memory_propose: not while a conflict is pending.
Propose(s) ==
    /\ call[s].at = "none" /\ enabled
    /\ writeStates[s] = NULL
    /\ call' = [call EXCEPT ![s] = Call("propose")]
    /\ UNCHANGED <<switch, writeStates, remote, agents, restarts>>

\* The service stores the candidate, or the request fails; without its
\* answer a candidate has no name in the session.
ProposeEnds(s) ==
    /\ call[s].at = "propose"
    /\ \/ \E c \in Candidate :
             Owner[c] = s /\ service[c] = "none" /\ service' = [service EXCEPT ![c] = "candidate"]
       \/ UNCHANGED service
    /\ Ends(s)
    /\ UNCHANGED <<switch, writeStates, stray, elsewhere, agents, restarts>>

\* memory_confirm: only the pending candidate, and then with a strategy.
Confirm(s, c, strategy) ==
    /\ call[s].at = "none" /\ enabled
    /\ Owner[c] = s /\ service[c] # "none"
    /\ writeStates[s] # NULL => writeStates[s] = c /\ strategy # NULL
    /\ call' = [call EXCEPT ![s] = [Call("confirm") EXCEPT
                   !.candidate = c, !.strategy = strategy]]
    /\ UNCHANGED <<switch, writeStates, remote, agents, restarts>>

\* engine/service.py confirm, as the plugin can tell its answers apart.
Answer(c, strategy) ==
    IF service[c] # "candidate" THEN "refused"
    ELSE IF c \in Conflicting /\ strategy = NULL THEN "conflict"
    ELSE IF strategy = "reject" THEN "rejected" ELSE "active"

Settled(c, strategy) ==
    IF Answer(c, strategy) \in {"rejected", "active"}
    THEN [service EXCEPT ![c] = Answer(c, strategy)] ELSE service

Serve(s) ==
    LET r == call[s]
    IN  /\ r.at = "confirm" /\ r.answer = NULL
        /\ service' = Settled(r.candidate, r.strategy)
        /\ call' = [call EXCEPT ![s].answer = Answer(r.candidate, r.strategy)]
        /\ UNCHANGED <<switch, writeStates, stray, elsewhere, agents, restarts>>

\* Mutant: a conflict is an error like any other.
ConflictThrown(s) == writeStates

AfterConflict(s) == [writeStates EXCEPT ![s] = call[s].candidate]

\* The conflict is kept in the state object the call began with.
Conflict(s) ==
    /\ call[s].at = "confirm" /\ call[s].answer = "conflict"
    /\ IF call[s].orphan THEN UNCHANGED <<writeStates, forgotten>>
       ELSE /\ writeStates' = AfterConflict(s)
            /\ forgotten' = forgotten \ {s}
    /\ told' = [told EXCEPT ![s] = call[s].candidate]
    /\ Ends(s)
    /\ UNCHANGED <<switch, remote, restarts>>

\* Mutant: only an activation resolves a conflict.
ResolvedIfActive(s) ==
    IF call[s].answer = "active" THEN [writeStates EXCEPT ![s] = NULL] ELSE writeStates

AfterResolution(s) == [writeStates EXCEPT ![s] = NULL]

\* The candidate is active or rejected: nothing is pending.
Resolved(s) ==
    /\ call[s].at = "confirm" /\ call[s].answer \in {"active", "rejected"}
    /\ IF call[s].orphan THEN UNCHANGED <<writeStates, forgotten>>
       ELSE /\ writeStates' = AfterResolution(s)
            /\ forgotten' = forgotten \ {s}
    /\ told' = [told EXCEPT ![s] = NULL]
    /\ Ends(s)
    /\ UNCHANGED <<switch, remote, restarts>>

\* Any other error is thrown.
Refused(s) ==
    /\ call[s].at = "confirm" /\ call[s].answer = "refused"
    /\ Ends(s)
    /\ UNCHANGED <<switch, writeStates, remote, agents, restarts>>

Abandoned(requests) ==
    IF Cardinality(stray \cup requests) <= MaxStray THEN stray \cup requests ELSE stray

\* The client gives up, before or after the service has handled the request.
TimeOut(s) ==
    LET r == call[s]
    IN  /\ r.at = "confirm"
        /\ IF r.answer = NULL
           THEN /\ stray' = Abandoned({<<r.candidate, r.strategy>>})
                /\ UNCHANGED elsewhere
           ELSE /\ elsewhere' = elsewhere \cup
                      (IF r.answer \in {"active", "rejected"} THEN {r.candidate} ELSE {})
                /\ UNCHANGED stray
        /\ Ends(s)
        /\ UNCHANGED <<switch, writeStates, service, agents, restarts>>

\* A confirm that nobody waits for is handled, or lost.
ServeStray(r) ==
    /\ r \in stray
    /\ stray' = stray \ {r}
    /\ \/ /\ service' = Settled(r[1], r[2])
          /\ elsewhere' = IF service' = service THEN elsewhere ELSE elsewhere \cup {r[1]}
       \/ UNCHANGED <<service, elsewhere>>
    /\ UNCHANGED <<switch, call, writeStates, agents, restarts>>

\* Somebody decides on the candidate in the workbench.
Review(c) ==
    /\ service[c] = "candidate"
    /\ \E status \in {"active", "rejected"} : service' = [service EXCEPT ![c] = status]
    /\ elsewhere' = elsewhere \cup {c}
    /\ UNCHANGED <<switch, call, writeStates, stray, agents, restarts>>

-----------------------------------------------------------------------------
\* The process ends, with a write perhaps renamed and perhaps not, and is
\* started again.
Restart ==
    /\ restarts < MaxRestarts
    /\ restarts' = restarts + 1
    /\ \E file \in {disk} \cup {writes[i].state : i \in Started} :
          /\ disk' = file
          /\ enabled' = Read(file).enabled
          /\ onboardingNoticeShown' = Read(file).notice
    /\ writes' = << >> /\ overlap' = FALSE
    /\ call' = [s \in Session |-> NoCall]
    /\ writeStates' = [s \in Session |-> NULL]
    /\ stray' = Abandoned({<<call[s].candidate, call[s].strategy>> :
                   s \in {x \in Session : call[x].at = "confirm" /\ call[x].answer = NULL}})
    /\ elsewhere' = elsewhere \cup {call[s].candidate :
                   s \in {x \in Session : call[x].at = "confirm"
                                          /\ call[x].answer \in {"active", "rejected"}}}
    /\ forgotten' = Session
    /\ UNCHANGED <<service, told>>

Init ==
    /\ disk \in State \cup {NoFile, Unreadable}
    /\ enabled = Read(disk).enabled
    /\ onboardingNoticeShown = Read(disk).notice
    /\ writes = << >> /\ overlap = FALSE
    /\ call = [s \in Session |-> NoCall]
    /\ writeStates = [s \in Session |-> NULL]
    /\ service = [c \in Candidate |-> "none"]
    /\ stray = {} /\ elsewhere = {}
    /\ told = [s \in Session |-> NULL] /\ forgotten = {}
    /\ restarts = 0

Next ==
    \/ \E s \in Session :
          \/ Disable(s) \/ Enable(s) \/ HealthFails(s) \/ Mount(s)
          \/ Context(s) \/ ContextEnds(s) \/ AppendFirstActivationNotice(s)
          \/ Propose(s) \/ ProposeEnds(s)
          \/ \E c \in Candidate, strategy \in Strategy \cup {NULL} : Confirm(s, c, strategy)
          \/ Serve(s) \/ Conflict(s) \/ Resolved(s) \/ Refused(s) \/ TimeOut(s)
    \/ \E i \in DOMAIN writes, ok \in BOOLEAN : WriteEnds(i, ok)
    \/ \E r \in stray : ServeStray(r)
    \/ \E c \in Candidate : Review(c)
    \/ Restart

Spec == Init /\ [][Next]_vars

-----------------------------------------------------------------------------
\* Who waits for a write is in a call that wrote, and only the session that
\* proposed a candidate has it pending.
TypeOK ==
    /\ enabled \in BOOLEAN /\ onboardingNoticeShown \in BOOLEAN /\ overlap \in BOOLEAN
    /\ disk \in State \cup {NoFile, Unreadable}
    /\ writes \in Seq([by: Session, state: State])
    /\ \A i, k \in DOMAIN writes : writes[i].by = writes[k].by => i = k
    /\ call \in [Session -> [at: {"none", "disable", "health", "enable", "context",
                                "notice", "propose", "confirm"},
                            candidate: Candidate \cup {NULL},
                            strategy: Strategy \cup {NULL}, orphan: BOOLEAN,
                            answer: {NULL, "refused", "conflict", "rejected", "active"}]]
    /\ \A s \in Session :
          call[s].at \in {"disable", "enable", "notice"}
             <=> \E i \in DOMAIN writes : writes[i].by = s
    /\ writeStates \in [Session -> Candidate \cup {NULL}]
    /\ \A s \in Session : writeStates[s] \in {NULL} \cup {c \in Candidate : Owner[c] = s}
    /\ told \in [Session -> Candidate \cup {NULL}] /\ forgotten \subseteq Session
    /\ service \in [Candidate -> {"none", "candidate", "active", "rejected"}]
    /\ stray \subseteq Candidate \X (Strategy \cup {NULL}) /\ elsewhere \subseteq Candidate
    /\ restarts \in 0 .. MaxRestarts

\* "The atomic local state survives DSH restarts": when no write is under
\* way the state file says whether the tools are mounted, also after failed
\* writes, failed health checks and crashes.  It says so as long as no two
\* calls were at the switch at once.
RestartChangesNothing ==
    writes = << >> /\ ~overlap => Read(disk).enabled = enabled

\* The same of any calls.
SwitchSurvivesRestart ==
    writes = << >> => Read(disk).enabled = enabled

\* Once the file says that the first-activation notice was shown no later
\* write, of any session, forgets it, and so it is not shown again.
NoticeStaysShown == [][Read(disk).notice => Read(disk').notice]_vars

\* A session whose agent was told of a conflict cannot propose another
\* candidate before it is told of the end of that conflict, and can then,
\* until a switch off or a restart forgets the conflict.
ConflictIsKept ==
    \A s \in Session \ forgotten : writeStates[s] = told[s]

\* A session is blocked by a candidate that is decided in the service only
\* if it got no answer that says so: the answer was lost, or somebody else
\* decided.
BlockedForAReason ==
    \A s \in Session :
        call[s].at = "none" /\ writeStates[s] # NULL =>
            service[writeStates[s]] = "candidate" \/ writeStates[s] \in elsewhere

\* The plugin "blocks replacement proposals until the same candidate is
\* resolved", and no longer.
BlockedUntilResolved ==
    \A s \in Session :
        call[s].at = "none" /\ writeStates[s] # NULL => service[writeStates[s]] = "candidate"
=============================================================================
