-------------------------- MODULE ContextSessions --------------------------
(***************************************************************************)
(* The context requests of client sessions (core.js of the harness plugin) *)
(* in mode msc (context/compiler.py), and the snapshots kept for deltas    *)
(* (context/delta.py).  A request reads the candidates, loads and cleans    *)
(* snapshots and stores its own in separate transactions; other requests,  *)
(* memory changes, the clock, a restore of the database and other settings *)
(* come in between, and an answer may be lost.  Atoms are opaque; token    *)
(* counts are a choice where they decide.                                  *)
(***************************************************************************)
EXTENDS DeltaPlan, Sequences, FiniteSets

CONSTANTS
    Session,
    Scope,            \* what scope_fingerprint is taken of
    Candidates,       \* by scope: the sets of atoms that retrieval finds as
                      \* the memories change
    Policy,           \* values of policy_hash and tokenizer_id
    TTL, Batch,       \* context_snapshot_ttl_seconds and _cleanup_batch_size
    MaxContexts, MaxClock,
    NULL

ASSUME CandidatesAssumption ==
    Candidates \in [Scope -> SUBSET SUBSET Atom] /\ \A s \in Scope : Candidates[s] # {}

ASSUME BoundsAssumption ==
    /\ TTL \in Nat \ {0} /\ Batch \in Nat \ {0}
    /\ MaxContexts \in Nat /\ MaxClock \in Nat

ASSUME NullAssumption == NULL \notin Nat \cup Scope

VARIABLES
    clock,
    issued,           \* how many contexts have been compiled: their ids
    snapshots,        \* the table context_snapshots, by id
    client,           \* by session: the last context core.js knows answered
    request,          \* by session: the request under way
    agent             \* by session: what its agent has read, and (not stored
                      \* anywhere) what was compiled for it

vars == <<clock, issued, snapshots, client, request, agent>>

-----------------------------------------------------------------------------
Id == 1 .. MaxContexts

Snapshot == [scope: Scope, policy: Policy, items: SUBSET Atom, expires: Nat]

NoPlan == [added |-> {}, changed |-> {}, removed |-> {}]
Full(items) == [base |-> NULL, items |-> items, plan |-> NoPlan]
Delta(id, plan) == [base |-> id, items |-> {}, plan |-> plan]

Answer == [base: Id \cup {NULL}, items: SUBSET Atom,
           plan: [added: SUBSET Atom, changed: SUBSET Atom, removed: SUBSET Atom]]

NoRequest == [at |-> "none", scope |-> NULL, previous |-> NULL, policy |-> NULL,
              required |-> {}, selected |-> {}, base |-> NULL, id |-> NULL,
              answer |-> NULL, orphan |-> FALSE]

Request == [at: {"none", "asked", "compiled", "looked", "planned", "answered"},
            scope: Scope \cup {NULL}, previous: Id \cup {NULL},
            policy: Policy \cup {NULL}, required: SUBSET Atom,
            selected: SUBSET Atom, base: (SUBSET Atom) \cup {NULL},
            id: Id \cup {NULL}, answer: Answer \cup {NULL}, orphan: BOOLEAN]

\* `view' is what an agent has read.  The rest is for the properties: what was
\* selected, and required, for its last context, of which scope, and whether
\* every delta since the last full context was legible.
NoContext == [id |-> NULL, scope |-> NULL, view |-> {}, meant |-> {},
              required |-> {}, legible |-> TRUE]

Held == [id: Id \cup {NULL}, scope: Scope \cup {NULL}, view: SUBSET Atom,
         meant: SUBSET Atom, required: SUBSET Atom, legible: BOOLEAN]

\* One type invariant: every row of context_snapshots is of a context.
TypeOK ==
    /\ clock \in Nat
    /\ issued \in 0 .. MaxContexts
    /\ DOMAIN snapshots \subseteq 1 .. issued
    /\ \A id \in DOMAIN snapshots : snapshots[id] \in Snapshot
    /\ client \in [Session -> 1 .. issued \cup {NULL}]
    /\ request \in [Session -> Request]
    /\ agent \in [Session -> Held]

Init ==
    /\ clock = 0
    /\ issued = 0
    /\ snapshots = << >>
    /\ client = [s \in Session |-> NULL]
    /\ request = [s \in Session |-> NoRequest]
    /\ agent = [s \in Session |-> NoContext]

-----------------------------------------------------------------------------
\* The client.

\* context: the first call asks for a full context, later ones for a delta
\* to the last context that was answered.
Ask(s, scope) ==
    /\ request[s].at = "none"
    /\ issued < MaxContexts
    /\ request' = [request EXCEPT ![s] =
           [NoRequest EXCEPT !.at = "asked", !.scope = scope,
               !.previous = client[s]]]
    /\ UNCHANGED <<clock, issued, snapshots, client, agent>>

\* The agent reads the answer; the client notes it, unless its state was
\* cleared meanwhile and it notes it in a state nobody will read.
Read(held, r) ==
    [id |-> r.id, scope |-> r.scope, meant |-> r.selected, required |-> r.required,
     view |-> IF r.answer.base = NULL THEN r.answer.items
              ELSE Applied(held.view, r.answer.plan),
     legible |-> r.answer.base # NULL => held.legible /\ Legible(r.base, r.selected)]

Receive(s) ==
    LET r == request[s]
    IN  /\ r.at = "answered"
        /\ agent' = [agent EXCEPT ![s] = Read(agent[s], r)]
        /\ client' = IF r.orphan THEN client
                     ELSE [client EXCEPT ![s] = r.id]
        /\ request' = [request EXCEPT ![s] = NoRequest]
        /\ UNCHANGED <<clock, issued, snapshots>>

\* Mutant: the client notes the context it has asked for before it arrives.
FailNoted(s) ==
    /\ request[s].at # "none"
    /\ client' = [client EXCEPT ![s] = IF request[s].id = NULL THEN @ ELSE request[s].id]
    /\ request' = [request EXCEPT ![s] = NoRequest]
    /\ UNCHANGED <<clock, issued, snapshots, agent>>

\* A timeout, a lost answer, an error of the server (InsufficientBudgetError
\* among them): the client learns nothing and keeps its state.
Fail(s) ==
    /\ request[s].at # "none"
    /\ request' = [request EXCEPT ![s] = NoRequest]
    /\ UNCHANGED <<clock, issued, snapshots, client, agent>>

\* The memory control disables the plugin: client.states.clear().
Unmount ==
    /\ client' = [s \in Session |-> NULL]
    /\ request' = [s \in Session |->
           IF request[s].at = "none" THEN NoRequest
           ELSE [request[s] EXCEPT !.orphan = TRUE]]
    /\ client' # client
    /\ UNCHANGED <<clock, issued, snapshots, agent>>

-----------------------------------------------------------------------------
\* The server.

\* Mutant: contested atoms compete for the budget one by one.
SelectionsSingly(atoms) ==
    {S \in SUBSET atoms : \A a \in atoms : a.pinned => a \in S}

\* build_bundles and the selection: contested atoms come by whole bundle and
\* are required, pinned ones and the winners of coverage too, others while
\* the budget lasts.
Selections(atoms) ==
    {S \in SUBSET atoms : \A a \in atoms : Guarded(a) => a \in S}

\* What the memories are by now is read and selected from, under a policy
\* that the settings of the server and the budget of the request make.  What
\* was found may well be one side of a conflict without the other.
Compile(s) ==
    /\ request[s].at = "asked"
    /\ \E found \in Candidates[request[s].scope], policy \in Policy :
          \E selected \in Selections(found) :
             request' = [request EXCEPT ![s] =
                 [request[s] EXCEPT
                     !.at = IF request[s].previous = NULL THEN "planned" ELSE "compiled",
                     !.required = {a \in found : Guarded(a)},
                     !.selected = selected, !.policy = policy]]
    /\ UNCHANGED <<clock, issued, snapshots, client, agent>>

\* Mutant: the scope is not compared.
UsableAnywhere(id, r) ==
    /\ id \in DOMAIN snapshots
    /\ snapshots[id].expires > clock
    /\ snapshots[id].policy = r.policy

\* load_valid: the row must exist, not have expired, and be of the scope, the
\* policy and the tokenizer of the request.
Usable(id, r) ==
    /\ id \in DOMAIN snapshots
    /\ snapshots[id].expires > clock
    /\ snapshots[id].scope = r.scope
    /\ snapshots[id].policy = r.policy

Look(s) ==
    LET r == request[s]
    IN  /\ r.at = "compiled"
        /\ request' = [request EXCEPT ![s] =
               [r EXCEPT !.at = "looked",
                         !.base = IF Usable(r.previous, r)
                                  THEN snapshots[r.previous].items ELSE NULL]]
        /\ UNCHANGED <<clock, issued, snapshots, client, agent>>

\* cleanup_expired, in a transaction of its own: the oldest expired rows of
\* the scope, at most a batch of them.
Expired(scope) ==
    {id \in DOMAIN snapshots :
        snapshots[id].scope = scope /\ snapshots[id].expires <= clock}

Oldest(ids) ==
    {D \in SUBSET ids :
        /\ Cardinality(D) = IF Cardinality(ids) < Batch THEN Cardinality(ids) ELSE Batch
        /\ \A d \in D, e \in ids \ D : snapshots[d].expires <= snapshots[e].expires}

Clean(s) ==
    /\ request[s].at = "looked"
    /\ \E D \in Oldest(Expired(request[s].scope)) :
          snapshots' = [id \in DOMAIN snapshots \ D |-> snapshots[id]]
    /\ request' = [request EXCEPT ![s].at = "planned"]
    /\ UNCHANGED <<clock, issued, client, agent>>

\* A delta if there is a base and it is cheap enough, else the full context.
Answers(r) ==
    {Full(r.selected)}
    \cup (IF r.base = NULL THEN {}
          ELSE {Delta(r.previous, Plan(r.base, r.selected))})

\* The snapshot of what was selected is stored whatever is answered.
Deliver(s) ==
    LET r  == request[s]
        id == issued + 1
    IN  /\ r.at = "planned"
        /\ issued < MaxContexts
        /\ issued' = id
        /\ snapshots' = [i \in DOMAIN snapshots \cup {id} |->
               IF i = id THEN [scope |-> r.scope, policy |-> r.policy,
                               items |-> r.selected, expires |-> clock + TTL]
               ELSE snapshots[i]]
        /\ \E answer \in Answers(r) :
              request' = [request EXCEPT ![s] =
                  [r EXCEPT !.at = "answered", !.id = id, !.answer = answer]]
        /\ UNCHANGED <<clock, client, agent>>

-----------------------------------------------------------------------------
\* What else happens to the database and the server.

Tick ==
    /\ clock < MaxClock
    /\ clock' = clock + 1
    /\ UNCHANGED <<issued, snapshots, client, request, agent>>

\* Mutant: ids begin again.
RestoreRenumbers ==
    /\ snapshots # << >>
    /\ snapshots' = << >> /\ issued' = 0
    /\ UNCHANGED <<clock, client, request, agent>>

\* restore_backup and import_jsonl delete every snapshot.
Restore ==
    /\ snapshots # << >>
    /\ snapshots' = << >>
    /\ UNCHANGED <<clock, issued, client, request, agent>>

Next ==
    \/ \E s \in Session : \/ \E scope \in Scope : Ask(s, scope)
                          \/ Compile(s) \/ Look(s) \/ Clean(s) \/ Deliver(s)
                          \/ Receive(s) \/ Fail(s)
    \/ Tick \/ Restore \/ Unmount

Spec == Init /\ [][Next]_vars

-----------------------------------------------------------------------------
\* Safety.

\* The agent holds what the server means it to hold: what it has read, put
\* together from full contexts and deltas over any number of requests, lost
\* answers, changes, restores and settings, is what was compiled last for it,
\* unless some delta since the last full context was not legible to it.
ViewIsContext ==
    \A s \in Session : agent[s].legible => agent[s].view = agent[s].meant

\* A delta is relative to what its reader has read last.
BaseIsHeld ==
    \A s \in Session : request[s].at = "answered" =>
        request[s].answer.base \in {NULL, agent[s].id}

Says(plan) == plan.added \cup plan.changed \cup plan.removed

\* A delta that says anything of a bundle with a pinned or contested atom, now
\* or in its base, speaks for every memory with a current atom in the bundle:
\* one side of a conflict is never updated without the other side beside it.
\* (Of two sides that are claims of one memory it may well tell only one.)
ContestedTogether ==
    \A s \in Session :
        LET r == request[s] IN
        r.at = "answered" /\ r.answer.base # NULL =>
            \A a \in Says(r.answer.plan), b \in r.selected :
                /\ b.bundle = a.bundle
                /\ a.bundle \in SafetyBundles(r.base, r.selected)
                => Key(b) \in Keys(r.answer.plan.added \cup r.answer.plan.changed)

\* An answer names atoms of its own scope only, its REMOVED lines included,
\* and what an agent has put together is of one scope: that of the context it
\* has read last, whichever scopes it has asked about before.
NothingForeign ==
    \A s \in Session :
        LET r == request[s] IN
        /\ r.at = "answered" =>
              r.answer.items \cup Says(r.answer.plan) \subseteq UNION Candidates[r.scope]
        /\ \A a \in agent[s].view : a \in UNION Candidates[agent[s].scope]

\* Whatever was found for a context that is pinned or contested is before the
\* agent that has read it, legible deltas included: no budget leaves an agent
\* with one side of a conflict when retrieval has found the other side too.
RequiredIsHeld ==
    \A s \in Session : agent[s].legible => agent[s].required \subseteq agent[s].view

\* What the documents say of the program and the program does not do.

\* An agent that reads a delta holds the context that was selected for it.
EveryViewIsContext == \A s \in Session : agent[s].view = agent[s].meant
=============================================================================
