----------------------- MODULE ContextSessionsProofs -----------------------
(***************************************************************************)
(* A delta rebuilds the context it stands for, and so an agent always holds *)
(* the context that was compiled for it, whatever the atoms, the number of  *)
(* sessions, the settings and the bounds, as long as the deltas it has read *)
(* since its last full context were legible.                               *)
(***************************************************************************)
EXTENDS ContextSessions, TLAPS

-----------------------------------------------------------------------------
\* plan_delta.

\* In a set with unique keys the dictionary has each atom under its key.
LEMMA DictionaryEntry ==
    ASSUME NEW S \in SUBSET Atom, UniqueKeys(S), NEW a \in S
    PROVE  At(S, Key(a)) = a
<1> DEFINE Entry(b) == b \in S /\ Key(b) = Key(a)
                         /\ \A c \in S : Key(c) = Key(a) => c.sha <= b.sha
<1>1. Entry(a)
  <2>1. a.sha \in Nat  BY AtomAssumption
  <2>2. ASSUME NEW c \in S, Key(c) = Key(a)  PROVE c.sha <= a.sha
    <3>1. c = a  BY <2>2 DEF UniqueKeys, SameClaim, Key
    <3> QED  BY <3>1, <2>1
  <2> QED  BY <2>2
<1>2. Entry(CHOOSE b : Entry(b))
  BY <1>1
<1>3. At(S, Key(a)) = CHOOSE b : Entry(b)
  BY DEF At
<1>4. Key(At(S, Key(a))) = Key(a) /\ At(S, Key(a)) \in S
  BY <1>2, <1>3
<1> QED  BY <1>4 DEF UniqueKeys, SameClaim, Key

\* Any dictionary has some atom of its set under each key of the set.
LEMMA DictionaryHas ==
    ASSUME NEW S \in SUBSET Atom, NEW k \in Keys(S)
    PROVE  At(S, k) \in S /\ Key(At(S, k)) = k
<1> DEFINE same == {a \in S : Key(a) = k}
           Entry(b) == b \in S /\ Key(b) = k
                         /\ \A c \in S : Key(c) = k => c.sha <= b.sha
<1>1. \E a \in S : Key(a) = k
  BY DEF Keys
<1>2. same \in SUBSET Atom /\ same # {}
  BY <1>1
<1>3. PICK a \in same : \A b \in same : b.sha <= a.sha
  <2> HIDE DEF same
  <2> QED  BY <1>2, GreatestAssumption
<1>4. Entry(a)
  BY <1>3
<1>5. Entry(CHOOSE b : Entry(b))
  BY <1>4
<1>6. At(S, k) = CHOOSE b : Entry(b)
  BY DEF At
<1> QED  BY <1>5, <1>6

\* The dictionary's values under a set of keys.
LEMMA DictionaryValues ==
    ASSUME NEW S \in SUBSET Atom, UniqueKeys(S), NEW K \in SUBSET Keys(S)
    PROVE  ByKey(S, K) = {a \in S : Key(a) \in K}
<1>1. ASSUME NEW a \in S, Key(a) \in K  PROVE a \in ByKey(S, K)
  BY <1>1, DictionaryEntry DEF ByKey
<1>2. ASSUME NEW k \in K  PROVE At(S, k) \in S /\ Key(At(S, k)) = k
  <2>1. PICK a \in S : k = Key(a)  BY DEF Keys
  <2> QED  BY <2>1, DictionaryEntry
<1> QED  BY <1>1, <1>2 DEF ByKey

\* What plan_delta says, without its dictionaries.
LEMMA PlanContents ==
    ASSUME NEW base \in SUBSET Atom, NEW current \in SUBSET Atom,
           UniqueKeys(base), UniqueKeys(current)
    PROVE  LET sent == Changed(base, current)
                         \cup (Expanded(base, current) \cap Keys(base))
           IN  /\ Plan(base, current).added
                      = {a \in current : Key(a) \notin Keys(base)}
               /\ Plan(base, current).changed = {a \in current : Key(a) \in sent}
               /\ Plan(base, current).removed
                      = {a \in base : Key(a) \notin Keys(current)}
<1> DEFINE sent == Changed(base, current)
                     \cup (Expanded(base, current) \cap Keys(base))
<1>1. \A S : \A a \in S : Key(a) \in Keys(S)
  BY DEF Keys
<1>2. ByKey(current, Added(base, current)) = {a \in current : Key(a) \notin Keys(base)}
  <2>1. Added(base, current) \in SUBSET Keys(current)  BY DEF Added
  <2>2. ByKey(current, Added(base, current))
            = {a \in current : Key(a) \in Added(base, current)}
    BY <2>1, DictionaryValues
  <2> QED  BY <2>2, <1>1 DEF Added
<1>3. ByKey(base, Removed(base, current)) = {a \in base : Key(a) \notin Keys(current)}
  <2>1. Removed(base, current) \in SUBSET Keys(base)  BY DEF Removed
  <2>2. ByKey(base, Removed(base, current))
            = {a \in base : Key(a) \in Removed(base, current)}
    BY <2>1, DictionaryValues
  <2> QED  BY <2>2, <1>1 DEF Removed
<1>4. ByKey(current, sent) = {a \in current : Key(a) \in sent}
  <2>1. sent \in SUBSET Keys(current)  BY DEF Changed, Expanded
  <2> QED  BY <2>1, DictionaryValues
<1> QED  BY <1>2, <1>3, <1>4 DEF Plan

\* What plan_delta says has the keys it means, and is of its base or of the
\* context, whatever its dictionaries leave out.
LEMMA PlanKeys ==
    ASSUME NEW base \in SUBSET Atom, NEW current \in SUBSET Atom
    PROVE  LET plan == Plan(base, current)
               sent == Changed(base, current)
                         \cup (Expanded(base, current) \cap Keys(base))
           IN  /\ plan.added \subseteq current /\ plan.changed \subseteq current
               /\ plan.removed \subseteq base
               /\ \A k : k \in Added(base, current) <=> k \in Keys(plan.added)
               /\ \A k : k \in sent <=> k \in Keys(plan.changed)
               /\ \A k : k \in Removed(base, current) <=> k \in Keys(plan.removed)
<1> DEFINE sent == Changed(base, current)
                     \cup (Expanded(base, current) \cap Keys(base))
<1>1. ASSUME NEW S \in SUBSET Atom, NEW K \in SUBSET Keys(S)
      PROVE  ByKey(S, K) \subseteq S /\ \A k : k \in K <=> k \in Keys(ByKey(S, K))
  <2>1. \A k \in K : At(S, k) \in S /\ Key(At(S, k)) = k
    BY DictionaryHas
  <2>2. \A k \in K : At(S, k) \in ByKey(S, K)
    BY DEF ByKey
  <2>3. \A a \in ByKey(S, K) : \E k \in K : a = At(S, k)
    BY DEF ByKey
  <2> QED  BY <2>1, <2>2, <2>3 DEF Keys
<1>2. /\ Added(base, current) \in SUBSET Keys(current)
      /\ sent \in SUBSET Keys(current)
      /\ Removed(base, current) \in SUBSET Keys(base)
  BY DEF Added, Removed, Changed, Expanded
<1>3. /\ Plan(base, current).added = ByKey(current, Added(base, current))
      /\ Plan(base, current).changed = ByKey(current, sent)
      /\ Plan(base, current).removed = ByKey(base, Removed(base, current))
  BY DEF Plan
<1> HIDE DEF sent
<1>4. /\ ByKey(current, Added(base, current)) \subseteq current
      /\ \A k : k \in Added(base, current)
                 <=> k \in Keys(ByKey(current, Added(base, current)))
  BY <1>1, <1>2
<1>5. /\ ByKey(current, sent) \subseteq current
      /\ \A k : k \in sent <=> k \in Keys(ByKey(current, sent))
  BY <1>1, <1>2
<1>6. /\ ByKey(base, Removed(base, current)) \subseteq base
      /\ \A k : k \in Removed(base, current)
                 <=> k \in Keys(ByKey(base, Removed(base, current)))
  BY <1>1, <1>2
<1> QED  BY <1>3, <1>4, <1>5, <1>6 DEF sent

\* The delta from a base to a context, applied to the base, is the context,
\* if the delta is legible.  (plan_delta, context/delta.py:159)
THEOREM DeltaRebuilds ==
    ASSUME NEW base \in SUBSET Atom, NEW current \in SUBSET Atom,
           Legible(base, current)
    PROVE  Applied(base, Plan(base, current)) = current
<1> USE DEF Legible
<1> DEFINE plan == Plan(base, current)
           sent == Changed(base, current)
                     \cup (Expanded(base, current) \cap Keys(base))
<1>1. /\ plan.added = {a \in current : Key(a) \notin Keys(base)}
      /\ plan.changed = {a \in current : Key(a) \in sent}
      /\ plan.removed = {a \in base : Key(a) \notin Keys(current)}
  BY PlanContents
<1>2. \A S : \A a \in S : Key(a) \in Keys(S)
  BY DEF Keys
<1>3. ASSUME NEW a \in base, NEW c \in current, Key(a) = Key(c), Key(c) \notin sent
      PROVE  a = c
  <2>1. At(base, Key(c)) = a /\ At(current, Key(c)) = c
    BY <1>3, DictionaryEntry
  <2>2. Key(c) \in Keys(base) \cap Keys(current)
    BY <1>2, <1>3
  <2>3. a.sha = c.sha
    BY <1>3, <2>1, <2>2 DEF Changed
  <2>4. a.memory = c.memory
    BY <1>3 DEF Key
  <2> QED  BY <2>3, <2>4, ShaAssumption
<1>0. \A a \in base, c \in current : SameFact(a, c) <=> Key(a) = Key(c)
  BY DEF SameClaim, Key
<1>4. ASSUME NEW a \in base, ~ Withdrawn(a, plan),
             \A c \in plan.changed : ~ SameFact(a, c)
      PROVE  a \in current
  <2>1. a \notin plan.removed
    BY <1>4 DEF Withdrawn
  <2>2. PICK c \in current : Key(a) = Key(c)
    BY <1>1, <2>1 DEF Keys
  <2>3. Key(c) \notin sent
    BY <1>0, <1>1, <1>4, <2>2
  <2> QED  BY <1>3, <2>2, <2>3
<1>5. ASSUME NEW c \in current, c \notin plan.added, c \notin plan.changed
      PROVE  /\ c \in base
             /\ ~ Withdrawn(c, plan)
             /\ \A x \in plan.changed : ~ SameFact(c, x)
  <2>1. PICK a \in base : Key(a) = Key(c)
    BY <1>1, <1>5 DEF Keys
  <2>2. Key(c) \notin sent
    BY <1>1, <1>5
  <2>3. c \in base
    BY <1>3, <2>1, <2>2
  <2>4. ASSUME NEW r \in plan.removed, r.memory = c.memory, r.sha = c.sha
        PROVE FALSE
    <3>1. r \in base /\ Key(r) \notin Keys(current)  BY <1>1
    <3>2. r = c  BY <2>4, <3>1, ShaAssumption
    <3> QED  BY <3>1, <3>2, <1>2
  <2>5. \A x \in plan.changed : ~ SameFact(c, x)
    BY <1>0, <1>1, <2>2, <2>3
  <2> QED  BY <2>3, <2>4, <2>5 DEF Withdrawn
<1>6. plan.added \cup plan.changed \subseteq current
  BY <1>1
<1> HIDE DEF plan, sent
<1>7. \A x \in Applied(base, plan) : x \in current
  BY <1>4, <1>6 DEF Applied
<1>8. \A x \in current : x \in Applied(base, plan)
  BY <1>5 DEF Applied
<1> QED  BY <1>7, <1>8 DEF plan

\* A delta that touches a guarded bundle speaks for every memory with a
\* current atom in it.  (plan_delta, context/delta.py:195-205)
THEOREM DeltaIsWhole ==
    ASSUME NEW base \in SUBSET Atom, NEW current \in SUBSET Atom,
           NEW a \in Says(Plan(base, current)), NEW b \in current,
           b.bundle = a.bundle,
           a.bundle \in SafetyBundles(base, current)
    PROVE  Key(b) \in Keys(Plan(base, current).added \cup Plan(base, current).changed)
<1> DEFINE plan == Plan(base, current)
           sent == Changed(base, current)
                     \cup (Expanded(base, current) \cap Keys(base))
           touched == Added(base, current) \cup Changed(base, current)
                        \cup Removed(base, current)
<1>1. /\ \A k : k \in Added(base, current) <=> k \in Keys(plan.added)
      /\ \A k : k \in sent <=> k \in Keys(plan.changed)
      /\ \A k : k \in Removed(base, current) <=> k \in Keys(plan.removed)
  BY PlanKeys
<1>2. \A S : \A x \in S : Key(x) \in Keys(S)
  BY DEF Keys
<1>3. \A x : Key(x)[2] = x.bundle
  BY DEF Key
<1>4. a.bundle \in {k[2] : k \in touched}
  <2>1. CASE Key(a) \in touched
    BY <2>1, <1>3
  <2>2. CASE Key(a) \notin touched
    <3>1. Key(a) \in Keys(plan.changed)
      BY <1>1, <1>2, <2>2 DEF Says
    <3>2. Key(a) \in Expanded(base, current)
      BY <1>1, <2>2, <3>1
    <3> QED  BY <3>2, <1>3 DEF Expanded
  <2> QED  BY <2>1, <2>2
<1>5. Key(b) \in Expanded(base, current)
  BY <1>2, <1>3, <1>4 DEF Expanded
<1>6. Key(b) \in Keys(plan.added) \/ Key(b) \in Keys(plan.changed)
  <2>1. Key(b) \in Keys(current)  BY <1>2
  <2>2. CASE Key(b) \in Keys(base)  BY <1>1, <1>5, <2>2
  <2>3. CASE Key(b) \notin Keys(base)  BY <1>1, <2>1, <2>3 DEF Added
  <2> QED  BY <2>2, <2>3
<1> HIDE DEF plan
<1>7. Keys(plan.added) \subseteq Keys(plan.added \cup plan.changed)
      /\ Keys(plan.changed) \subseteq Keys(plan.added \cup plan.changed)
  BY DEF Keys
<1> QED  BY <1>6, <1>7 DEF plan

-----------------------------------------------------------------------------
\* Types.

LEMMA PlanTyped ==
    ASSUME NEW base \in SUBSET Atom, NEW current \in SUBSET Atom
    PROVE  Plan(base, current) \in
               [added: SUBSET Atom, changed: SUBSET Atom, removed: SUBSET Atom]
<1>1. /\ Plan(base, current).added \in SUBSET Atom
      /\ Plan(base, current).changed \in SUBSET Atom
      /\ Plan(base, current).removed \in SUBSET Atom
  BY PlanKeys
<1> QED  BY <1>1 DEF Plan

\* What is selected is some of what was found, with all that is required.
LEMMA SelectionIsSound ==
    ASSUME NEW scope \in Scope, NEW found \in Candidates[scope],
           NEW S \in Selections(found)
    PROVE  /\ S \in SUBSET Atom /\ S \subseteq UNION Candidates[scope]
           /\ {a \in found : Guarded(a)} \subseteq S
<1>1. S \subseteq found /\ found \in SUBSET Atom
  BY CandidatesAssumption DEF Selections
<1> QED  BY <1>1 DEF Selections

-----------------------------------------------------------------------------
\* The invariant.  Row(id, items, scope): if the row of a context still
\* exists, it is that context.
Row(id, items, scope) ==
    id \in DOMAIN snapshots =>
        snapshots[id].items = items /\ snapshots[id].scope = scope

RowsOk ==
    \A id \in DOMAIN snapshots :
        snapshots[id].items \subseteq UNION Candidates[snapshots[id].scope]

HeldOk(s) ==
    /\ agent[s].legible => agent[s].view = agent[s].meant
    /\ agent[s].required \subseteq agent[s].meant
    /\ \A a \in agent[s].view : a \in UNION Candidates[agent[s].scope]
    /\ agent[s].id # NULL => agent[s].id \in 1 .. issued
    /\ agent[s].id # NULL => Row(agent[s].id, agent[s].meant, agent[s].scope)
    /\ client[s] \in {NULL, agent[s].id}

RequestOk(s) ==
    LET r == request[s] IN
    r.at # "none" =>
        /\ r.scope \in Scope
        /\ r.orphan => client[s] = NULL
        /\ r.previous \in {NULL, agent[s].id}
        /\ r.base # NULL => /\ r.previous # NULL
                            /\ r.base = agent[s].meant
                            /\ r.scope = agent[s].scope
                            /\ r.base \subseteq UNION Candidates[r.scope]
        /\ r.at # "asked" => /\ r.policy \in Policy
                             /\ r.required \subseteq r.selected
                             /\ r.selected \subseteq UNION Candidates[r.scope]
        /\ r.at = "answered" => /\ r.id \in 1 .. issued
                                /\ Row(r.id, r.selected, r.scope)
                                /\ r.answer \in Answers(r)

IInv ==
    /\ TypeOK
    /\ RowsOk
    /\ \A s \in Session : HeldOk(s) /\ RequestOk(s)

\* No context gets another row: rows are deleted, or new.
RowsKept ==
    /\ issued \in Nat /\ issued' \in Nat /\ issued <= issued'
    /\ \A id \in 1 .. issued : id \in DOMAIN snapshots' =>
           id \in DOMAIN snapshots /\ snapshots'[id] = snapshots[id]

\* What is true of a session stays true when its client forgets or its
\* request ends or is orphaned, whatever the others do.
LEMMA OthersKept ==
    ASSUME IInv, RowsKept, NEW t \in Session,
           agent'[t] = agent[t], client'[t] \in {client[t], NULL},
           request'[t].at # "none" =>
               \/ request'[t] = request[t]
               \/ /\ request'[t] = [request[t] EXCEPT !.orphan = TRUE]
                  /\ client'[t] = NULL
    PROVE  HeldOk(t)' /\ RequestOk(t)'
<1> USE DEF IInv
<1>1. \A id \in 1 .. issued : \A items, scope :
          Row(id, items, scope) => Row(id, items, scope)'
  BY DEF Row, RowsKept
<1>2. 1 .. issued \subseteq 1 .. issued'
  BY DEF RowsKept
<1>3. HeldOk(t) /\ RequestOk(t)
  OBVIOUS
<1>4. HeldOk(t)'
  BY <1>1, <1>2, <1>3 DEF HeldOk
<1>5. RequestOk(t)'
  <2>1. CASE request'[t].at = "none"
    BY <2>1 DEF RequestOk
  <2>2. CASE request'[t].at # "none"
    <3>1. /\ request'[t].at = request[t].at
          /\ request'[t].scope = request[t].scope
          /\ request'[t].previous = request[t].previous
          /\ request'[t].policy = request[t].policy
          /\ request'[t].required = request[t].required
          /\ request'[t].selected = request[t].selected
          /\ request'[t].base = request[t].base
          /\ request'[t].id = request[t].id
          /\ request'[t].answer = request[t].answer
      <4>1. request[t] \in Request  BY DEF TypeOK
      <4> QED  BY <2>2, <4>1 DEF Request
    <3>2. Answers(request'[t]) = Answers(request[t])
      BY <3>1 DEF Answers
    <3>3. request'[t].orphan => client'[t] = NULL
      BY <1>3, <2>2, <3>1 DEF RequestOk
    <3> QED  BY <1>1, <1>2, <1>3, <2>2, <3>1, <3>2, <3>3 DEF RequestOk
  <2> QED  BY <2>1, <2>2
<1> QED  BY <1>4, <1>5

LEMMA InitHolds == Init => IInv
<1> SUFFICES ASSUME Init PROVE IInv
  OBVIOUS
<1> USE BoundsAssumption DEF Init
<1>1. DOMAIN snapshots = {}
  OBVIOUS
<1>2. NoRequest \in Request
  BY DEF NoRequest, Request
<1>3. TypeOK
  BY <1>1, <1>2 DEF TypeOK, NoContext, Held
<1>4. RowsOk
  BY <1>1 DEF RowsOk
<1>5. ASSUME NEW s \in Session  PROVE HeldOk(s) /\ RequestOk(s)
  BY DEF HeldOk, RequestOk, NoContext, NoRequest
<1> QED  BY <1>3, <1>4, <1>5 DEF IInv

LEMMA AskKeeps ==
    ASSUME IInv, NEW s \in Session, NEW scope \in Scope, Ask(s, scope)
    PROVE  IInv'
<1> DEFINE r == [NoRequest EXCEPT !.at = "asked", !.scope = scope,
                                  !.previous = client[s]]
<1>1. r \in Request
  <2>1. client[s] \in Id \cup {NULL}
    BY BoundsAssumption DEF IInv, TypeOK, Id
  <2> QED  BY <2>1 DEF Request, NoRequest
<1>2. issued \in Nat /\ UNCHANGED <<clock, issued, snapshots, client, agent>>
  BY BoundsAssumption DEF IInv, TypeOK, Ask
<1>3. request' = [request EXCEPT ![s] = r]
  BY DEF Ask
<1>4. /\ r.at = "asked" /\ r.scope = scope /\ r.previous = client[s] /\ r.base = NULL
      /\ r.orphan = FALSE
  BY DEF NoRequest
<1> HIDE DEF r
<1>5. request'[s] = r
  BY <1>3 DEF IInv, TypeOK
<1>6. TypeOK'
  BY <1>1, <1>2, <1>3 DEF IInv, TypeOK
<1>7. RowsOk'
  BY <1>2 DEF IInv, RowsOk
<1>8. HeldOk(s)'
  BY <1>2 DEF IInv, HeldOk, Row
<1>9. RequestOk(s)'
  BY <1>2, <1>4, <1>5 DEF IInv, HeldOk, RequestOk
<1>10. ASSUME NEW t \in Session, t # s  PROVE HeldOk(t)' /\ RequestOk(t)'
  <2>1. agent'[t] = agent[t] /\ client'[t] = client[t] /\ request'[t] = request[t]
    BY <1>2, <1>3, <1>10 DEF IInv, TypeOK
  <2>2. RowsKept
    BY <1>2 DEF RowsKept
  <2> QED  BY <2>1, <2>2, OthersKept
<1> QED  BY <1>6, <1>7, <1>8, <1>9, <1>10 DEF IInv

LEMMA CompileKeeps ==
    ASSUME IInv, NEW s \in Session, Compile(s)
    PROVE  IInv'
<1>1. PICK found \in Candidates[request[s].scope], policy \in Policy :
          \E selected \in Selections(found) :
             request' = [request EXCEPT ![s] =
                 [request[s] EXCEPT
                     !.at = IF request[s].previous = NULL THEN "planned" ELSE "compiled",
                     !.required = {a \in found : Guarded(a)},
                     !.selected = selected, !.policy = policy]]
  BY DEF Compile
<1>2. PICK selected \in Selections(found) :
          request' = [request EXCEPT ![s] =
              [request[s] EXCEPT
                  !.at = IF request[s].previous = NULL THEN "planned" ELSE "compiled",
                  !.required = {a \in found : Guarded(a)},
                  !.selected = selected, !.policy = policy]]
  BY <1>1
<1> DEFINE q == request[s]
           r == [q EXCEPT !.at = IF q.previous = NULL THEN "planned" ELSE "compiled",
                          !.required = {a \in found : Guarded(a)},
                          !.selected = selected, !.policy = policy]
<1>3. q \in Request /\ q.at = "asked" /\ q.scope \in Scope
  BY DEF IInv, TypeOK, Compile, RequestOk
<1>4. /\ selected \in SUBSET Atom
      /\ selected \subseteq UNION Candidates[q.scope]
      /\ {a \in found : Guarded(a)} \subseteq selected
  BY <1>3, SelectionIsSound
<1>5. r \in Request
  BY <1>3, <1>4 DEF Request
<1>6. /\ r.at \in {"planned", "compiled"} /\ r.scope = q.scope /\ r.policy = policy
      /\ r.previous = q.previous /\ r.base = q.base /\ r.selected = selected
      /\ r.required = {a \in found : Guarded(a)} /\ r.orphan = q.orphan
  BY <1>3 DEF Request
<1>7. issued \in Nat /\ UNCHANGED <<clock, issued, snapshots, client, agent>>
  BY BoundsAssumption DEF IInv, TypeOK, Compile
<1>8. request' = [request EXCEPT ![s] = r]
  BY <1>2
<1> HIDE DEF r
<1>9. request'[s] = r
  BY <1>8 DEF IInv, TypeOK
<1>10. TypeOK'
  BY <1>5, <1>7, <1>8 DEF IInv, TypeOK
<1>11. RowsOk'
  BY <1>7 DEF IInv, RowsOk
<1>12. HeldOk(s)'
  BY <1>7 DEF IInv, HeldOk, Row
<1>13. RequestOk(s)'
  BY <1>3, <1>4, <1>6, <1>7, <1>9 DEF IInv, RequestOk
<1>14. ASSUME NEW t \in Session, t # s  PROVE HeldOk(t)' /\ RequestOk(t)'
  <2>1. agent'[t] = agent[t] /\ client'[t] = client[t] /\ request'[t] = request[t]
    BY <1>7, <1>8, <1>14 DEF IInv, TypeOK
  <2>2. RowsKept
    BY <1>7 DEF RowsKept
  <2> QED  BY <2>1, <2>2, OthersKept
<1> QED  BY <1>10, <1>11, <1>12, <1>13, <1>14 DEF IInv

LEMMA LookKeeps ==
    ASSUME IInv, NEW s \in Session, Look(s)
    PROVE  IInv'
<1> DEFINE q == request[s]
           base == IF Usable(q.previous, q) THEN snapshots[q.previous].items ELSE NULL
           r == [q EXCEPT !.at = "looked", !.base = base]
<1>1. q \in Request /\ q.at = "compiled"
  BY DEF IInv, TypeOK, Look
<1>2. issued \in Nat /\ UNCHANGED <<clock, issued, snapshots, client, agent>>
  BY BoundsAssumption DEF IInv, TypeOK, Look
<1>3. ASSUME base # NULL
      PROVE  /\ q.previous # NULL /\ q.previous = agent[s].id
             /\ base = agent[s].meant /\ q.scope = agent[s].scope
             /\ base \subseteq UNION Candidates[q.scope]
             /\ base \in SUBSET Atom
  <2>1. /\ q.previous \in DOMAIN snapshots
        /\ base = snapshots[q.previous].items
        /\ snapshots[q.previous].scope = q.scope
    BY <1>3 DEF Usable
  <2>2. q.previous \in Nat /\ snapshots[q.previous] \in Snapshot
    BY <1>2, <2>1 DEF IInv, TypeOK
  <2>3. q.previous # NULL
    BY <2>2, NullAssumption
  <2>4. q.previous = agent[s].id
    BY <1>1, <2>3 DEF IInv, RequestOk
  <2>5. base = agent[s].meant /\ q.scope = agent[s].scope
    BY <2>1, <2>3, <2>4 DEF IInv, HeldOk, Row
  <2> QED  BY <2>1, <2>2, <2>3, <2>4, <2>5 DEF IInv, RowsOk, Snapshot
<1> HIDE DEF base
<1>4. r \in Request
  <2>1. base \in (SUBSET Atom) \cup {NULL}
    BY <1>3
  <2> QED  BY <1>1, <2>1 DEF Request
<1>5. /\ r.at = "looked" /\ r.scope = q.scope /\ r.policy = q.policy
      /\ r.previous = q.previous /\ r.base = base /\ r.selected = q.selected
      /\ r.required = q.required /\ r.orphan = q.orphan
  BY <1>1 DEF Request
<1>6. request' = [request EXCEPT ![s] = r]
  BY DEF Look, base
<1> HIDE DEF r
<1>7. request'[s] = r
  BY <1>6 DEF IInv, TypeOK
<1>8. TypeOK'
  BY <1>2, <1>4, <1>6 DEF IInv, TypeOK
<1>9. RowsOk'
  BY <1>2 DEF IInv, RowsOk
<1>10. HeldOk(s)'
  BY <1>2 DEF IInv, HeldOk, Row
<1>11. RequestOk(s)'
  <2>1. RequestOk(s)  BY DEF IInv
  <2> QED  BY <1>1, <1>2, <1>3, <1>5, <1>7, <2>1 DEF RequestOk
<1>12. ASSUME NEW t \in Session, t # s  PROVE HeldOk(t)' /\ RequestOk(t)'
  <2>1. agent'[t] = agent[t] /\ client'[t] = client[t] /\ request'[t] = request[t]
    BY <1>2, <1>6, <1>12 DEF IInv, TypeOK
  <2>2. RowsKept
    BY <1>2 DEF RowsKept
  <2> QED  BY <2>1, <2>2, OthersKept
<1> QED  BY <1>8, <1>9, <1>10, <1>11, <1>12 DEF IInv

LEMMA CleanKeeps ==
    ASSUME IInv, NEW s \in Session, Clean(s)
    PROVE  IInv'
<1> DEFINE q == request[s]
           r == [q EXCEPT !.at = "planned"]
<1>1. q \in Request /\ q.at = "looked"
  BY DEF IInv, TypeOK, Clean
<1>2. issued \in Nat /\ UNCHANGED <<clock, issued, client, agent>>
  BY BoundsAssumption DEF IInv, TypeOK, Clean
<1>3. PICK D : snapshots' = [id \in DOMAIN snapshots \ D |-> snapshots[id]]
  BY DEF Clean
<1>4. /\ DOMAIN snapshots' \subseteq DOMAIN snapshots
      /\ \A id \in DOMAIN snapshots' : snapshots'[id] = snapshots[id]
  BY <1>3
<1>5. r \in Request
  BY <1>1 DEF Request
<1>6. /\ r.at = "planned" /\ r.scope = q.scope /\ r.policy = q.policy
      /\ r.previous = q.previous /\ r.base = q.base /\ r.selected = q.selected
      /\ r.required = q.required /\ r.orphan = q.orphan
  BY <1>1 DEF Request
<1>7. request' = [request EXCEPT ![s] = r]
  BY DEF Clean
<1> HIDE DEF r
<1>8. request'[s] = r
  BY <1>7 DEF IInv, TypeOK
<1>9. TypeOK'
  BY <1>2, <1>4, <1>5, <1>7 DEF IInv, TypeOK
<1>10. RowsOk'
  BY <1>4 DEF IInv, RowsOk
<1>11. HeldOk(s)'
  BY <1>2, <1>4 DEF IInv, HeldOk, Row
<1>12. RequestOk(s)'
  <2>1. RequestOk(s)  BY DEF IInv
  <2> QED  BY <1>1, <1>2, <1>6, <1>8, <2>1 DEF RequestOk
<1>13. ASSUME NEW t \in Session, t # s  PROVE HeldOk(t)' /\ RequestOk(t)'
  <2>1. agent'[t] = agent[t] /\ client'[t] = client[t] /\ request'[t] = request[t]
    BY <1>2, <1>7, <1>13 DEF IInv, TypeOK
  <2>2. RowsKept
    BY <1>2, <1>4 DEF RowsKept
  <2> QED  BY <2>1, <2>2, OthersKept
<1> QED  BY <1>9, <1>10, <1>11, <1>12, <1>13 DEF IInv

LEMMA FailKeeps ==
    ASSUME IInv, NEW s \in Session, Fail(s)
    PROVE  IInv'
<1>1. /\ issued \in Nat /\ UNCHANGED <<clock, issued, snapshots, client, agent>>
      /\ request' = [request EXCEPT ![s] = NoRequest]
  BY BoundsAssumption DEF IInv, TypeOK, Fail
<1>2. TypeOK'
  BY <1>1 DEF IInv, TypeOK, NoRequest, Request
<1>3. RowsOk'
  BY <1>1 DEF IInv, RowsOk
<1>4. ASSUME NEW t \in Session  PROVE HeldOk(t)' /\ RequestOk(t)'
  <2>1. /\ agent'[t] = agent[t] /\ client'[t] = client[t]
        /\ request'[t].at # "none" => request'[t] = request[t]
    BY <1>1 DEF IInv, TypeOK, NoRequest
  <2>2. RowsKept
    BY <1>1 DEF RowsKept
  <2> QED  BY <2>1, <2>2, OthersKept
<1> QED  BY <1>2, <1>3, <1>4 DEF IInv

LEMMA TickKeeps ==
    ASSUME IInv, Tick
    PROVE  IInv'
<1>1. issued \in Nat /\ UNCHANGED <<issued, snapshots, client, request, agent>>
  BY BoundsAssumption DEF IInv, TypeOK, Tick
<1>2. TypeOK'
  BY <1>1 DEF IInv, TypeOK, Tick
<1>3. RowsOk'
  BY <1>1 DEF IInv, RowsOk
<1>4. ASSUME NEW t \in Session  PROVE HeldOk(t)' /\ RequestOk(t)'
  <2>1. RowsKept
    BY <1>1 DEF RowsKept
  <2> QED  BY <1>1, <2>1, OthersKept
<1> QED  BY <1>2, <1>3, <1>4 DEF IInv

LEMMA RestoreKeeps ==
    ASSUME IInv, Restore
    PROVE  IInv'
<1>1. issued \in Nat /\ UNCHANGED <<clock, issued, client, request, agent>>
  BY BoundsAssumption DEF IInv, TypeOK, Restore
<1>2. DOMAIN snapshots' = {}
  BY DEF Restore
<1>3. TypeOK'
  BY <1>1, <1>2 DEF IInv, TypeOK
<1>4. RowsOk'
  BY <1>2 DEF RowsOk
<1>5. ASSUME NEW t \in Session  PROVE HeldOk(t)' /\ RequestOk(t)'
  <2>1. RowsKept
    BY <1>1, <1>2 DEF RowsKept
  <2> QED  BY <1>1, <2>1, OthersKept
<1> QED  BY <1>3, <1>4, <1>5 DEF IInv

LEMMA UnmountKeeps ==
    ASSUME IInv, Unmount
    PROVE  IInv'
<1>1. issued \in Nat /\ UNCHANGED <<clock, issued, snapshots, agent>>
  BY BoundsAssumption DEF IInv, TypeOK, Unmount
<1>2. /\ client' = [s \in Session |-> NULL]
      /\ request' = [s \in Session |->
             IF request[s].at = "none" THEN NoRequest
             ELSE [request[s] EXCEPT !.orphan = TRUE]]
  BY DEF Unmount
<1>3. \A t \in Session : request[t] \in Request
  BY DEF IInv, TypeOK
<1>4. \A t \in Session : request'[t] \in Request
  BY <1>2, <1>3, ZenonT(60) DEF NoRequest, Request
<1>5. TypeOK'
  BY <1>1, <1>2, <1>4 DEF IInv, TypeOK
<1>6. RowsOk'
  BY <1>1 DEF IInv, RowsOk
<1>7. ASSUME NEW t \in Session  PROVE HeldOk(t)' /\ RequestOk(t)'
  <2>1. /\ agent'[t] = agent[t] /\ client'[t] = NULL
        /\ request'[t].at # "none" =>
               request'[t] = [request[t] EXCEPT !.orphan = TRUE]
    BY <1>1, <1>2 DEF NoRequest
  <2>2. RowsKept
    BY <1>1 DEF RowsKept
  <2> QED  BY <2>1, <2>2, OthersKept
<1> QED  BY <1>5, <1>6, <1>7 DEF IInv

\* What an answer is made of, in the two cases.
LEMMA AnswerCases ==
    ASSUME IInv, NEW s \in Session, request[s].at = "answered"
    PROVE  LET r == request[s] IN
           \/ /\ r.answer.base = NULL /\ r.answer.items = r.selected
              /\ r.answer.plan = NoPlan
           \/ /\ r.answer.base = r.previous /\ r.answer.items = {}
              /\ r.previous # NULL /\ r.previous = agent[s].id
              /\ r.base # NULL /\ r.base = agent[s].meant
              /\ r.scope = agent[s].scope
              /\ r.answer.plan = Plan(r.base, r.selected)
<1> DEFINE r == request[s]
<1>1. /\ r.answer \in Answers(r)
      /\ r.previous \in {NULL, agent[s].id}
      /\ r.base # NULL => /\ r.previous # NULL /\ r.base = agent[s].meant
                          /\ r.scope = agent[s].scope
  BY DEF IInv, RequestOk
<1>2. CASE r.answer = Full(r.selected)
  BY <1>2 DEF Full
<1>3. CASE r.base # NULL /\ r.answer = Delta(r.previous, Plan(r.base, r.selected))
  BY <1>1, <1>3 DEF Delta
<1> QED  BY <1>1, <1>2, <1>3 DEF Answers

\* What an agent has after reading an answer.
LEMMA ReadGives ==
    ASSUME IInv, NEW s \in Session, request[s].at = "answered"
    PROVE  LET q == request[s]
               a == Read(agent[s], q)
           IN  /\ a.legible \in BOOLEAN
               /\ a.legible => a.view = q.selected
               /\ a.view \subseteq UNION Candidates[q.scope]
<1> DEFINE q == request[s]
           a == Read(agent[s], q)
<1>1. /\ q.selected \subseteq UNION Candidates[q.scope]
      /\ q.selected \in SUBSET Atom
      /\ q.base # NULL => q.base \subseteq UNION Candidates[q.scope]
  BY DEF IInv, TypeOK, RequestOk, Request
<1>2. CASE q.answer.base = NULL
  <2>1. a.view = q.selected
    <3>1. q.answer.items = q.selected
      BY <1>2, AnswerCases
    <3> QED  BY <1>2, <3>1 DEF Read
  <2>2. a.legible
    BY <1>2 DEF Read
  <2> HIDE DEF a
  <2>3. a.legible \in BOOLEAN
    <3>1. a.legible = (q.answer.base # NULL => agent[s].legible /\ Legible(q.base, q.selected))
      BY DEF Read, a
    <3> QED  BY <3>1
  <2> QED  BY <1>1, <2>1, <2>2, <2>3 DEF a
<1>3. CASE q.answer.base # NULL
  <2>1. /\ q.base # NULL /\ q.base = agent[s].meant /\ q.scope = agent[s].scope
        /\ q.answer.plan = Plan(q.base, q.selected)
    BY <1>3, AnswerCases
  <2>2. /\ agent[s].legible => agent[s].view = agent[s].meant
        /\ \A x \in agent[s].view : x \in UNION Candidates[agent[s].scope]
        /\ agent[s].meant \in SUBSET Atom
    BY DEF IInv, TypeOK, Held, HeldOk
  <2>3. /\ a.view = Applied(agent[s].view, q.answer.plan)
        /\ a.legible = (q.answer.base # NULL
                          => agent[s].legible /\ Legible(q.base, q.selected))
    BY <1>3 DEF Read
  <2>4. ASSUME a.legible  PROVE a.view = q.selected
    <3>1. agent[s].view = q.base /\ Legible(q.base, q.selected)
      BY <1>3, <2>1, <2>2, <2>3, <2>4
    <3>2. Applied(q.base, Plan(q.base, q.selected)) = q.selected
      BY <1>1, <2>1, <2>2, <3>1, DeltaRebuilds
    <3> QED  BY <2>1, <2>3, <3>1, <3>2
  <2>5. /\ q.answer.plan.added \subseteq q.selected
        /\ q.answer.plan.changed \subseteq q.selected
    BY <1>1, <2>1, <2>2, PlanKeys
  <2>6. a.view \subseteq UNION Candidates[q.scope]
    <3>1. a.view \subseteq agent[s].view \cup q.selected
      <4> HIDE DEF a, q
      <4> QED  BY <2>3, <2>5 DEF Applied
    <3> HIDE DEF a, q
    <3> QED  BY <1>1, <2>1, <2>2, <3>1
  <2>7. a.legible \in BOOLEAN
    <3> HIDE DEF a, q
    <3> QED  BY <2>3
  <2> QED  BY <2>4, <2>6, <2>7
<1> QED  BY <1>2, <1>3

LEMMA ReceiveKeeps ==
    ASSUME IInv, NEW s \in Session, Receive(s)
    PROVE  IInv'
<1> DEFINE q == request[s]
           a == Read(agent[s], q)
<1>1. q \in Request /\ q.at = "answered"
  BY DEF IInv, TypeOK, Receive
<1>2. issued \in Nat /\ UNCHANGED <<clock, issued, snapshots>>
  BY BoundsAssumption DEF IInv, TypeOK, Receive
<1>3. /\ request' = [request EXCEPT ![s] = NoRequest]
      /\ agent' = [agent EXCEPT ![s] = a]
      /\ client' = [client EXCEPT ![s] = IF q.orphan THEN client[s] ELSE q.id]
  BY DEF Receive, IInv, TypeOK
<1>4. /\ q.id \in 1 .. issued /\ Row(q.id, q.selected, q.scope)
      /\ q.selected \in SUBSET Atom /\ q.required \subseteq q.selected
      /\ q.selected \subseteq UNION Candidates[q.scope] /\ q.scope \in Scope
  BY <1>1 DEF IInv, RequestOk, Request
<1>5. a.id = q.id /\ a.meant = q.selected /\ a.required = q.required
      /\ a.scope = q.scope
  BY DEF Read
<1>6. /\ a.legible \in BOOLEAN
      /\ a.legible => a.view = q.selected
      /\ a.view \subseteq UNION Candidates[q.scope]
  BY <1>1, ReadGives
<1>7. a \in Held
  <2>1. q.id \in Id \cup {NULL}
    BY <1>1 DEF Request
  <2>2. UNION Candidates[q.scope] \subseteq Atom
    BY <1>4, CandidatesAssumption
  <2>3. a.view \in SUBSET Atom /\ a.required \in SUBSET Atom
    BY <1>4, <1>5, <1>6, <2>2
  <2>4. a = [id |-> a.id, scope |-> a.scope, meant |-> a.meant,
             required |-> a.required, view |-> a.view, legible |-> a.legible]
    BY DEF Read
  <2> HIDE DEF a
  <2> QED  BY <1>4, <1>5, <1>6, <2>1, <2>3, <2>4 DEF Held
<1> HIDE DEF a
<1>8. TypeOK'
  <2>1. NoRequest \in Request
    BY DEF NoRequest, Request
  <2>2. request' \in [Session -> Request]
    BY <1>3, <2>1 DEF IInv, TypeOK
  <2>3. client' \in [Session -> 1 .. issued' \cup {NULL}]
    BY <1>2, <1>3, <1>4 DEF IInv, TypeOK
  <2>4. agent' \in [Session -> Held]
    BY <1>3, <1>7 DEF IInv, TypeOK
  <2> QED  BY <1>2, <2>2, <2>3, <2>4 DEF IInv, TypeOK
<1>9. RowsOk'
  BY <1>2 DEF IInv, RowsOk
<1>10. HeldOk(s)'
  <2>1. agent'[s] = a
    BY <1>3 DEF IInv, TypeOK
  <2>2. client'[s] \in {NULL, q.id}
    <3>1. q.orphan => client[s] = NULL
      BY <1>1 DEF IInv, RequestOk
    <3> QED  BY <1>3, <3>1 DEF IInv, TypeOK
  <2> QED  BY <1>2, <1>4, <1>5, <1>6, <2>1, <2>2 DEF HeldOk, Row
<1>11. RequestOk(s)'
  BY <1>3 DEF IInv, TypeOK, RequestOk, NoRequest
<1>12. ASSUME NEW t \in Session, t # s  PROVE HeldOk(t)' /\ RequestOk(t)'
  <2>1. agent'[t] = agent[t] /\ client'[t] = client[t] /\ request'[t] = request[t]
    BY <1>3, <1>12 DEF IInv, TypeOK
  <2>2. RowsKept
    BY <1>2 DEF RowsKept
  <2> QED  BY <2>1, <2>2, OthersKept
<1> QED  BY <1>8, <1>9, <1>10, <1>11, <1>12 DEF IInv

LEMMA DeliverKeeps ==
    ASSUME IInv, NEW s \in Session, Deliver(s)
    PROVE  IInv'
<1> DEFINE q  == request[s]
           id == issued + 1
           row == [scope |-> q.scope, policy |-> q.policy, items |-> q.selected,
                   expires |-> clock + TTL]
<1>1. /\ q \in Request /\ q.at = "planned"
      /\ clock \in Nat /\ UNCHANGED <<clock, client, agent>>
  BY DEF IInv, TypeOK, Deliver
<1>2. /\ issued \in Nat /\ issued' = id /\ id \in Nat
      /\ id \in Id /\ id \notin 1 .. issued /\ id <= MaxContexts
  BY BoundsAssumption DEF IInv, TypeOK, Deliver, Id
<1>3. PICK answer \in Answers(q) :
          request' = [request EXCEPT ![s] =
              [q EXCEPT !.at = "answered", !.id = id, !.answer = answer]]
  BY DEF Deliver
<1> DEFINE r == [q EXCEPT !.at = "answered", !.id = id, !.answer = answer]
<1>4. /\ DOMAIN snapshots' = DOMAIN snapshots \cup {id}
      /\ snapshots'[id] = row
      /\ \A i \in DOMAIN snapshots : i # id => snapshots'[i] = snapshots[i]
  BY DEF Deliver
<1>5. DOMAIN snapshots \subseteq 1 .. issued
  BY DEF IInv, TypeOK
<1>6. /\ q.scope \in Scope /\ q.policy \in Policy
      /\ q.required \subseteq q.selected
      /\ q.selected \subseteq UNION Candidates[q.scope]
      /\ q.selected \in SUBSET Atom
      /\ q.base # NULL => /\ q.previous # NULL
                          /\ q.base = agent[s].meant
                          /\ q.scope = agent[s].scope
                          /\ q.base \subseteq UNION Candidates[q.scope]
      /\ q.previous \in {NULL, agent[s].id}
      /\ q.orphan => client[s] = NULL
  BY <1>1 DEF IInv, RequestOk, Request
<1>7. answer \in Answer
  <2>1. NoPlan \in [added: SUBSET Atom, changed: SUBSET Atom, removed: SUBSET Atom]
    BY DEF NoPlan
  <2>2. CASE answer = Full(q.selected)
    BY <1>6, <2>1, <2>2 DEF Full, Answer
  <2>3. CASE q.base # NULL /\ answer = Delta(q.previous, Plan(q.base, q.selected))
    <3>1. q.base \in SUBSET Atom
      <4>1. agent[s].meant \in SUBSET Atom
        BY DEF IInv, TypeOK, Held
      <4> QED  BY <1>6, <2>3, <4>1
    <3>3. q.previous \in Id \cup {NULL}
      BY <1>1 DEF Request
    <3>4. Plan(q.base, q.selected)
              \in [added: SUBSET Atom, changed: SUBSET Atom, removed: SUBSET Atom]
      BY <1>6, <3>1, PlanTyped
    <3> QED  BY <2>3, <3>3, <3>4 DEF Delta, Answer
  <2> QED  BY <2>2, <2>3 DEF Answers
<1>8. r \in Request
  BY <1>1, <1>2, <1>7 DEF Request
<1>9. /\ r.at = "answered" /\ r.scope = q.scope /\ r.policy = q.policy
      /\ r.previous = q.previous /\ r.base = q.base /\ r.selected = q.selected
      /\ r.required = q.required /\ r.orphan = q.orphan /\ r.id = id /\ r.answer = answer
  BY <1>1 DEF Request
<1>10. request' = [request EXCEPT ![s] = r]
  BY <1>3
<1>11. row \in Snapshot /\ row.items = q.selected /\ row.scope = q.scope
  BY <1>1, <1>6, BoundsAssumption DEF Snapshot
<1> HIDE DEF r, row
<1>12. request'[s] = r
  BY <1>10 DEF IInv, TypeOK
<1>13. TypeOK'
  <2>1. request' \in [Session -> Request]
    BY <1>8, <1>10 DEF IInv, TypeOK
  <2>2. /\ DOMAIN snapshots' \subseteq 1 .. issued'
        /\ issued' \in 0 .. MaxContexts
    BY <1>2, <1>4, <1>5, BoundsAssumption
  <2>3. \A i \in DOMAIN snapshots' : snapshots'[i] \in Snapshot
    BY <1>4, <1>11 DEF IInv, TypeOK
  <2>4. client' \in [Session -> 1 .. issued' \cup {NULL}]
    <3>1. 1 .. issued \subseteq 1 .. issued'
      BY <1>2
    <3> QED  BY <1>1, <3>1 DEF IInv, TypeOK
  <2> QED  BY <1>1, <2>1, <2>2, <2>3, <2>4 DEF IInv, TypeOK
<1>14. RowsOk'
  BY <1>4, <1>6, <1>11 DEF IInv, RowsOk
<1>15. RowsKept
  BY <1>2, <1>4, <1>5 DEF RowsKept
<1>16. HeldOk(s)'
  <2>1. ASSUME agent[s].id # NULL
        PROVE  /\ agent[s].id \in 1 .. issued'
               /\ Row(agent[s].id, agent[s].meant, agent[s].scope)'
    <3>1. /\ agent[s].id \in 1 .. issued
          /\ Row(agent[s].id, agent[s].meant, agent[s].scope)
      BY <2>1 DEF IInv, HeldOk
    <3> QED  BY <1>1, <1>2, <1>15, <3>1 DEF Row, RowsKept
  <2> QED  BY <1>1, <2>1 DEF IInv, HeldOk
<1>17. RequestOk(s)'
  <2>1. Answers(r) = Answers(q) /\ r.answer \in Answers(r)
    BY <1>9 DEF Answers
  <2>2. snapshots'[id].items = q.selected /\ snapshots'[id].scope = q.scope
    BY <1>4, <1>11
  <2>3. Row(request[s].id, request[s].selected, request[s].scope)'
    BY <1>9, <1>12, <2>2 DEF Row
  <2>4. request'[s].id \in 1 .. issued'
    BY <1>2, <1>9, <1>12
  <2>5. request'[s].answer \in Answers(request'[s])
    BY <1>12, <2>1
  <2> QED  BY <1>1, <1>6, <1>9, <1>12, <2>3, <2>4, <2>5 DEF RequestOk
<1>18. ASSUME NEW t \in Session, t # s  PROVE HeldOk(t)' /\ RequestOk(t)'
  <2>1. agent'[t] = agent[t] /\ client'[t] = client[t] /\ request'[t] = request[t]
    BY <1>1, <1>10, <1>18 DEF IInv, TypeOK
  <2> QED  BY <1>15, <2>1, OthersKept
<1> QED  BY <1>13, <1>14, <1>16, <1>17, <1>18 DEF IInv

-----------------------------------------------------------------------------
LEMMA StepKeeps ==
    ASSUME IInv, [Next]_vars
    PROVE  IInv'
<1>1. ASSUME NEW s \in Session, NEW scope \in Scope, Ask(s, scope)  PROVE IInv'
  BY <1>1, AskKeeps
<1>2. ASSUME NEW s \in Session, Compile(s)  PROVE IInv'
  BY <1>2, CompileKeeps
<1>3. ASSUME NEW s \in Session, Look(s)  PROVE IInv'
  BY <1>3, LookKeeps
<1>4. ASSUME NEW s \in Session, Clean(s)  PROVE IInv'
  BY <1>4, CleanKeeps
<1>5. ASSUME NEW s \in Session, Deliver(s)  PROVE IInv'
  BY <1>5, DeliverKeeps
<1>6. ASSUME NEW s \in Session, Receive(s)  PROVE IInv'
  BY <1>6, ReceiveKeeps
<1>7. ASSUME NEW s \in Session, Fail(s)  PROVE IInv'
  BY <1>7, FailKeeps
<1>8. CASE Tick
  BY <1>8, TickKeeps
<1>9. CASE Restore
  BY <1>9, RestoreKeeps
<1>10. CASE Unmount
  BY <1>10, UnmountKeeps
<1>11. CASE UNCHANGED vars
  <2>1. /\ UNCHANGED <<clock, issued, snapshots>>
        /\ client' = client /\ request' = request /\ agent' = agent
    BY <1>11 DEF vars
  <2>2. TypeOK'
    BY <2>1 DEF IInv, TypeOK
  <2>3. RowsOk'
    BY <2>1 DEF IInv, RowsOk
  <2>4. ASSUME NEW t \in Session  PROVE HeldOk(t)' /\ RequestOk(t)'
    <3>1. RowsKept
      BY <2>1, BoundsAssumption DEF IInv, TypeOK, RowsKept
    <3> QED  BY <2>1, <3>1, OthersKept
  <2> QED  BY <2>2, <2>3, <2>4 DEF IInv
<1> QED
  BY <1>1, <1>2, <1>3, <1>4, <1>5, <1>6, <1>7, <1>8, <1>9, <1>10, <1>11 DEF Next

LEMMA InvariantAlways == Spec => []IInv
<1>1. IInv /\ [Next]_vars => IInv'
  BY StepKeeps
<1> QED  BY <1>1, InitHolds, PTL DEF Spec

\* The properties of a state that the invariant implies.
LEMMA InvariantImplies ==
    ASSUME IInv
    PROVE  TypeOK /\ ViewIsContext /\ BaseIsHeld /\ ContestedTogether
           /\ NothingForeign /\ RequiredIsHeld
<1>1. TypeOK
  BY DEF IInv
<1>2. ViewIsContext
  BY DEF IInv, HeldOk, ViewIsContext
<1>3. RequiredIsHeld
  BY DEF IInv, HeldOk, RequiredIsHeld
<1>4. ASSUME NEW s \in Session, request[s].at = "answered"
      PROVE  LET r == request[s] IN
             /\ r.selected \in SUBSET Atom
             /\ r.selected \subseteq UNION Candidates[r.scope]
             /\ r.base # NULL => /\ r.base \in SUBSET Atom
                                 /\ r.base \subseteq UNION Candidates[r.scope]
  <2>1. request[s] \in Request /\ RequestOk(s) /\ agent[s].meant \in SUBSET Atom
    BY DEF IInv, TypeOK, Held
  <2> QED  BY <1>4, <2>1 DEF Request, RequestOk
<1>5. BaseIsHeld
  BY AnswerCases DEF BaseIsHeld
<1>6. ContestedTogether
  <2> SUFFICES ASSUME NEW s \in Session, request[s].at = "answered",
                      request[s].answer.base # NULL,
                      NEW a \in Says(request[s].answer.plan),
                      NEW b \in request[s].selected,
                      b.bundle = a.bundle,
                      a.bundle \in SafetyBundles(request[s].base, request[s].selected)
               PROVE  Key(b) \in Keys(request[s].answer.plan.added
                                        \cup request[s].answer.plan.changed)
    BY DEF ContestedTogether
  <2>1. /\ request[s].base # NULL
        /\ request[s].answer.plan = Plan(request[s].base, request[s].selected)
    BY AnswerCases
  <2> QED  BY <1>4, <2>1, DeltaIsWhole
<1>7. NothingForeign
  <2> SUFFICES ASSUME NEW s \in Session, request[s].at = "answered"
               PROVE  LET r == request[s] IN
                      r.answer.items \cup Says(r.answer.plan)
                          \subseteq UNION Candidates[r.scope]
    BY DEF NothingForeign, IInv, HeldOk
  <2>1. CASE request[s].answer.base = NULL
    <3>1. /\ request[s].answer.items = request[s].selected
          /\ request[s].answer.plan = NoPlan
      BY <2>1, AnswerCases
    <3> QED  BY <1>4, <3>1 DEF Says, NoPlan
  <2>2. CASE request[s].answer.base # NULL
    <3>1. /\ request[s].answer.items = {}
          /\ request[s].base # NULL
          /\ request[s].answer.plan = Plan(request[s].base, request[s].selected)
      BY <2>2, AnswerCases
    <3>2. Says(Plan(request[s].base, request[s].selected))
              \subseteq request[s].base \cup request[s].selected
      BY <1>4, <3>1, PlanKeys DEF Says
    <3> QED  BY <1>4, <3>1, <3>2
  <2> QED  BY <2>1, <2>2
<1> QED  BY <1>1, <1>2, <1>3, <1>5, <1>6, <1>7

\* Every reachable state is well typed: a row is of a context that was made,
\* a client names one.
THEOREM ContextTypes == Spec => []TypeOK
<1>1. IInv => TypeOK  BY InvariantImplies
<1> QED  BY <1>1, InvariantAlways, PTL

\* An agent whose deltas since its last full context were legible holds what
\* was compiled for it last.
THEOREM ViewAlways == Spec => []ViewIsContext
<1>1. IInv => ViewIsContext  BY InvariantImplies
<1> QED  BY <1>1, InvariantAlways, PTL

\* A delta is relative to what its reader has read last.
THEOREM BaseAlways == Spec => []BaseIsHeld
<1>1. IInv => BaseIsHeld  BY InvariantImplies
<1> QED  BY <1>1, InvariantAlways, PTL

\* A delta that says anything of a guarded bundle speaks for every memory with
\* a current atom in it.
THEOREM TogetherAlways == Spec => []ContestedTogether
<1>1. IInv => ContestedTogether  BY InvariantImplies
<1> QED  BY <1>1, InvariantAlways, PTL

\* No answer names an atom of another scope, and no agent has put together
\* atoms of another scope than that of the context it has read last.
THEOREM ForeignNever == Spec => []NothingForeign
<1>1. IInv => NothingForeign  BY InvariantImplies
<1> QED  BY <1>1, InvariantAlways, PTL

\* Whatever pinned or contested atom was found for a context is held by an
\* agent whose deltas were legible.
THEOREM RequiredAlways == Spec => []RequiredIsHeld
<1>1. IInv => RequiredIsHeld  BY InvariantImplies
<1> QED  BY <1>1, InvariantAlways, PTL
=============================================================================
