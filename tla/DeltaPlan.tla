----------------------------- MODULE DeltaPlan -----------------------------
(***************************************************************************)
(* plan_delta of context/delta.py: what a context has to say to a client    *)
(* that holds an earlier one, and what the client then holds.              *)
(*                                                                         *)
(* A context is a set of atoms.  An atom says one fact of one memory; `sha' *)
(* stands for its atom_sha256, which covers the text, the truth state and  *)
(* the version of the evidence, so that comparing evidence_pointer_version *)
(* as well tells nothing more.  Shas are numbers for their order.          *)
(***************************************************************************)
EXTENDS Naturals

CONSTANT Atom

ASSUME AtomAssumption ==
    \A a \in Atom : /\ a.sha \in Nat
                    /\ a.pinned \in BOOLEAN
                    /\ a.contested \in BOOLEAN

ASSUME ShaAssumption ==
    \A a, b \in Atom : a.memory = b.memory /\ a.sha = b.sha => a = b

\* What finite sets of atoms have.
ASSUME GreatestAssumption ==
    \A S \in SUBSET Atom : S # {} => \E a \in S : \A b \in S : b.sha <= a.sha

-----------------------------------------------------------------------------
\* Mutant: the bundle is left out.
KeyOfMemory(a) == <<a.memory, 0>>

\* _atom_key, _item_key
Key(a)  == <<a.memory, a.bundle>>
Keys(S) == {Key(a) : a \in S}

\* A dictionary by key keeps the last atom it is given.  Atoms of one memory
\* have its section and its utility, so the order of _atoms_for_bundles puts
\* the greatest sha last.
At(S, k) ==
    CHOOSE a \in S : Key(a) = k /\ \A b \in S : Key(b) = k => b.sha <= a.sha

ByKey(S, keys) == {At(S, k) : k \in keys}

Guarded(a) == a.pinned \/ a.contested

SafetyBundles(base, current) ==
    {a.bundle : a \in {b \in base \cup current : Guarded(b)}}

Added(base, current)   == Keys(current) \ Keys(base)
Removed(base, current) == Keys(base) \ Keys(current)

Changed(base, current) ==
    {k \in Keys(base) \cap Keys(current) : At(base, k).sha # At(current, k).sha}

\* The keys of the bundles that are sent whole.
Expanded(base, current) ==
    LET touched == {k[2] : k \in Added(base, current) \cup Changed(base, current)
                                  \cup Removed(base, current)}
    IN  {k \in Keys(current) : k[2] \in touched \cap SafetyBundles(base, current)}

\* Mutant: only what differs is sent.
PlanUnexpanded(base, current) ==
    [added   |-> ByKey(current, Added(base, current)),
     changed |-> ByKey(current, Changed(base, current)),
     removed |-> ByKey(base, Removed(base, current))]

Plan(base, current) ==
    [added   |-> ByKey(current, Added(base, current)),
     changed |-> ByKey(current, Changed(base, current)
                     \cup (Expanded(base, current) \cap Keys(base))),
     removed |-> ByKey(base, Removed(base, current))]

-----------------------------------------------------------------------------
\* What a reader makes of a delta.  No line names a bundle, and a CHANGED line
\* does not name the sha it replaces: a reader can only go by the memory and
\* the text, which is the memory's whole content if the atom is pinned, and
\* else one subject and predicate, the bundle.

\* To a reader the two lines say the same thing, in two versions.
SameFact(a, b) ==
    /\ a.memory = b.memory
    /\ \/ a.pinned /\ b.pinned
       \/ ~a.pinned /\ ~b.pinned /\ a.bundle = b.bundle

\* A REMOVED line names a memory and a sha.
Withdrawn(a, plan) ==
    \E r \in plan.removed : r.memory = a.memory /\ r.sha = a.sha

Applied(view, plan) ==
    {a \in view : /\ ~ Withdrawn(a, plan)
                  /\ \A c \in plan.changed : ~ SameFact(a, c)}
    \cup plan.added \cup plan.changed

\* Atoms of one memory in one bundle are two versions of one claim, if the
\* claims of the memory have different subjects or predicates.
SameClaim(a, b) == a.memory = b.memory /\ a.bundle = b.bundle

UniqueKeys(S) == \A a, b \in S : SameClaim(a, b) => a = b

\* The keys of plan_delta tell the atoms apart, and a reader tells them apart
\* as the keys do.  It fails for two claims of one memory with one subject
\* and predicate, and for two claims of one constraint.
Legible(base, current) ==
    /\ UniqueKeys(base) /\ UniqueKeys(current)
    /\ \A a \in base, b \in current : SameFact(a, b) <=> SameClaim(a, b)
=============================================================================
