------------------------------ MODULE BeliefLog ------------------------------
(***************************************************************************)
(* What the claim version store promises its readers: a log of beliefs by  *)
(* transaction time.  belief[c][k] is what a query "as known at k" is told *)
(* about claim c.  Writing says what is believed from some instant on, and *)
(* that instant is never in the past; a claim that was imported without    *)
(* history is the one exception, its past is filled in once.               *)
(***************************************************************************)
EXTENDS Naturals

CONSTANTS Claim, Belief, Unknown, Horizon

VARIABLES now, belief

Instants == 0 .. Horizon

Untold(c) == \A k \in Instants : belief[c][k] = Unknown

Init == /\ now \in Instants
        /\ belief = [c \in Claim |-> [k \in Instants |-> Unknown]]

\* From instant m on the belief about c is b.
Write(c, b, m) ==
    /\ m \in Instants /\ now <= m
    /\ belief' = [belief EXCEPT ![c] =
                    [k \in Instants |-> IF k < m THEN belief[c][k] ELSE b]]
    /\ UNCHANGED now

\* The first write about an untold claim also says what it was before.
Backfill(c, past, r, b, m) ==
    /\ Untold(c)
    /\ r \in Instants /\ m \in Instants /\ now <= m /\ r < m
    /\ belief' = [belief EXCEPT ![c] =
                    [k \in Instants |-> IF k < r THEN Unknown
                                        ELSE IF k < m THEN past ELSE b]]
    /\ UNCHANGED now

Tick == /\ now' \in Instants /\ now < now'
        /\ UNCHANGED belief

Next ==
    \/ Tick
    \/ \E c \in Claim, b \in Belief, m \in Instants : Write(c, b, m)
    \/ \E c \in {x \in Claim : Untold(x)}, past, b \in Belief, r, m \in Instants :
          Backfill(c, past, r, b, m)

Spec == Init /\ [][Next]_<<now, belief>>
=============================================================================
