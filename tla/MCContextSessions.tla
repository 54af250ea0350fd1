------------------------- MODULE MCContextSessions -------------------------
EXTENDS ContextSessions, TLC

CONSTANTS m1, m2, m3, b1, b2, b3, work, home, s1

Fact(m, b, n) == [memory |-> m, bundle |-> b, sha |-> n,
                  pinned |-> FALSE, contested |-> FALSE]
Contests(a) == [a EXCEPT !.contested = TRUE, !.sha = @ + 10]
Pins(a)     == [a EXCEPT !.pinned = TRUE, !.sha = @ + 20]

\* Two memories about one thing: alone, at odds, at odds with newer evidence,
\* and settled.  The first says a second thing, in another bundle.
Ours  == Fact(m1, b1, 1)
Other == Fact(m2, b1, 2)
Aside == Fact(m1, b2, 4)
Anew  == [Contests(Other) EXCEPT !.sha = @ + 1]

\* It says two things of one subject with one predicate: "The build uses A.
\* The build uses B."
Twin  == Fact(m1, b1, 5)

\* A constraint of the other scope, its next text, and the next one's second
\* claim, of another subject.
Away   == Pins(Fact(m3, b3, 3))
Later  == Pins(Fact(m3, b3, 6))
Beside == Pins(Fact(m3, b2, 7))

Atoms == {Ours, Other, Aside, Twin, Contests(Ours), Contests(Other), Anew,
          Away, Later, Beside}

\* One side of a conflict may be found without the other.
Worlds ==
    (work :> {{Ours, Aside}, {Ours, Twin}, {Contests(Ours), Contests(Other)},
              {Contests(Ours), Anew}, {Anew}})
    @@ (home :> {{Away}, {Later}, {Later, Beside}})

\* The twins alone.
TwinAtoms  == {Ours, Twin}
TwinWorlds == (work :> {{Ours}, {Ours, Twin}})
=============================================================================
