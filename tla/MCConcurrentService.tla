------------------------ MODULE MCConcurrentService ------------------------
EXTENDS ConcurrentService

CONSTANTS m1, m2, m3, p1, p2

\* m2 contradicts m1 by rule; m3 may contradict either, as a judge says.
Rivals == {{m1, m2}}
Doubts == {{m1, m3}, {m2, m3}}

Confirm(m, strategy) == [op |-> "confirm", memory |-> m, strategy |-> strategy]
On(op, m) == [op |-> op, memory |-> m]

Calls ==
    {Confirm(m1, NULL), Confirm(m2, NULL)}
    \cup {Confirm(m1, "keep_both"), Confirm(m3, "supersede"),
          Confirm(m1, "reject")}
    \cup {On("forget", m1), On("stale", m1)}

\* A confirmation beside a forget.
BesideForget == {Confirm(m1, NULL), On("forget", m1)}
=============================================================================
