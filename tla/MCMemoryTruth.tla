--------------------------- MODULE MCMemoryTruth ---------------------------
EXTENDS MemoryTruth, TLC

CONSTANTS m1, m2, m3, database, region, postgres, mysql, postgres17, k1, k2

Symmetric == Permutations(Memory)

Yes(object) == [object |-> object, affirmed |-> TRUE]
No(object)  == [object |-> object, affirmed |-> FALSE]

\* What a text says of the two identities.
Says(x, y) == (database :> x) @@ (region :> y)

Payload(key, says, manual) ==
    [key |-> key, says |-> says, from |-> NULL, to |-> NULL, ttl |-> NULL,
     manual |-> manual]

\* Conflicts: rival values of a single-valued identity, with and without the
\* same key, of a multi-valued one, and a value that contains another.
ConflictProposals ==
    { Payload(k1, Says(Yes(postgres), NULL), FALSE),
      Payload(k1, Says(NULL, Yes(mysql)), TRUE),
      Payload(k2, Says(Yes(mysql), NULL), TRUE),
      Payload(k2, Says(No(postgres), Yes(postgres)), FALSE),
      Payload(k2, Says(Yes(postgres17), NULL), TRUE) }

Containment == {<<postgres, postgres17>>}

Strategies == {"supersede", "keep_both"}

\* Time: bounded validity and a time to live, the edits of a candidate, and
\* evidence that goes stale and is fresh again.
Timed(key, says, from, to, ttl, manual) ==
    [key |-> key, says |-> says, from |-> from, to |-> to, ttl |-> ttl,
     manual |-> manual]

TimedProposals ==
    { Timed(k1, Says(Yes(postgres), NULL), NULL, NULL, 1, FALSE),
      Timed(k2, Says(Yes(mysql), NULL), 2, NULL, NULL, TRUE) }

Revisions == { [key |-> k1, says |-> Says(Yes(mysql), NULL)] }

Schedules == { [from |-> NULL, to |-> 2, ttl |-> NULL] }

\* Replacement: a value given up for another one under the same key.
Replacements ==
    { Payload(k1, Says(NULL, Yes(postgres)), FALSE),
      Payload(k1, Says(NULL, Yes(mysql)), FALSE) }

\* Archive: two memories that support the same identity, one for a while.
ArchiveProposals ==
    { Payload(k1, Says(Yes(postgres), NULL), TRUE),
      Timed(k2, Says(Yes(postgres), NULL), NULL, NULL, 1, TRUE) }
=============================================================================
