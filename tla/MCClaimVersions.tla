--------------------------- MODULE MCClaimVersions ---------------------------
EXTENDS ClaimVersions

\* Four of the field combinations the lifecycle writes.
MCFields ==
    { [status |-> "candidate",  stale |-> "unknown", validTo |-> NULL],
      [status |-> "accepted",   stale |-> "unknown", validTo |-> NULL],
      [status |-> "superseded", stale |-> "unknown", validTo |-> 2],
      [status |-> "stale",      stale |-> "stale",   validTo |-> NULL] }
=============================================================================
