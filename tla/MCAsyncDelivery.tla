-------------------------- MODULE MCAsyncDelivery --------------------------
EXTENDS AsyncDelivery

CONSTANTS r1, r2, s1, s2

\* Two runs of two sessions.
MCOwner == [r \in Runs |-> IF r = r1 THEN s1 ELSE s2]
=============================================================================
