------------------------- MODULE MCClientLifecycle -------------------------
EXTENDS ClientLifecycle

CONSTANTS a, b, a1, a2, b1

MCOwner == [k \in Connections |-> IF k = b1 THEN b ELSE a]
=============================================================================
