---------------------------- MODULE MCTableActor ----------------------------
EXTENDS TableActor

CONSTANTS p1, p2

Two == {p1, p2}

\* The first player comes back once.
OneReturns == <<p1, p2, p1>>
=============================================================================
