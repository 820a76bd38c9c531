--------------------------- MODULE MCChangRoberts ---------------------------
EXTENDS ChangRoberts

\* Neither ascending nor descending along the ring, with the largest id inside.
Ids == <<2, 1, 4, 3>>
=============================================================================
