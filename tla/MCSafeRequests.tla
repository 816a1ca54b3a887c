--------------------------- MODULE MCSafeRequests ---------------------------
(* One creator's requests: two handlers at work on one row, a client that   *)
(* sends its key or leaves it out, and an admin.                            *)
EXTENDS SafeRequests

CONSTANTS a1, k1, h1, h2

MCRows == {a1}
MCKeys == {k1}
MCHandlers == {h1, h2}
=============================================================================
