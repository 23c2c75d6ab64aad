-------------------------- MODULE MCConnectionPool --------------------------
(***************************************************************************)
(* ConnectionPool for TLC: one request more than there are connections.    *)
(***************************************************************************)
EXTENDS ConnectionPool

CONSTANTS r1, r2, r3

ThreeRequests == {r1, r2, r3}
=============================================================================
