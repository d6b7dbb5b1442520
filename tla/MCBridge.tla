------------------------------ MODULE MCBridge ------------------------------
(* An instance of Bridge for TLC.                                          *)
EXTENDS Bridge

CONSTANTS r1, r2

TwoRequests == {r1, r2}
SomeRoutes  == {"download", "chmod"}
SomeCodes   == {404}
=============================================================================
