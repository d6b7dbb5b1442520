---------------------------- MODULE MCThreadPool ----------------------------
(* Instances of ThreadPool for TLC.                                        *)
EXTENDS ThreadPool

CONSTANTS w1, w2, w3, c1, c2, c3, c4

ThreeWorkers == {w1, w2, w3}
FourConns    == {c1, c2, c3, c4}
Payload      == {c1, c3}
=============================================================================
