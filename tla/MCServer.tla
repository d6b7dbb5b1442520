------------------------------ MODULE MCServer ------------------------------
(* Instances of Server for TLC.                                            *)
EXTENDS Server

CONSTANTS w1, c1, c2, c3

OneWorker  == {w1}
TwoConns   == {c1, c2}
ThreeConns == {c1, c2, c3}
Payload    == {c1}
=============================================================================
