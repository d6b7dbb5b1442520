------------------------------ MODULE MCCrash ------------------------------
(* The instances of MCHandlers for Crash.  All its properties are about    *)
(* safety and treat the workers alike, so these may be exchanged.          *)
EXTENDS Crash, MCHandlers, TLC

Alike == Permutations(TwoThreads)
=============================================================================
