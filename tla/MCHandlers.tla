----------------------------- MODULE MCHandlers -----------------------------
(* Instances of Handlers for TLC.  The requests are chosen so that two or  *)
(* three workers meet on one file in every way the handlers allow.         *)
EXTENDS Handlers

CONSTANTS t1, t2, t3, fa, fb, d1, empty, rw, ro, wo

TwoThreads   == {t1, t2}
ThreeThreads == {t1, t2, t3}
OneName      == {fa}
TwoNames     == {fa, fb}
OneData      == {d1}
AllModes     == {rw, ro, wo}
ReadModes    == {rw, ro}
WriteModes   == {rw, wo}

Put(n, d) == [op |-> "upload", name |-> n, data |-> d]
Get(n)    == [op |-> "download", name |-> n]
Del(n)    == [op |-> "delete", name |-> n]
Mod(n, m) == [op |-> "chmod", name |-> n, mode |-> m]
Lst       == [op |-> "list"]
Bad(c)    == [op |-> "bad", code |-> c]

(* Every kind of request for one file, and a second file for listings.     *)
EveryRequest == {Put(fa, d1), Put(fa, empty), Get(fa), Del(fa), Mod(fa, ro), Mod(fa, wo),
                 Lst, Bad(400), Put(fb, d1)}

(* Three workers on one file, and a second one that must not be held up.   *)
TwoFiles == {Put(fa, d1), Get(fa), Del(fa), Put(fb, d1)}

(* What can change a file, and the mode of one that is there.              *)
Changing == {Put(fa, d1), Put(fa, empty), Get(fa), Del(fa), Mod(fa, ro)}
=============================================================================
