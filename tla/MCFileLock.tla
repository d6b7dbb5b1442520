----------------------------- MODULE MCFileLock -----------------------------
(* Instances of FileLock for TLC.                                          *)
EXTENDS FileLock

CONSTANTS t1, t2, t3, f, g

MCThreads == {t1, t2, t3}
OneName == {f}
TwoNames == {f, g}
OneFragile == {g}
NoneFragile == {}
=============================================================================
