------------------------------- MODULE RWLock -------------------------------
(***************************************************************************)
(* What the in-process file lock of fileops.c promises its callers: for    *)
(* every file name a lock that one writer holds alone or that any number   *)
(* of readers share.  FileLock is shown to implement this specification    *)
(* and Handlers is built on it.                                            *)
(***************************************************************************)
CONSTANTS Threads,  \* the worker threads
          Names     \* the file names they lock

VARIABLES writer,   \* writer[n]: the threads that hold n as a writer
          reader    \* reader[n]: the threads that hold n as a reader

lockVars == <<writer, reader>>

Init ==
  /\ writer = [n \in Names |-> {}]
  /\ reader = [n \in Names |-> {}]

(* A handler locks one name at a time: it releases before it locks again.  *)
HoldsNothing(t) == \A n \in Names : t \notin writer[n] \cup reader[n]

(* fileops_lock_acquire_write returns once nobody holds the name.          *)
EnterWrite(t, n) ==
  /\ HoldsNothing(t)
  /\ writer[n] = {} /\ reader[n] = {}
  /\ writer' = [writer EXCEPT ![n] = {t}]
  /\ UNCHANGED reader

(* fileops_lock_acquire_read returns once no writer holds the name.        *)
EnterRead(t, n) ==
  /\ HoldsNothing(t)
  /\ writer[n] = {}
  /\ reader' = [reader EXCEPT ![n] = @ \cup {t}]
  /\ UNCHANGED writer

LeaveWrite(t, n) ==
  /\ t \in writer[n]
  /\ writer' = [writer EXCEPT ![n] = {}]
  /\ UNCHANGED reader

LeaveRead(t, n) ==
  /\ t \in reader[n]
  /\ reader' = [reader EXCEPT ![n] = @ \ {t}]
  /\ UNCHANGED writer

Next ==
  \E t \in Threads, n \in Names :
    \/ EnterWrite(t, n)
    \/ EnterRead(t, n)
    \/ LeaveWrite(t, n)
    \/ LeaveRead(t, n)

Spec == Init /\ [][Next]_lockVars
=============================================================================
