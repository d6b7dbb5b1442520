------------------------------ MODULE FileLock ------------------------------
(***************************************************************************)
(* The in-process lock table of fileops.c: one entry per file name ever    *)
(* locked, all entries behind one mutex and one condition variable.        *)
(*                                                                         *)
(* A step is one critical section of lock_table_mutex, from                *)
(* pthread_mutex_lock to pthread_mutex_unlock or to the pthread_cond_wait  *)
(* that gives the mutex back.  A thread woken from the wait is again in    *)
(* front of the mutex and evaluates the while condition anew; its entry    *)
(* exists by then, so looking it up again changes nothing.                 *)
(***************************************************************************)
EXTENDS Naturals, FiniteSets

CONSTANTS Threads,  \* threads that call the four lock functions
          Names,    \* file names
          Fragile   \* the names whose entry malloc may have no memory for

ASSUME FileLockAssumption == IsFiniteSet(Threads) /\ Fragile \subseteq Names

VARIABLES table,     \* names that have an entry in the list lock_table_head
          writers,   \* the field writers of each entry, 0 without an entry
          readers,   \* the field readers of each entry, 0 without an entry
          pc,        \* where each thread is
          kind,      \* the lock it asked for last
          name       \* the name it asked for last

vars == <<table, writers, readers, pc, kind, name>>

Kinds == {"read", "write"}

(* "idle"  outside the lock functions and holding nothing                  *)
(* "lock"  in an acquire function, about to get lock_table_mutex           *)
(* "wait"  blocked in pthread_cond_wait on lock_table_cond                 *)
(* "held"  returned from the acquire function with the entry updated       *)
(* "bare"  returned from it with e == NULL: nothing was locked             *)
Locations == {"idle", "lock", "wait", "held", "bare"}

Init ==
  /\ table = {}
  /\ writers = [n \in Names |-> 0]
  /\ readers = [n \in Names |-> 0]
  /\ pc = [t \in Threads |-> "idle"]
  /\ kind \in [Threads -> {"read"}]
  /\ name \in [Threads -> Names]

(* get_entry_locked returns NULL: no entry yet and no memory for one.      *)
AllocFails(n) == n \in Fragile /\ n \notin table

(* get_entry_locked returns the entry, made with both counters 0 if new.   *)
GetEntry(n) == table' = table \cup {n}

(* Thread t goes to location l; with pthread_cond_broadcast every waiter   *)
(* goes back to the mutex.                                                 *)
Goto(t, l) == pc' = [pc EXCEPT ![t] = l]

GotoWithoutBroadcast(t, l) == Goto(t, l)

GotoAndSignal(t, l) ==
  LET waiting == {u \in Threads \ {t} : pc[u] = "wait"}
  IN  \E woken \in {{}} \cup {{u} : u \in waiting} :
        /\ waiting # {} => woken # {}
        /\ pc' = [u \in Threads |-> IF u = t THEN l
                                    ELSE IF u \in woken THEN "lock" ELSE pc[u]]

GotoAndBroadcast(t, l) ==
  pc' = [u \in Threads |-> IF u = t THEN l
                           ELSE IF pc[u] = "wait" THEN "lock" ELSE pc[u]]

(* The while conditions of the two acquire functions.                      *)
BlockedByWritersOnly(n) == writers[n] > 0

WriterBlocked(n) == writers[n] > 0 \/ readers[n] > 0

NeverBlocked(n) == FALSE

ReaderBlocked(n) == writers[n] > 0

(* What release_read leaves in the counter: never less than 0.             *)
DecrementAlways(r) == r - 1

DecrementFromTwo(r) == IF r > 1 THEN r - 1 ELSE r

Decrement(r) == IF r > 0 THEN r - 1 ELSE r

(* A handler calls an acquire function for a name.                         *)
Request(t, n, k) ==
  /\ pc[t] = "idle"
  /\ Goto(t, "lock")
  /\ kind' = [kind EXCEPT ![t] = k]
  /\ name' = [name EXCEPT ![t] = n]
  /\ UNCHANGED <<table, writers, readers>>

AcquireWrite(t) ==
  /\ pc[t] = "lock" /\ kind[t] = "write"
  /\ \/ /\ AllocFails(name[t])
        /\ Goto(t, "bare")
        /\ UNCHANGED <<table, writers>>
     \/ /\ GetEntry(name[t])
        /\ WriterBlocked(name[t])
        /\ Goto(t, "wait")
        /\ UNCHANGED writers
     \/ /\ GetEntry(name[t])
        /\ ~WriterBlocked(name[t])
        /\ writers' = [writers EXCEPT ![name[t]] = 1]
        /\ Goto(t, "held")
  /\ UNCHANGED <<readers, kind, name>>

AcquireRead(t) ==
  /\ pc[t] = "lock" /\ kind[t] = "read"
  /\ \/ /\ AllocFails(name[t])
        /\ Goto(t, "bare")
        /\ UNCHANGED <<table, readers>>
     \/ /\ GetEntry(name[t])
        /\ ReaderBlocked(name[t])
        /\ Goto(t, "wait")
        /\ UNCHANGED readers
     \/ /\ GetEntry(name[t])
        /\ ~ReaderBlocked(name[t])
        /\ readers' = [readers EXCEPT ![name[t]] = @ + 1]
        /\ Goto(t, "held")
  /\ UNCHANGED <<writers, kind, name>>

(* The release functions look the entry up again.  A thread whose acquire  *)
(* found no memory releases all the same, and by then there may be an      *)
(* entry that other threads hold.                                          *)
ReleaseWrite(t) ==
  /\ pc[t] \in {"held", "bare"} /\ kind[t] = "write"
  /\ \/ AllocFails(name[t]) /\ UNCHANGED <<table, writers>>
     \/ GetEntry(name[t]) /\ writers' = [writers EXCEPT ![name[t]] = 0]
  /\ GotoAndBroadcast(t, "idle")
  /\ UNCHANGED <<readers, kind, name>>

ReleaseRead(t) ==
  /\ pc[t] \in {"held", "bare"} /\ kind[t] = "read"
  /\ \/ AllocFails(name[t]) /\ UNCHANGED <<table, readers>>
     \/ /\ GetEntry(name[t])
        /\ readers' = [readers EXCEPT ![name[t]] = Decrement(@)]
  /\ GotoAndBroadcast(t, "idle")
  /\ UNCHANGED <<writers, kind, name>>

(* POSIX lets pthread_cond_wait return without a broadcast.                *)
SpuriousWakeup(t) ==
  /\ pc[t] = "wait"
  /\ Goto(t, "lock")
  /\ UNCHANGED <<table, writers, readers, kind, name>>

Acquire(t) == AcquireWrite(t) \/ AcquireRead(t)
Release(t) == ReleaseWrite(t) \/ ReleaseRead(t)

Next ==
  \E t \in Threads :
    \/ \E n \in Names, k \in Kinds : Request(t, n, k)
    \/ Acquire(t)
    \/ Release(t)
    \/ SpuriousWakeup(t)

Spec == Init /\ [][Next]_vars

(* A thread at the mutex gets it and a handler that holds a name releases  *)
(* it.  Nothing makes a client send another request.                       *)
Fairness == \A t \in Threads : WF_vars(Acquire(t)) /\ WF_vars(Release(t))

FairSpec == Spec /\ Fairness

-----------------------------------------------------------------------------
(* Type correctness, also when allocations fail: a release whose acquire   *)
(* locked nothing must not take a counter below 0.                         *)
TypeOK ==
  /\ table \subseteq Names
  /\ writers \in [Names -> 0..1]
  /\ readers \in [Names -> Nat]
  /\ pc \in [Threads -> Locations]
  /\ kind \in [Threads -> Kinds]
  /\ name \in [Threads -> Names]

(* The threads between a successful acquire of n and its release.          *)
Holders(n, k) == {t \in Threads : pc[t] = "held" /\ kind[t] = k /\ name[t] = n}

(* The names the table never lacks an entry for.                           *)
Sturdy == Names \ Fragile

(* Every entry counts its holders.  This is what makes the while           *)
(* conditions mean what they say, and the release functions right to       *)
(* trust the counter they find.                                            *)
WritersCounted ==
  \A n \in Sturdy :
    /\ writers[n] = 0 => Holders(n, "write") = {}
    /\ writers[n] = 1 => \E t \in Threads : Holders(n, "write") = {t}

ReadersCounted ==
  \A n \in Sturdy : readers[n] = Cardinality(Holders(n, "read"))

BareOnlyIfFragile == \A t \in Threads : pc[t] = "bare" => name[t] \in Fragile

NotBoth == \A n \in Sturdy : writers[n] = 0 \/ readers[n] = 0

(* The inductive invariant: what failed allocations do to some names never *)
(* reaches the others, although all share one mutex and one condition.     *)
LockInv == WritersCounted /\ ReadersCounted /\ NotBoth /\ BareOnlyIfFragile

(* Threads whose handler is working on its file.                           *)
Inside(t) == pc[t] \in {"held", "bare"}

(* "uploads and deletes are exclusive writers, downloads are shared        *)
(* readers" (fileops.h): two handlers inside the same file are both        *)
(* downloads, unless no entry could be made for its name.                  *)
WritersAlone ==
  \A t, u \in Threads :
    t # u /\ Inside(t) /\ Inside(u) /\ name[t] = name[u] /\ name[t] \in Sturdy
      => kind[t] = "read" /\ kind[u] = "read"

(* No wakeup is lost: a thread sleeps on lock_table_cond only while the    *)
(* condition of its while loop holds, although all names share the one     *)
(* condition variable and a release of another name may wake it.           *)
NoLostWakeup ==
  \A t \in Threads :
    pc[t] = "wait" => IF kind[t] = "write" THEN WriterBlocked(name[t])
                                          ELSE ReaderBlocked(name[t])

(* Nobody sleeps for nothing: whenever a thread waits, another one has been *)
(* given that very name and will release it.  So it is even for a name     *)
(* whose counters failed allocations have put wrong: what they count too   *)
(* much would keep every later request for the name waiting for ever.      *)
SleepersHaveHolder ==
  \A t \in Threads :
    pc[t] = "wait" => \E u \in Threads \ {t} : pc[u] = "held" /\ name[u] = name[t]

(* Once no new request arrives every pending one gets its lock: nothing    *)
(* deadlocks and nobody is forgotten.  (With requests arriving for ever    *)
(* the code promises less, see PendingWriterGoesFirst.)                    *)
QuietEventually == <>[][~\E t \in Threads, n \in Names, k \in Kinds : Request(t, n, k)]_vars

PendingServed ==
  QuietEventually => \A t \in Threads : pc[t] \in {"lock", "wait"} ~> Inside(t)

(* "a pending writer blocks new readers and other writers until it         *)
(* releases" (fileops.h): no reader gets a file some writer is already     *)
(* waiting for.                                                            *)
PendingWriterGoesFirst ==
  [][\A t, u \in Threads :
       pc[t] = "wait" /\ kind[t] = "write" /\ name[u] = name[t] /\ kind[u] = "read"
         => ~(pc[u] = "lock" /\ pc'[u] = "held")]_vars

(* The table implements the abstract lock for every name it has memory for. *)
RW == INSTANCE RWLock WITH
        Names  <- Sturdy,
        writer <- [n \in Sturdy |-> Holders(n, "write")],
        reader <- [n \in Sturdy |-> Holders(n, "read")]

RWSpec == RW!Spec
=============================================================================
