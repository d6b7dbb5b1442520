--------------------------- MODULE FileLockProofs ---------------------------
(***************************************************************************)
(* Proofs about FileLock for any threads and any names.                    *)
(***************************************************************************)
EXTENDS FileLock, FiniteSetTheorems, TLAPS

(* The holders of a name can be counted.                                   *)
LEMMA HoldersFinite ==
  ASSUME NEW n, NEW k
  PROVE  IsFiniteSet(Holders(n, k)) /\ Cardinality(Holders(n, k)) \in Nat
<1>1. IsFiniteSet(Holders(n, k))
  BY FileLockAssumption, FS_Subset DEF Holders
<1>2. QED
  BY <1>1, FS_CardinalityType

-----------------------------------------------------------------------------
(* Every reachable state is type correct, whether or not allocations fail: *)
(* the counters of fileops.c stay in range although a release may find an  *)
(* entry that its thread never locked.                                     *)
THEOREM TypeCorrect == Spec => []TypeOK
<1>1. Init => TypeOK
  BY DEF Init, TypeOK, Kinds, Locations
<1>2. TypeOK /\ [Next]_vars => TypeOK'
  <2> SUFFICES ASSUME TypeOK, [Next]_vars
               PROVE  TypeOK'
    OBVIOUS
  <2> USE DEF TypeOK, Kinds, Locations
  <2>1. ASSUME NEW t \in Threads, NEW n \in Names, NEW k \in Kinds,
               Request(t, n, k)
        PROVE  TypeOK'
    BY <2>1 DEF Request, Goto
  <2>2. ASSUME NEW t \in Threads, AcquireWrite(t)
        PROVE  TypeOK'
    BY <2>2 DEF AcquireWrite, Goto, GetEntry
  <2>3. ASSUME NEW t \in Threads, AcquireRead(t)
        PROVE  TypeOK'
    BY <2>3 DEF AcquireRead, Goto, GetEntry
  <2>4. ASSUME NEW t \in Threads, ReleaseWrite(t)
        PROVE  TypeOK'
    BY <2>4 DEF ReleaseWrite, GotoAndBroadcast, GetEntry
  <2>5. ASSUME NEW t \in Threads, ReleaseRead(t)
        PROVE  TypeOK'
    BY <2>5 DEF ReleaseRead, GotoAndBroadcast, GetEntry, Decrement
  <2>6. ASSUME NEW t \in Threads, SpuriousWakeup(t)
        PROVE  TypeOK'
    BY <2>6 DEF SpuriousWakeup, Goto
  <2>7. CASE UNCHANGED vars
    BY <2>7 DEF vars
  <2>8. QED
    BY <2>1, <2>2, <2>3, <2>4, <2>5, <2>6, <2>7 DEF Next, Acquire, Release
<1>3. QED
  BY <1>1, <1>2, PTL DEF Spec

-----------------------------------------------------------------------------
(* A thread asleep on lock_table_cond always sleeps for a reason: a        *)
(* broadcast wakes every sleeper, so no release of any name can be missed. *)
THEOREM WakeupsNotLost == Spec => []NoLostWakeup
<1>1. Init => NoLostWakeup
  BY DEF Init, NoLostWakeup
<1>2. TypeOK /\ NoLostWakeup /\ [Next]_vars => NoLostWakeup'
  <2> SUFFICES ASSUME TypeOK, NoLostWakeup, [Next]_vars,
                      NEW u \in Threads, pc'[u] = "wait"
               PROVE  IF kind'[u] = "write" THEN WriterBlocked(name[u])'
                                           ELSE ReaderBlocked(name[u])'
    BY DEF NoLostWakeup
  <2> USE DEF TypeOK, Kinds, Locations, NoLostWakeup, WriterBlocked, ReaderBlocked
  <2>1. ASSUME NEW t \in Threads, NEW n \in Names, NEW k \in Kinds,
               Request(t, n, k)
        PROVE  IF kind'[u] = "write" THEN WriterBlocked(name[u])'
                                    ELSE ReaderBlocked(name[u])'
    BY <2>1 DEF Request, Goto
  <2>2. ASSUME NEW t \in Threads, AcquireWrite(t)
        PROVE  IF kind'[u] = "write" THEN WriterBlocked(name[u])'
                                    ELSE ReaderBlocked(name[u])'
    BY <2>2 DEF AcquireWrite, Goto
  <2>3. ASSUME NEW t \in Threads, AcquireRead(t)
        PROVE  IF kind'[u] = "write" THEN WriterBlocked(name[u])'
                                    ELSE ReaderBlocked(name[u])'
    BY <2>3 DEF AcquireRead, Goto
  <2>4. ASSUME NEW t \in Threads, Release(t)
        PROVE  FALSE
    <3>1. pc'[u] # "wait"
      BY <2>4 DEF Release, ReleaseWrite, ReleaseRead, GotoAndBroadcast
    <3>2. QED
      BY <3>1
  <2>5. ASSUME NEW t \in Threads, SpuriousWakeup(t)
        PROVE  IF kind'[u] = "write" THEN WriterBlocked(name[u])'
                                    ELSE ReaderBlocked(name[u])'
    BY <2>5 DEF SpuriousWakeup, Goto
  <2>6. CASE UNCHANGED vars
    BY <2>6 DEF vars
  <2>7. QED
    BY <2>1, <2>2, <2>3, <2>4, <2>5, <2>6 DEF Next, Acquire
<1>3. QED
  BY <1>1, <1>2, TypeCorrect, PTL DEF Spec

-----------------------------------------------------------------------------
(* A step that moves no thread into or out of "held", and leaves alone     *)
(* what the threads there asked for, changes no set of holders.            *)
LEMMA HoldersUnchanged ==
  ASSUME \A u \in Threads : pc'[u] = "held" <=> pc[u] = "held",
         \A u \in Threads : pc[u] = "held" => kind'[u] = kind[u] /\ name'[u] = name[u]
  PROVE  \A n, k : Holders(n, k)' = Holders(n, k)
BY DEF Holders

(* A thread that gets its lock joins the holders of what it asked for.     *)
LEMMA HoldersGain ==
  ASSUME NEW t \in Threads, pc[t] # "held",
         \A u \in Threads : pc'[u] = "held" <=> (u = t \/ pc[u] = "held"),
         kind' = kind, name' = name
  PROVE  \A n, k : /\ n = name[t] /\ k = kind[t]
                        => t \notin Holders(n, k) /\ Holders(n, k)' = Holders(n, k) \cup {t}
                   /\ ~(n = name[t] /\ k = kind[t]) => Holders(n, k)' = Holders(n, k)
BY DEF Holders

(* A thread that releases its lock leaves them.                            *)
LEMMA HoldersLose ==
  ASSUME NEW t \in Threads, pc[t] = "held",
         \A u \in Threads : pc'[u] = "held" <=> (u # t /\ pc[u] = "held"),
         kind' = kind, name' = name
  PROVE  \A n, k : /\ n = name[t] /\ k = kind[t]
                        => t \in Holders(n, k) /\ Holders(n, k)' = Holders(n, k) \ {t}
                   /\ ~(n = name[t] /\ k = kind[t]) => Holders(n, k)' = Holders(n, k)
BY DEF Holders

(* A step that leaves the entries of all sturdy names and their holders.   *)
SturdyUntouched ==
  \A n \in Sturdy :
    /\ writers'[n] = writers[n] /\ readers'[n] = readers[n]
    /\ \A k : Holders(n, k)' = Holders(n, k)

(* Whatever becomes of a name that has no memory for an entry, the threads *)
(* that ask for it touch only the counters of that name.                   *)
LEMMA FragileStep ==
  ASSUME TypeOK, BareOnlyIfFragile,
         NEW t \in Threads, name[t] \notin Sturdy, Acquire(t) \/ Release(t)
  PROVE  SturdyUntouched /\ BareOnlyIfFragile'
<1> USE DEF TypeOK, Kinds, Locations, Sturdy
<1>1. CASE Acquire(t)
  <2>1. kind' = kind /\ name' = name /\ pc[t] = "lock"
    BY <1>1 DEF Acquire, AcquireWrite, AcquireRead
  <2>2. PICK l \in {"bare", "wait", "held"} : pc' = [pc EXCEPT ![t] = l]
    BY <1>1 DEF Acquire, AcquireWrite, AcquireRead, Goto
  <2>3. \A n \in Sturdy : writers'[n] = writers[n] /\ readers'[n] = readers[n]
    BY <1>1 DEF Acquire, AcquireWrite, AcquireRead
  <2>4. \A n \in Sturdy : \A k : Holders(n, k)' = Holders(n, k)
    BY <2>1, <2>2 DEF Holders
  <2>5. BareOnlyIfFragile'
    BY <2>1, <2>2 DEF BareOnlyIfFragile
  <2>6. QED
    BY <2>3, <2>4, <2>5 DEF SturdyUntouched
<1>2. CASE Release(t)
  <2>1. kind' = kind /\ name' = name
    BY <1>2 DEF Release, ReleaseWrite, ReleaseRead
  <2>2. pc' = [u \in Threads |-> IF u = t THEN "idle"
                                 ELSE IF pc[u] = "wait" THEN "lock" ELSE pc[u]]
    BY <1>2 DEF Release, ReleaseWrite, ReleaseRead, GotoAndBroadcast
  <2>3. \A n \in Sturdy : writers'[n] = writers[n] /\ readers'[n] = readers[n]
    BY <1>2 DEF Release, ReleaseWrite, ReleaseRead
  <2>4. \A n \in Sturdy : \A k : Holders(n, k)' = Holders(n, k)
    BY <2>1, <2>2 DEF Holders
  <2>5. BareOnlyIfFragile'
    BY <2>1, <2>2 DEF BareOnlyIfFragile
  <2>6. QED
    BY <2>3, <2>4, <2>5 DEF SturdyUntouched
<1>3. QED
  BY <1>1, <1>2

(* For a name whose entry has memory the counters are exact, whatever      *)
(* allocations fail for other names: the writers field says whether there  *)
(* is a writer, the readers field how many readers, and never both.        *)
THEOREM CountersExact == Spec => []LockInv
<1>1. Init => LockInv
  <2> SUFFICES ASSUME Init PROVE LockInv
    OBVIOUS
  <2>1. \A n, k : Holders(n, k) = {}
    BY DEF Init, Holders
  <2>2. QED
    BY <2>1, FS_EmptySet
       DEF Init, LockInv, WritersCounted, ReadersCounted, NotBoth, BareOnlyIfFragile, Sturdy
<1>2. TypeOK /\ LockInv /\ [Next]_vars => LockInv'
  <2> SUFFICES ASSUME TypeOK, LockInv, [Next]_vars
               PROVE  LockInv'
    OBVIOUS
  <2> USE DEF TypeOK, Kinds, Locations, Sturdy
  <2>0. WritersCounted /\ ReadersCounted /\ NotBoth /\ BareOnlyIfFragile /\ \A n \in Sturdy : ~AllocFails(n)
    BY DEF LockInv, AllocFails
  <2>a. ASSUME SturdyUntouched, BareOnlyIfFragile'
        PROVE  LockInv'
    BY <2>0, <2>a DEF SturdyUntouched, LockInv, WritersCounted, ReadersCounted, NotBoth
  <2>b. ASSUME NEW t \in Threads, name[t] \notin Sturdy, Acquire(t) \/ Release(t)
        PROVE  LockInv'
    BY <2>0, <2>a, <2>b, FragileStep
  <2>1. ASSUME NEW t \in Threads, NEW n \in Names, NEW k \in Kinds,
               Request(t, n, k)
        PROVE  LockInv'
    <3>1. \A m, l : Holders(m, l)' = Holders(m, l)
      BY <2>1, HoldersUnchanged DEF Request, Goto
    <3>2. BareOnlyIfFragile' /\ writers' = writers /\ readers' = readers
      BY <2>0, <2>1 DEF Request, Goto, BareOnlyIfFragile
    <3>3. QED
      BY <3>1, <3>2, <2>a DEF SturdyUntouched
  <2>2. ASSUME NEW t \in Threads, name[t] \in Sturdy, AcquireWrite(t)
        PROVE  LockInv'
    <3>1. CASE WriterBlocked(name[t])
      <4>1. writers' = writers /\ readers' = readers /\ pc' = [pc EXCEPT ![t] = "wait"]
            /\ kind' = kind /\ name' = name
        BY <2>0, <2>2, <3>1 DEF AcquireWrite, Goto
      <4>2. \A m, l : Holders(m, l)' = Holders(m, l)
        BY <2>2, <4>1, HoldersUnchanged DEF AcquireWrite
      <4>3. BareOnlyIfFragile'
        BY <2>0, <4>1 DEF BareOnlyIfFragile
      <4>4. QED
        BY <4>1, <4>2, <4>3, <2>a DEF SturdyUntouched
    <3>2. CASE ~WriterBlocked(name[t])
      <4>1. /\ writers' = [writers EXCEPT ![name[t]] = 1] /\ readers' = readers
            /\ pc' = [pc EXCEPT ![t] = "held"] /\ pc[t] = "lock" /\ kind[t] = "write"
            /\ kind' = kind /\ name' = name /\ name[t] \in Sturdy
        BY <2>0, <2>2, <3>2 DEF AcquireWrite, Goto
      <4>2. writers[name[t]] = 0 /\ readers[name[t]] = 0
        BY <3>2, <4>1 DEF WriterBlocked
      <4>3. \A m, l : /\ m = name[t] /\ l = "write" => Holders(m, l)' = Holders(m, l) \cup {t}
                      /\ ~(m = name[t] /\ l = "write") => Holders(m, l)' = Holders(m, l)
        BY <4>1, HoldersGain
      <4>4. Holders(name[t], "write")' = {t}
        BY <4>1, <4>2, <4>3, <2>0 DEF WritersCounted
      <4>5. WritersCounted'
        <5> SUFFICES ASSUME NEW m \in Sturdy
                     PROVE  /\ writers'[m] = 0 => Holders(m, "write")' = {}
                            /\ writers'[m] = 1 => \E u \in Threads : Holders(m, "write")' = {u}
          BY DEF WritersCounted
        <5>1. CASE m = name[t]
          BY <4>1, <4>4, <5>1
        <5>2. CASE m # name[t]
          BY <4>1, <4>3, <2>0, <5>2 DEF WritersCounted
        <5>3. QED
          BY <5>1, <5>2
      <4>6. ReadersCounted'
        BY <2>0, <4>1, <4>3 DEF ReadersCounted
      <4>7. NotBoth' /\ BareOnlyIfFragile'
        BY <2>0, <4>1, <4>2 DEF NotBoth, BareOnlyIfFragile
      <4>8. QED
        BY <4>5, <4>6, <4>7 DEF LockInv
    <3>3. QED
      BY <3>1, <3>2
  <2>3. ASSUME NEW t \in Threads, name[t] \in Sturdy, AcquireRead(t)
        PROVE  LockInv'
    <3>1. CASE ReaderBlocked(name[t])
      <4>1. writers' = writers /\ readers' = readers /\ pc' = [pc EXCEPT ![t] = "wait"]
            /\ kind' = kind /\ name' = name
        BY <2>0, <2>3, <3>1 DEF AcquireRead, Goto
      <4>2. \A m, l : Holders(m, l)' = Holders(m, l)
        BY <2>3, <4>1, HoldersUnchanged DEF AcquireRead
      <4>3. BareOnlyIfFragile'
        BY <2>0, <4>1 DEF BareOnlyIfFragile
      <4>4. QED
        BY <4>1, <4>2, <4>3, <2>a DEF SturdyUntouched
    <3>2. CASE ~ReaderBlocked(name[t])
      <4>1. /\ readers' = [readers EXCEPT ![name[t]] = @ + 1] /\ writers' = writers
            /\ pc' = [pc EXCEPT ![t] = "held"] /\ pc[t] = "lock" /\ kind[t] = "read"
            /\ kind' = kind /\ name' = name /\ name[t] \in Sturdy
        BY <2>0, <2>3, <3>2 DEF AcquireRead, Goto
      <4>2. writers[name[t]] = 0
        BY <3>2, <4>1 DEF ReaderBlocked
      <4>3. \A m, l : /\ m = name[t] /\ l = "read"
                           => t \notin Holders(m, l) /\ Holders(m, l)' = Holders(m, l) \cup {t}
                      /\ ~(m = name[t] /\ l = "read") => Holders(m, l)' = Holders(m, l)
        BY <4>1, HoldersGain
      <4>4. WritersCounted'
        BY <2>0, <4>1, <4>3 DEF WritersCounted
      <4>5. ReadersCounted'
        <5> SUFFICES ASSUME NEW m \in Sturdy
                     PROVE  readers'[m] = Cardinality(Holders(m, "read")')
          BY DEF ReadersCounted
        <5>1. CASE m = name[t]
          <6>1. Cardinality(Holders(m, "read") \cup {t}) = Cardinality(Holders(m, "read")) + 1
            BY <4>3, <5>1, HoldersFinite, FS_AddElement
          <6>2. QED
            BY <6>1, <4>1, <4>3, <2>0, <5>1 DEF ReadersCounted
        <5>2. CASE m # name[t]
          BY <4>1, <4>3, <2>0, <5>2 DEF ReadersCounted
        <5>3. QED
          BY <5>1, <5>2
      <4>6. NotBoth' /\ BareOnlyIfFragile'
        BY <2>0, <4>1, <4>2 DEF NotBoth, BareOnlyIfFragile
      <4>7. QED
        BY <4>4, <4>5, <4>6 DEF LockInv
    <3>3. QED
      BY <3>1, <3>2
  <2>4. ASSUME NEW t \in Threads, name[t] \in Sturdy, ReleaseWrite(t)
        PROVE  LockInv'
    <3>1. /\ writers' = [writers EXCEPT ![name[t]] = 0] /\ readers' = readers
          /\ pc[t] = "held" /\ kind[t] = "write" /\ name[t] \in Sturdy
          /\ kind' = kind /\ name' = name
      BY <2>0, <2>4 DEF ReleaseWrite, BareOnlyIfFragile
    <3>2. /\ \A u \in Threads : pc'[u] = "held" <=> (u # t /\ pc[u] = "held")
          /\ BareOnlyIfFragile'
      BY <2>0, <2>4 DEF ReleaseWrite, GotoAndBroadcast, BareOnlyIfFragile
    <3>3. \A m, l : /\ m = name[t] /\ l = "write"
                         => t \in Holders(m, l) /\ Holders(m, l)' = Holders(m, l) \ {t}
                    /\ ~(m = name[t] /\ l = "write") => Holders(m, l)' = Holders(m, l)
      BY <3>1, <3>2, HoldersLose
    <3>4. Holders(name[t], "write")' = {}
      <4>1. PICK u \in Threads : Holders(name[t], "write") = {u}
        BY <2>0, <3>1, <3>3 DEF WritersCounted
      <4>2. QED
        BY <4>1, <3>3, <3>1
    <3>5. WritersCounted'
      BY <2>0, <3>1, <3>3, <3>4 DEF WritersCounted
    <3>6. ReadersCounted'
      BY <2>0, <3>1, <3>3 DEF ReadersCounted
    <3>7. NotBoth'
      BY <2>0, <3>1 DEF NotBoth
    <3>8. QED
      BY <3>2, <3>5, <3>6, <3>7 DEF LockInv
  <2>5. ASSUME NEW t \in Threads, name[t] \in Sturdy, ReleaseRead(t)
        PROVE  LockInv'
    <3>1. /\ readers' = [readers EXCEPT ![name[t]] = Decrement(@)] /\ writers' = writers
          /\ pc[t] = "held" /\ kind[t] = "read" /\ name[t] \in Sturdy
          /\ kind' = kind /\ name' = name
      BY <2>0, <2>5 DEF ReleaseRead, BareOnlyIfFragile
    <3>2. /\ \A u \in Threads : pc'[u] = "held" <=> (u # t /\ pc[u] = "held")
          /\ BareOnlyIfFragile'
      BY <2>0, <2>5 DEF ReleaseRead, GotoAndBroadcast, BareOnlyIfFragile
    <3>3. \A m, l : /\ m = name[t] /\ l = "read"
                         => t \in Holders(m, l) /\ Holders(m, l)' = Holders(m, l) \ {t}
                    /\ ~(m = name[t] /\ l = "read") => Holders(m, l)' = Holders(m, l)
      BY <3>1, <3>2, HoldersLose
    <3>4. WritersCounted'
      BY <2>0, <3>1, <3>3 DEF WritersCounted
    <3>5. ReadersCounted'
      <4> SUFFICES ASSUME NEW m \in Sturdy
                   PROVE  readers'[m] = Cardinality(Holders(m, "read")')
        BY DEF ReadersCounted
      <4>1. CASE m = name[t]
        <5>1. /\ Cardinality(Holders(m, "read") \ {t}) = Cardinality(Holders(m, "read")) - 1
              /\ Cardinality(Holders(m, "read") \ {t}) \in Nat
          BY <3>3, <4>1, HoldersFinite, FS_RemoveElement, FS_CardinalityType
        <5>2. QED
          BY <5>1, <3>1, <3>3, <2>0, <4>1 DEF ReadersCounted, Decrement
      <4>2. CASE m # name[t]
        BY <3>1, <3>3, <2>0, <4>2 DEF ReadersCounted
      <4>3. QED
        BY <4>1, <4>2
    <3>6. NotBoth'
      BY <2>0, <3>1 DEF NotBoth, Decrement
    <3>7. QED
      BY <3>2, <3>4, <3>5, <3>6 DEF LockInv
  <2>6. ASSUME NEW t \in Threads, SpuriousWakeup(t)
        PROVE  LockInv'
    <3>1. \A m, l : Holders(m, l)' = Holders(m, l)
      BY <2>6, HoldersUnchanged DEF SpuriousWakeup, Goto
    <3>2. BareOnlyIfFragile' /\ writers' = writers /\ readers' = readers
      BY <2>0, <2>6 DEF SpuriousWakeup, Goto, BareOnlyIfFragile
    <3>3. QED
      BY <3>1, <3>2, <2>a DEF SturdyUntouched
  <2>7. CASE UNCHANGED vars
    <3>1. \A m, l : Holders(m, l)' = Holders(m, l)
      BY <2>7 DEF vars, Holders
    <3>2. QED
      BY <2>0, <2>7, <3>1, <2>a DEF vars, BareOnlyIfFragile, SturdyUntouched
  <2>8. QED
    BY <2>1, <2>2, <2>3, <2>4, <2>5, <2>6, <2>7, <2>b DEF Next, Acquire, Release
<1>3. QED
  BY <1>1, <1>2, TypeCorrect, PTL DEF Spec

-----------------------------------------------------------------------------
(* "uploads and deletes are exclusive writers, downloads are shared        *)
(* readers": the state predicate follows from the exact counters.          *)
LEMMA WritersAloneFromInv == TypeOK /\ LockInv => WritersAlone
<1> SUFFICES ASSUME TypeOK, LockInv,
                    NEW t \in Threads, NEW u \in Threads,
                    t # u, Inside(t), Inside(u), name[t] = name[u], name[t] \in Sturdy,
                    kind[t] = "write"
             PROVE  FALSE
  BY DEF WritersAlone, TypeOK, Kinds
<1>1. pc[t] = "held" /\ pc[u] = "held" /\ name[t] \in Names /\ kind[u] \in Kinds
  BY DEF Inside, LockInv, BareOnlyIfFragile, TypeOK, Sturdy
<1>2. t \in Holders(name[t], "write")
  BY <1>1 DEF Holders
<1>3. writers[name[t]] = 1
  BY <1>1, <1>2 DEF LockInv, WritersCounted, TypeOK
<1>4. CASE kind[u] = "write"
  <2>1. u \in Holders(name[t], "write")
    BY <1>1, <1>4 DEF Holders
  <2>2. QED
    BY <1>1, <1>2, <1>3, <2>1 DEF LockInv, WritersCounted
<1>5. CASE kind[u] = "read"
  <2>1. u \in Holders(name[t], "read")
    BY <1>1, <1>5 DEF Holders
  <2>2. Cardinality(Holders(name[t], "read")) # 0
    BY <2>1, HoldersFinite, FS_EmptySet
  <2>3. QED
    BY <1>1, <1>3, <2>2 DEF LockInv, ReadersCounted, NotBoth
<1>6. QED
  BY <1>1, <1>4, <1>5 DEF Kinds

(* Two handlers inside one file that has an entry are both downloads, for  *)
(* any number of threads and names.                                        *)
THEOREM WriterExclusion == Spec => []WritersAlone
BY TypeCorrect, CountersExact, WritersAloneFromInv, PTL

(* For the names that have memory for an entry the table is a readers-     *)
(* writer lock: each step of the code is a step of RWLock or changes no    *)
(* holder of such a name.                                                  *)
THEOREM ImplementsRWLock == Spec => RWSpec
<1> DEFINE W == [n \in Sturdy |-> Holders(n, "write")]
           R == [n \in Sturdy |-> Holders(n, "read")]
<1>1. Init => RW!Init
  BY DEF Init, RW!Init, Holders, Sturdy
<1>2. TypeOK /\ LockInv /\ [Next]_vars => [RW!Next]_RW!lockVars
  <2> SUFFICES ASSUME TypeOK, LockInv, [Next]_vars
               PROVE  RW!Next \/ UNCHANGED RW!lockVars
    OBVIOUS
  <2> USE DEF TypeOK, Kinds, Locations, Sturdy
  <2>0. WritersCounted /\ ReadersCounted /\ NotBoth /\ BareOnlyIfFragile /\ \A n \in Sturdy : ~AllocFails(n)
    BY DEF LockInv, AllocFails
  <2>a. ASSUME \A n \in Sturdy : \A k : Holders(n, k)' = Holders(n, k)
        PROVE  UNCHANGED RW!lockVars
    BY <2>a DEF RW!lockVars
  <2>b. ASSUME NEW t \in Threads, pc[t] # "held"
        PROVE  RW!HoldsNothing(t)
    BY <2>b DEF RW!HoldsNothing, Holders
  <2>c. ASSUME NEW t \in Threads, name[t] \notin Sturdy, Acquire(t) \/ Release(t)
        PROVE  UNCHANGED RW!lockVars
    BY <2>0, <2>a, <2>c, FragileStep DEF SturdyUntouched
  <2>1. ASSUME NEW t \in Threads, NEW n \in Names, NEW k \in Kinds,
               Request(t, n, k)
        PROVE  UNCHANGED RW!lockVars
    <3>1. \A m, l : Holders(m, l)' = Holders(m, l)
      BY <2>1, HoldersUnchanged DEF Request, Goto
    <3>2. QED
      BY <3>1, <2>a
  <2>2. ASSUME NEW t \in Threads, name[t] \in Sturdy, AcquireWrite(t)
        PROVE  RW!Next \/ UNCHANGED RW!lockVars
    <3>1. CASE WriterBlocked(name[t])
      <4>1. \A m, l : Holders(m, l)' = Holders(m, l)
        BY <2>0, <2>2, <3>1, HoldersUnchanged DEF AcquireWrite, Goto
      <4>2. QED
        BY <4>1, <2>a
    <3>2. CASE ~WriterBlocked(name[t])
      <4>1. /\ pc' = [pc EXCEPT ![t] = "held"] /\ pc[t] = "lock" /\ kind[t] = "write"
            /\ kind' = kind /\ name' = name /\ name[t] \in Sturdy
        BY <2>0, <2>2, <3>2 DEF AcquireWrite, Goto
      <4>2. writers[name[t]] = 0 /\ readers[name[t]] = 0
        BY <3>2, <4>1 DEF WriterBlocked
      <4>3. W[name[t]] = {} /\ R[name[t]] = {}
        <5>1. Holders(name[t], "write") = {}
          BY <2>0, <4>1, <4>2 DEF WritersCounted
        <5>2. Cardinality(Holders(name[t], "read")) = 0
          BY <2>0, <4>1, <4>2 DEF ReadersCounted
        <5>3. Holders(name[t], "read") = {}
          BY <5>2, HoldersFinite, FS_EmptySet
        <5>4. QED
          BY <4>1, <5>1, <5>3
      <4>4. \A m, l : /\ m = name[t] /\ l = "write" => Holders(m, l)' = Holders(m, l) \cup {t}
                      /\ ~(m = name[t] /\ l = "write") => Holders(m, l)' = Holders(m, l)
        BY <4>1, HoldersGain
      <4>5. W' = [W EXCEPT ![name[t]] = {t}] /\ R' = R
        BY <4>1, <4>3, <4>4
      <4>6. RW!EnterWrite(t, name[t])
        BY <4>1, <4>3, <4>5, <2>b DEF RW!EnterWrite
      <4>7. QED
        BY <4>1, <4>6 DEF RW!Next
    <3>3. QED
      BY <3>1, <3>2
  <2>3. ASSUME NEW t \in Threads, name[t] \in Sturdy, AcquireRead(t)
        PROVE  RW!Next \/ UNCHANGED RW!lockVars
    <3>1. CASE ReaderBlocked(name[t])
      <4>1. \A m, l : Holders(m, l)' = Holders(m, l)
        BY <2>0, <2>3, <3>1, HoldersUnchanged DEF AcquireRead, Goto
      <4>2. QED
        BY <4>1, <2>a
    <3>2. CASE ~ReaderBlocked(name[t])
      <4>1. /\ pc' = [pc EXCEPT ![t] = "held"] /\ pc[t] = "lock" /\ kind[t] = "read"
            /\ kind' = kind /\ name' = name /\ name[t] \in Sturdy
        BY <2>0, <2>3, <3>2 DEF AcquireRead, Goto
      <4>2. W[name[t]] = {}
        BY <2>0, <3>2, <4>1 DEF ReaderBlocked, WritersCounted
      <4>3. \A m, l : /\ m = name[t] /\ l = "read" => Holders(m, l)' = Holders(m, l) \cup {t}
                      /\ ~(m = name[t] /\ l = "read") => Holders(m, l)' = Holders(m, l)
        BY <4>1, HoldersGain
      <4>4. R' = [R EXCEPT ![name[t]] = @ \cup {t}] /\ W' = W
        BY <4>1, <4>3
      <4>5. RW!EnterRead(t, name[t])
        BY <4>1, <4>2, <4>4, <2>b DEF RW!EnterRead
      <4>6. QED
        BY <4>1, <4>5 DEF RW!Next
    <3>3. QED
      BY <3>1, <3>2
  <2>4. ASSUME NEW t \in Threads, name[t] \in Sturdy, ReleaseWrite(t)
        PROVE  RW!Next
    <3>1. /\ pc[t] = "held" /\ kind[t] = "write" /\ name[t] \in Sturdy
          /\ kind' = kind /\ name' = name
          /\ \A u \in Threads : pc'[u] = "held" <=> (u # t /\ pc[u] = "held")
      BY <2>0, <2>4 DEF ReleaseWrite, GotoAndBroadcast, BareOnlyIfFragile
    <3>2. \A m, l : /\ m = name[t] /\ l = "write"
                         => t \in Holders(m, l) /\ Holders(m, l)' = Holders(m, l) \ {t}
                    /\ ~(m = name[t] /\ l = "write") => Holders(m, l)' = Holders(m, l)
      BY <3>1, HoldersLose
    <3>3. Holders(name[t], "write")' = {}
      <4>1. PICK u \in Threads : Holders(name[t], "write") = {u}
        BY <2>0, <3>1, <3>2 DEF WritersCounted
      <4>2. QED
        BY <4>1, <3>2, <3>1
    <3>4. W' = [W EXCEPT ![name[t]] = {}] /\ R' = R /\ t \in W[name[t]]
      <4>1. t \in W[name[t]]
        BY <3>1, <3>2
      <4>2. R' = R
        BY <3>2
      <4>3. W' = [W EXCEPT ![name[t]] = {}]
        BY <3>1, <3>2, <3>3
      <4>4. QED
        BY <4>1, <4>2, <4>3
    <3>5. RW!LeaveWrite(t, name[t])
      BY <3>4 DEF RW!LeaveWrite
    <3>6. QED
      BY <3>1, <3>5 DEF RW!Next
  <2>5. ASSUME NEW t \in Threads, name[t] \in Sturdy, ReleaseRead(t)
        PROVE  RW!Next
    <3>1. /\ pc[t] = "held" /\ kind[t] = "read" /\ name[t] \in Sturdy
          /\ kind' = kind /\ name' = name
          /\ \A u \in Threads : pc'[u] = "held" <=> (u # t /\ pc[u] = "held")
      BY <2>0, <2>5 DEF ReleaseRead, GotoAndBroadcast, BareOnlyIfFragile
    <3>2. \A m, l : /\ m = name[t] /\ l = "read"
                         => t \in Holders(m, l) /\ Holders(m, l)' = Holders(m, l) \ {t}
                    /\ ~(m = name[t] /\ l = "read") => Holders(m, l)' = Holders(m, l)
      BY <3>1, HoldersLose
    <3>3. R' = [R EXCEPT ![name[t]] = @ \ {t}] /\ W' = W /\ t \in R[name[t]]
      <4>1. t \in R[name[t]]
        BY <3>1, <3>2
      <4>2. W' = W
        BY <3>2
      <4>3. R' = [R EXCEPT ![name[t]] = @ \ {t}]
        BY <3>1, <3>2
      <4>4. QED
        BY <4>1, <4>2, <4>3
    <3>4. RW!LeaveRead(t, name[t])
      BY <3>3 DEF RW!LeaveRead
    <3>5. QED
      BY <3>1, <3>4 DEF RW!Next
  <2>6. ASSUME NEW t \in Threads, SpuriousWakeup(t)
        PROVE  UNCHANGED RW!lockVars
    <3>1. \A m, l : Holders(m, l)' = Holders(m, l)
      BY <2>6, HoldersUnchanged DEF SpuriousWakeup, Goto
    <3>2. QED
      BY <3>1, <2>a
  <2>7. CASE UNCHANGED vars
    BY <2>7 DEF vars, RW!lockVars, Holders
  <2>8. QED
    BY <2>1, <2>2, <2>3, <2>4, <2>5, <2>6, <2>7, <2>c DEF Next, Acquire, Release
<1>3. QED
  BY <1>1, <1>2, TypeCorrect, CountersExact, PTL DEF Spec, RWSpec, RW!Spec

-----------------------------------------------------------------------------
(* The part of the counters' truth that failed allocations cannot take     *)
(* away: they may count too few holders, never one too many.               *)
NoPhantoms ==
  \A n \in Names :
    /\ writers[n] = 1 => Holders(n, "write") # {}
    /\ readers[n] <= Cardinality(Holders(n, "read"))

HeldInTable == \A t \in Threads : pc[t] = "held" => name[t] \in table

(* A step that changes no counter and no holder.                           *)
LEMMA CountersUntouched ==
  ASSUME NoPhantoms, UNCHANGED <<writers, readers>>,
         \A n, k : Holders(n, k)' = Holders(n, k)
  PROVE  NoPhantoms'
BY DEF NoPhantoms

(* A thread that gets its lock raises the counter by one at most.          *)
LEMMA AcquireCounts ==
  ASSUME TypeOK, NoPhantoms, HeldInTable, NEW t \in Threads, Acquire(t)
  PROVE  NoPhantoms' /\ HeldInTable'
<1> USE DEF TypeOK, Kinds, Locations
<1>1. /\ kind' = kind /\ name' = name /\ pc[t] = "lock" /\ name[t] \in Names
      /\ table \subseteq table'
  BY DEF Acquire, AcquireWrite, AcquireRead, GetEntry
<1>2. CASE UNCHANGED <<writers, readers>> /\ \E l \in {"bare", "wait"} : Goto(t, l)
  <2>1. \A n, k : Holders(n, k)' = Holders(n, k)
    BY <1>1, <1>2, HoldersUnchanged DEF Goto
  <2>2. HeldInTable'
    BY <1>1, <1>2 DEF HeldInTable, Goto
  <2>3. QED
    BY <1>2, <2>1, <2>2, CountersUntouched
<1>3. CASE /\ Goto(t, "held") /\ GetEntry(name[t])
           /\ \/ /\ kind[t] = "write" /\ readers' = readers
                 /\ writers' = [writers EXCEPT ![name[t]] = 1]
              \/ /\ kind[t] = "read" /\ writers' = writers
                 /\ readers' = [readers EXCEPT ![name[t]] = @ + 1]
  <2>1. \A n, k : /\ n = name[t] /\ k = kind[t]
                       => t \notin Holders(n, k) /\ Holders(n, k)' = Holders(n, k) \cup {t}
                  /\ ~(n = name[t] /\ k = kind[t]) => Holders(n, k)' = Holders(n, k)
    BY <1>1, <1>3, HoldersGain DEF Goto
  <2>2. ASSUME NEW n \in Names
        PROVE  writers'[n] = 1 => Holders(n, "write")' # {}
    BY <1>1, <1>3, <2>1 DEF NoPhantoms
  <2>3. ASSUME NEW n \in Names
        PROVE  readers'[n] <= Cardinality(Holders(n, "read")')
    <3>1. readers[n] <= Cardinality(Holders(n, "read"))
      BY DEF NoPhantoms
    <3>2. CASE n = name[t] /\ kind[t] = "read"
      <4>1. Cardinality(Holders(n, "read") \cup {t}) = Cardinality(Holders(n, "read")) + 1
        BY <2>1, <3>2, HoldersFinite, FS_AddElement
      <4>2. Holders(n, "read")' = Holders(n, "read") \cup {t} /\ readers'[n] = readers[n] + 1
        BY <1>1, <1>3, <2>1, <3>2
      <4>3. Cardinality(Holders(n, "read")') = Cardinality(Holders(n, "read")) + 1
        BY <4>1, <4>2
      <4>4. readers[n] \in Nat /\ Cardinality(Holders(n, "read")) \in Nat
        BY HoldersFinite
      <4>5. QED
        BY <3>1, <4>2, <4>3, <4>4
    <3>3. CASE ~(n = name[t] /\ kind[t] = "read")
      BY <1>1, <1>3, <2>1, <3>1, <3>3
    <3>4. QED
      BY <3>2, <3>3
  <2>4. HeldInTable'
    BY <1>1, <1>3 DEF HeldInTable, Goto, GetEntry
  <2>5. QED
    BY <2>2, <2>3, <2>4 DEF NoPhantoms
<1>4. QED
  BY <1>2, <1>3 DEF Acquire, AcquireWrite, AcquireRead

(* A thread that releases its lock lowers the counter, to 0 if it was a    *)
(* writer; one that holds nothing may lower it, and takes away no holder.  *)
LEMMA ReleaseCounts ==
  ASSUME TypeOK, NoPhantoms, HeldInTable, NEW t \in Threads, Release(t)
  PROVE  NoPhantoms' /\ HeldInTable'
<1> USE DEF TypeOK, Kinds, Locations
<1>1. /\ kind' = kind /\ name' = name /\ name[t] \in Names
      /\ table \subseteq table' /\ pc[t] \in {"held", "bare"}
      /\ \A u \in Threads : pc'[u] = "held" <=> (u # t /\ pc[u] = "held")
  BY DEF Release, ReleaseWrite, ReleaseRead, GetEntry, GotoAndBroadcast
<1>2. \/ /\ kind[t] = "write" /\ readers' = readers
         /\ writers' = [writers EXCEPT ![name[t]] = 0]
      \/ /\ kind[t] = "read" /\ writers' = writers
         /\ readers' = [readers EXCEPT ![name[t]] = Decrement(@)]
      \/ pc[t] = "bare" /\ UNCHANGED <<writers, readers>>
  BY DEF Release, ReleaseWrite, ReleaseRead, AllocFails, HeldInTable
<1>3. \A n, k : ~(pc[t] = "held" /\ n = name[t] /\ k = kind[t]) => Holders(n, k)' = Holders(n, k)
  BY <1>1 DEF Holders
<1>4. ASSUME NEW n \in Names
      PROVE  writers'[n] = 1 => Holders(n, "write")' # {}
  BY <1>1, <1>2, <1>3 DEF NoPhantoms
<1>5. ASSUME NEW n \in Names
      PROVE  readers'[n] <= Cardinality(Holders(n, "read")')
  <2>1. readers[n] <= Cardinality(Holders(n, "read")) /\ readers'[n] <= readers[n]
    BY <1>1, <1>2 DEF NoPhantoms, Decrement
  <2>2. CASE ~(pc[t] = "held" /\ n = name[t] /\ kind[t] = "read")
    <3>1. Holders(n, "read")' = Holders(n, "read")
      BY <1>3, <2>2
    <3>2. readers'[n] \in Nat
      BY <1>1, <1>2 DEF Decrement
    <3>3. QED
      BY <2>1, <3>1, <3>2, HoldersFinite
  <2>3. CASE pc[t] = "held" /\ n = name[t] /\ kind[t] = "read"
    <3>1. t \in Holders(n, "read") /\ Holders(n, "read")' = Holders(n, "read") \ {t}
      BY <1>1, <2>3, HoldersLose
    <3>2. Cardinality(Holders(n, "read") \ {t}) = Cardinality(Holders(n, "read")) - 1
      BY <3>1, HoldersFinite, FS_RemoveElement
    <3>3. Cardinality(Holders(n, "read")) # 0
      BY <3>1, HoldersFinite, FS_EmptySet
    <3>4. readers'[n] = Decrement(readers[n])
      BY <1>1, <1>2, <2>3
    <3>5. QED
      BY <2>1, <3>1, <3>2, <3>3, <3>4, HoldersFinite DEF Decrement
  <2>4. QED
    BY <2>2, <2>3
<1>6. HeldInTable'
  BY <1>1 DEF HeldInTable
<1>7. QED
  BY <1>4, <1>5, <1>6 DEF NoPhantoms

(* A thread that sleeps sleeps because of somebody who has the lock and is *)
(* awake: the lock table alone can never bring all threads to a stop, not  *)
(* even where a release ran whose acquire had locked nothing.              *)
THEOREM SleepersWaitForHolder == Spec => []SleepersHaveHolder
<1>1. Init => NoPhantoms /\ HeldInTable
  <2> SUFFICES ASSUME Init PROVE NoPhantoms /\ HeldInTable
    OBVIOUS
  <2>1. \A n : Holders(n, "read") = {}
    BY DEF Init, Holders
  <2>2. QED
    BY <2>1, FS_EmptySet DEF Init, NoPhantoms, HeldInTable
<1>2. TypeOK /\ NoPhantoms /\ HeldInTable /\ [Next]_vars => NoPhantoms' /\ HeldInTable'
  <2> SUFFICES ASSUME TypeOK, NoPhantoms, HeldInTable, [Next]_vars
               PROVE  NoPhantoms' /\ HeldInTable'
    OBVIOUS
  <2>1. ASSUME UNCHANGED <<writers, readers, table>>,
               \A u \in Threads : pc'[u] = "held" <=> pc[u] = "held",
               \A u \in Threads : pc[u] = "held" => kind'[u] = kind[u] /\ name'[u] = name[u]
        PROVE  NoPhantoms' /\ HeldInTable'
    <3>1. \A n, k : Holders(n, k)' = Holders(n, k)
      BY <2>1, HoldersUnchanged
    <3>2. HeldInTable'
      BY <2>1 DEF HeldInTable
    <3>3. QED
      BY <2>1, <3>1, <3>2, CountersUntouched
  <2>2. ASSUME NEW t \in Threads,
               (\E n \in Names, k \in Kinds : Request(t, n, k)) \/ SpuriousWakeup(t)
        PROVE  NoPhantoms' /\ HeldInTable'
    BY <2>1, <2>2 DEF Request, SpuriousWakeup, Goto, TypeOK
  <2>3. CASE UNCHANGED vars
    BY <2>1, <2>3 DEF vars
  <2>4. QED
    BY <2>2, <2>3, AcquireCounts, ReleaseCounts DEF Next
<1>3. TypeOK /\ NoPhantoms /\ NoLostWakeup => SleepersHaveHolder
  <2> SUFFICES ASSUME TypeOK, NoPhantoms, NoLostWakeup, NEW t \in Threads, pc[t] = "wait"
               PROVE  \E u \in Threads \ {t} : pc[u] = "held" /\ name[u] = name[t]
    BY DEF SleepersHaveHolder
  <2>1. name[t] \in Names /\ (writers[name[t]] = 1 \/ readers[name[t]] > 0)
    BY DEF TypeOK, NoLostWakeup, WriterBlocked, ReaderBlocked
  <2>2. \E k : Holders(name[t], k) # {}
    <3>1. CASE writers[name[t]] = 1
      BY <2>1, <3>1 DEF NoPhantoms
    <3>2. CASE readers[name[t]] > 0
      <4>1. readers[name[t]] \in Nat /\ readers[name[t]] <= Cardinality(Holders(name[t], "read"))
        BY <2>1 DEF TypeOK, NoPhantoms
      <4>2. QED
        BY <3>2, <4>1, FS_EmptySet
    <3>3. QED
      BY <2>1, <3>1, <3>2
  <2>3. QED
    BY <2>2 DEF Holders
<1>4. QED
  BY <1>1, <1>2, <1>3, TypeCorrect, WakeupsNotLost, PTL DEF Spec
=============================================================================
