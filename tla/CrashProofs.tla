----------------------------- MODULE CrashProofs -----------------------------
(***************************************************************************)
(* Proofs about Crash: what a client was told survives, for any workers,   *)
(* names, contents, and any number of crashes.                             *)
(***************************************************************************)
EXTENDS Crash, AtomicProofs

(* The inductive invariant, on top of that of Handlers: while nobody has a *)
(* name open for an upload, whatever a loss of power may leave in place of *)
(* its present file holds the bytes that were synced last.                 *)
DiskShapes ==
  /\ disk \in [Names -> [now : SUBSET Files, before : SUBSET (Files \cup {Absent})]]
  /\ DOMAIN good = Names

AtRest(n) == \A t \in wlock[n] : pc[t] \notin Opened

Settles(n) ==
  good[n] # None /\ AtRest(n) =>
    \A f \in disk[n].now \cup {file[n]} : f \in Files /\ f.body = Whole(good[n])

Written(t) == At(t, "fsync") => file[N(t)].body = Whole(job[t].data)

SentLast(t) == At(t, "unmap") /\ good[N(t)] # None => sent[t].body = Whole(good[N(t)])

Kept ==
  /\ DiskShapes
  /\ \A n \in Names : Settles(n)
  /\ \A t \in Threads : Written(t) /\ SentLast(t)

CrashInv == Inv /\ Kept

(* The initial state satisfies the invariant.                              *)
LEMMA CrashInitInv == CrashInit => CrashInv
<1> SUFFICES ASSUME CrashInit PROVE Kept
  BY InitInv DEF CrashInit, CrashInv
<1>1. QED
  BY DEF CrashInit, Init, Kept, DiskShapes, Settles, Written, SentLast, At

(* After a restart nobody is at work.                                      *)
LEMMA RestartInv ==
  ASSUME Inv, Restart, file' \in [Names -> Files \cup {Absent}], ext' \in [Names -> FcntlLocks]
  PROVE  /\ Inv'
         /\ \A t \in Threads : Written(t)' /\ SentLast(t)'
<1>1. Shapes'
  BY DEF Restart, Shapes, FcntlLocks, Locations
<1>2. \A t \in Threads : Fits(t)' /\ Held(t)' /\ Ready(t)'
  BY DEF Restart, Fits, At, Held, Ready, InWriteLock, InReadLock, AboutDownload, InUpload, Opened
<1>3. Alone'
  BY DEF Restart, Alone
<1>4. \A t \in Threads : Written(t)' /\ SentLast(t)'
  BY DEF Restart, Written, SentLast, At
<1>5. QED
  BY <1>1, <1>2, <1>3, <1>4 DEF Inv

(* The server process is killed.                                           *)
LEMMA KilledInv ==
  ASSUME CrashInv, Killed
  PROVE  CrashInv'
<1>1. Shapes /\ DiskShapes
  BY DEF CrashInv, Inv, Kept
<1>2. Inv' /\ \A t \in Threads : Written(t)' /\ SentLast(t)'
  BY <1>1, RestartInv DEF CrashInv, Killed, Shapes
<1>3. ASSUME NEW n \in Names
      PROVE  Settles(n)'
  <2> SUFFICES ASSUME good'[n] # None
               PROVE  \A f \in disk[n].now \cup {file[n]} : f \in Files /\ f.body = Whole(good'[n])
    BY DEF Killed, Settles
  <2>1. good'[n] = good[n] /\ ~Uploading(n)
    BY DEF Killed, Settled
  <2>2. AtRest(n)
    BY <1>1, <2>1 DEF AtRest, Uploading, CrashInv, Inv, Shapes, Fits, InUpload
  <2>3. QED
    BY <2>1, <2>2 DEF CrashInv, Kept, Settles
<1>4. DiskShapes'
  BY <1>1 DEF Killed, DiskShapes
<1>5. QED
  BY <1>2, <1>3, <1>4 DEF CrashInv, Kept

(* The machine loses power.                                                *)
LEMMA PowerLossInv ==
  ASSUME CrashInv, PowerLoss
  PROVE  CrashInv'
<1>1. Shapes /\ DiskShapes
  BY DEF CrashInv, Inv, Kept
<1>2. file' \in [Names -> Files \cup {Absent}] /\ \A n \in Names : file'[n] \in Found(n)
  <2>1. \A n \in Names : Found(n) \subseteq Files \cup {Absent}
    BY <1>1 DEF DiskShapes, Found
  <2>2. QED
    BY <2>1 DEF PowerLoss
<1>3. Inv' /\ \A t \in Threads : Written(t)' /\ SentLast(t)'
  BY <1>2, RestartInv DEF CrashInv, PowerLoss, FcntlLocks
<1>4. DiskShapes'
  BY <1>2 DEF PowerLoss, DiskShapes
<1>5. ASSUME NEW n \in Names
      PROVE  Settles(n)'
  <2> SUFFICES ASSUME good'[n] # None
               PROVE  \A f \in disk'[n].now \cup {file'[n]} : f \in Files /\ f.body = Whole(good'[n])
    BY DEF Settles
  <2>1. good'[n] = good[n] /\ ~Uploading(n) /\ file'[n] \in disk[n].now
    BY DEF PowerLoss, Settled
  <2>2. AtRest(n)
    BY <1>1, <2>1 DEF AtRest, Uploading, CrashInv, Inv, Shapes, Fits, InUpload
  <2>3. file'[n] \in Files /\ file'[n].body = Whole(good'[n])
    BY <2>1, <2>2 DEF CrashInv, Kept, Settles
  <2>4. disk'[n].now \subseteq {file'[n]}
    BY DEF PowerLoss
  <2>5. QED
    BY <2>3, <2>4
<1>6. QED
  BY <1>3, <1>4, <1>5 DEF CrashInv, Kept

-----------------------------------------------------------------------------
(* What the steps of an upload, a delete and a chmod need to know.         *)
LEMMA AtWork ==
  ASSUME Inv, NEW t \in Threads,
         pc[t] \in InUpload \cup {"delete", "chmod"}
  PROVE  /\ Shapes /\ N(t) \in Names /\ job[t] \in Requests /\ wlock[N(t)] = {t}
         /\ pc[t] \in InUpload => job[t].op = "upload" /\ job[t].data \in Data \cup {Empty}
         /\ pc[t] = "chmod" => job[t].op = "chmod" /\ job[t].mode \in Modes
         /\ pc[t] \in Opened => file[N(t)] \in Files
<1>1. Shapes /\ N(t) \in Names /\ job[t] \in Requests
  BY Knows DEF Fits, At, InUpload, Opened, Changes
<1>2. wlock[N(t)] = {t}
  BY <1>1 DEF Inv, Held, Alone, InWriteLock, InUpload, Opened
<1>3. QED
  BY <1>1, <1>2, Knows, RequestShapes DEF Fits, Ready

(* A step of t at its own name, while it has it to itself, concerns no     *)
(* other name and no other worker.                                         *)
LEMMA OwnName ==
  ASSUME CrashInv, NEW t \in Threads, NEW n \in Names, n = N(t),
         Work(t), UNCHANGED <<wlock, job>>,
         pc[t] \in InUpload \cup {"delete", "chmod"},
         \A m \in Names : m # n =>
            file'[m] = file[m] /\ disk'[m] = disk[m] /\ good'[m] = good[m],
         DiskShapes', Settles(n)', Written(t)', pc'[t] # "unmap"
  PROVE  Kept'
<1>1. /\ Shapes /\ wlock[n] = {t} /\ pc[t] \in InWriteLock
      /\ \A u \in Threads : u # t => pc'[u] = pc[u] /\ sent'[u] = sent[u]
  BY AtWork, OnlyItself DEF CrashInv, InUpload, Opened, InWriteLock
<1>2. ASSUME NEW m \in Names, m # n
      PROVE  Settles(m)'
  <2>1. t \notin wlock[m]
    BY <1>1, <1>2 DEF CrashInv, Inv, Held
  <2>2. AtRest(m)' => AtRest(m)
    BY <1>1, <2>1 DEF AtRest, Shapes
  <2>3. QED
    BY <1>2, <2>2 DEF Settles, CrashInv, Kept
<1>3. ASSUME NEW u \in Threads, u # t
      PROVE  Written(u)' /\ SentLast(u)'
  <2>1. pc[u] \in {"fsync", "unmap"} => N(u) # n /\ N(u) \in Names
    BY <1>1, <1>3, Exclusion DEF CrashInv, InWriteLock, InReadLock
  <2>2. QED
    BY <1>1, <1>3, <2>1 DEF CrashInv, Kept, Written, SentLast, At, N
<1>4. SentLast(t)'
  BY DEF SentLast, At
<1>5. QED
  BY <1>1, <1>2, <1>3, <1>4 DEF Kept

(* What open, write and fsync leave on the disk.                           *)
LEMMA UploadKept ==
  ASSUME CrashInv, NEW t \in Threads, OpenOnDisk(t) \/ WriteOnDisk(t) \/ GiveUp(t) \/ SyncOnDisk(t)
  PROVE  Kept'
<1>1. pc[t] \in InUpload
  BY DEF OpenOnDisk, OpenForUpload, WriteOnDisk, WriteSome, WriteAll, GiveUp, LockForUpload,
         WriteFails, SyncOnDisk, Sync, At, InUpload, Opened
<1>2. /\ Shapes /\ N(t) \in Names /\ job[t] \in Requests /\ wlock[N(t)] = {t}
      /\ job[t].data \in Data \cup {Empty} /\ DiskShapes
  BY <1>1, AtWork DEF CrashInv, Kept
<1>3. UNCHANGED <<wlock, job>> /\ Work(t) /\ Shapes'
  <2>1. Upload(t) /\ UNCHANGED <<wlock, job>>
    BY DEF OpenOnDisk, OpenForUpload, WriteOnDisk, WriteSome, WriteAll, GiveUp, LockForUpload,
           WriteFails, SyncOnDisk, Sync, Upload, locks
  <2>2. QED
    BY <2>1, UploadInv DEF CrashInv, Inv, Work
<1>n. PICK n \in Names : n = N(t)
  BY <1>2
<1>4. N(t)' = n /\ wlock[n] = {t} /\ wlock'[n] = {t} /\ Settles(n)
  BY <1>2, <1>3, <1>n DEF N, CrashInv, Kept
<1>5. CASE OpenOnDisk(t)
  <2>1. CASE pc' = [pc EXCEPT ![t] = "write_unlock"] /\ UNCHANGED <<file, disk, good>>
    <3>1. pc[t] \notin Opened
      BY <1>5 DEF OpenOnDisk, OpenForUpload, At, Opened
    <3>2. pc'[t] = "write_unlock" /\ AtRest(n)
      BY <1>2, <1>n, <1>4, <2>1, <3>1 DEF Shapes, AtRest
    <3>3. Settles(n)' /\ DiskShapes' /\ Written(t)'
      BY <1>2, <1>n, <1>4, <2>1, <3>2 DEF Settles, DiskShapes, Written, At
    <3>4. QED
      BY <1>1, <1>3, <1>n, <2>1, <3>2, <3>3, OwnName
  <2>2. CASE pc' = [pc EXCEPT ![t] = "fcntl_write"] /\ file'[n] \in Files
    <3>1. pc'[t] = "fcntl_write" /\ ~AtRest(n)'
      BY <1>2, <1>n, <1>4, <1>3, <2>2 DEF Shapes, AtRest, Opened
    <3>2. \A m \in Names : m # n => file'[m] = file[m]
      BY <1>2, <1>n, <1>4, <1>5 DEF OpenOnDisk, OpenForUpload, Shapes
    <3>3. good' = good /\ \E now \in SUBSET Files : disk' = [disk EXCEPT ![n].now = now]
      <4>1. WithBodies(disk[n].now, {Whole(Empty)}) \in SUBSET Files
        BY <1>2 DEF WithBodies, DiskShapes, Files, Bodies
      <4>2. QED
        BY <1>5, <1>n, <2>2, <3>1, <4>1 DEF OpenOnDisk
    <3>4. DiskShapes' /\ \A m \in Names : m # n => disk'[m] = disk[m]
      BY <1>2, <1>n, <1>4, <3>3 DEF DiskShapes
    <3>5. Settles(n)' /\ Written(t)'
      BY <3>1 DEF Settles, Written, At
    <3>6. QED
      BY <1>1, <1>3, <1>n, <3>1, <3>2, <3>3, <3>4, <3>5, OwnName
  <2>3. QED
    <3>1. \/ pc' = [pc EXCEPT ![t] = "fcntl_write"]
          \/ pc' = [pc EXCEPT ![t] = "write_unlock"] /\ UNCHANGED file
      BY <1>5 DEF OpenOnDisk, OpenForUpload, Goto, GotoWith
    <3>2. pc' = [pc EXCEPT ![t] = "fcntl_write"] => file'[n] \in Files
      BY <1>2, <1>n, <1>3, <1>4, <1>5, UploadInv DEF OpenOnDisk, Upload, CrashInv, Inv, Ready, Opened, Shapes
    <3>3. pc' = [pc EXCEPT ![t] = "write_unlock"] => UNCHANGED <<disk, good>>
      BY <1>2, <1>n, <1>4, <1>5 DEF OpenOnDisk, Shapes
    <3>4. QED
      BY <2>1, <2>2, <3>1, <3>2, <3>3
<1>6. CASE WriteOnDisk(t)
  <2>1. /\ pc' = [pc EXCEPT ![t] = "writing"] \/ pc' = [pc EXCEPT ![t] = "fsync"]
        /\ good' = good /\ pc[t] \in Opened
        /\ disk' = [disk EXCEPT ![n].now = WithBodies(@, Prefixes(job[t].data))]
    BY <1>6, <1>n DEF WriteOnDisk, WriteSome, WriteAll, Goto, At, Opened
  <2>2. pc'[t] \in {"writing", "fsync"} /\ ~AtRest(n)'
    BY <1>2, <1>n, <1>4, <1>3, <2>1 DEF Shapes, AtRest, Opened
  <2>3. WithBodies(disk[n].now, Prefixes(job[t].data)) \in SUBSET Files
    <3>1. Prefixes(job[t].data) \subseteq Bodies
      BY <1>2 DEF Prefixes, Bodies
    <3>2. disk[n].now \subseteq Files
      BY <1>2 DEF DiskShapes
    <3>3. QED
      BY <3>1, <3>2 DEF WithBodies, Files
  <2>4. DiskShapes' /\ \A m \in Names : m # n => disk'[m] = disk[m]
    BY <1>2, <1>n, <1>4, <2>1, <2>3 DEF DiskShapes
  <2>5. file[n] \in Files
    BY <1>1, <1>n, <2>1, AtWork DEF CrashInv
  <2>6. (\A m \in Names : m # n => file'[m] = file[m]) /\ Written(t)'
    BY <1>2, <1>n, <1>3, <1>4, <1>6, <2>2, <2>5
       DEF WriteOnDisk, WriteSome, WriteAll, PutBody, Goto, Written, At, Shapes, Files
  <2>7. Settles(n)'
    BY <2>2 DEF Settles
  <2>8. QED
    BY <1>1, <1>3, <1>n, <2>1, <2>2, <2>4, <2>6, <2>7, OwnName
<1>7. CASE GiveUp(t)
  <2>1. /\ UNCHANGED <<file, disk>> /\ pc[t] \in Opened
        /\ \/ pc' = [pc EXCEPT ![t] = "write"] /\ res' = res
           \/ /\ \E l \in {"close_write", "write_unlock"} : pc' = [pc EXCEPT ![t] = l]
              /\ res' = [res EXCEPT ![t] = Err(500)]
        /\ good' = IF res'[t] = Err(500) THEN [good EXCEPT ![n] = None] ELSE good
    BY <1>7, <1>n DEF GiveUp, LockForUpload, WriteFails, At, Goto, GotoWith, Opened
  <2>2. pc'[t] \notin {"unmap", "fsync"} /\ (\A m \in Names : m # n => good'[m] = good[m]) /\ DiskShapes'
    <3>1. pc'[t] \notin {"unmap", "fsync"}
      BY <1>2, <2>1 DEF Shapes
    <3>2. good' = good \/ good' = [good EXCEPT ![n] = None]
      BY <2>1
    <3>3. QED
      BY <1>2, <2>1, <3>1, <3>2 DEF DiskShapes
  <2>3. Settles(n)'
    <3>1. CASE good'[n] = None
      BY <3>1 DEF Settles
    <3>2. CASE pc' = [pc EXCEPT ![t] = "write"]
      BY <1>2, <1>n, <1>4, <1>3, <3>2 DEF Settles, AtRest, Shapes, Opened
    <3>3. QED
      BY <1>2, <1>n, <1>4, <2>1, <3>1, <3>2 DEF Shapes, DiskShapes
  <2>4. Written(t)'
    BY <2>2 DEF Written, At
  <2>5. QED
    BY <1>1, <1>3, <1>n, <2>1, <2>2, <2>3, <2>4, OwnName
<1>8. CASE SyncOnDisk(t)
  <2>1. /\ pc[t] = "fsync" /\ pc' = [pc EXCEPT ![t] = "close_write"] /\ UNCHANGED file
        /\ \/ /\ disk' = [disk EXCEPT ![n].now = {file[n]}]
              /\ good' = [good EXCEPT ![n] = job[t].data]
           \/ good' = [good EXCEPT ![n] = None] /\ UNCHANGED disk
    BY <1>8, <1>n DEF SyncOnDisk, Sync, At, GotoWith, Goto
  <2>2. file[n] \in Files /\ file[n].body = Whole(job[t].data)
    BY <1>1, <1>n, <2>1, AtWork DEF CrashInv, Kept, Written, At, Opened
  <2>3. pc'[t] = "close_write" /\ Written(t)'
    BY <1>2, <1>n, <1>4, <2>1 DEF Shapes, Written, At
  <2>4. /\ DiskShapes' /\ Settles(n)'
        /\ \A m \in Names : m # n => disk'[m] = disk[m] /\ good'[m] = good[m]
    <3>1. CASE /\ disk' = [disk EXCEPT ![n].now = {file[n]}]
               /\ good' = [good EXCEPT ![n] = job[t].data]
      <4>1. DiskShapes' /\ disk'[n].now = {file[n]} /\ good'[n] = job[t].data
            /\ \A m \in Names : m # n => disk'[m] = disk[m] /\ good'[m] = good[m]
        BY <1>2, <2>2, <3>1 DEF DiskShapes
      <4>2. QED
        BY <2>1, <2>2, <4>1 DEF Settles
    <3>2. CASE good' = [good EXCEPT ![n] = None] /\ UNCHANGED disk
      BY <1>2, <3>2 DEF DiskShapes, Settles
    <3>3. QED
      BY <2>1, <3>1, <3>2
  <2>5. QED
    BY <1>1, <1>3, <1>n, <2>1, <2>3, <2>4, OwnName
<1>9. QED
  BY <1>5, <1>6, <1>7, <1>8

(* What a delete and a chmod leave on the disk.                            *)
LEMMA ChangeKept ==
  ASSUME CrashInv, NEW t \in Threads, UnlinkOnDisk(t) \/ ChmodOnDisk(t)
  PROVE  Kept'
<1>1. pc[t] \in {"delete", "chmod"} /\ pc' = [pc EXCEPT ![t] = "write_unlock"]
      /\ UNCHANGED <<wlock, job>> /\ Work(t)
  BY DEF UnlinkOnDisk, Unlink, ChmodOnDisk, ChangeMode, At, GotoWith, Goto, locks, Work
<1>2. /\ Shapes /\ N(t) \in Names /\ wlock[N(t)] = {t} /\ DiskShapes
      /\ pc[t] = "chmod" => job[t].mode \in Modes
  BY <1>1, AtWork DEF CrashInv, Kept
<1>3. PICK n \in Names : n = N(t)
  BY <1>2
<1>4. pc'[t] = "write_unlock" /\ Settles(n) /\ AtRest(n) /\ Written(t)'
  BY <1>1, <1>2, <1>3 DEF Shapes, AtRest, Opened, Written, At, CrashInv, Kept
<1>5. CASE UNCHANGED <<file, disk, good>>
  <2>1. Settles(n)' /\ DiskShapes'
    BY <1>2, <1>4, <1>5 DEF Settles, DiskShapes
  <2>2. QED
    BY <1>1, <1>3, <1>4, <1>5, <2>1, OwnName
<1>6. CASE UnlinkOnDisk(t) /\ ~UNCHANGED <<file, disk, good>>
  <2>1. file' = [file EXCEPT ![n] = Absent] \/ file' = file
    BY <1>3, <1>6 DEF UnlinkOnDisk, Unlink
  <2>2. CASE file[n] # Absent /\ file'[n] = Absent
    <3>1. /\ disk' = [disk EXCEPT ![n] = [now |-> {}, before |-> Found(n) \cup {Absent}]]
          /\ good' = [good EXCEPT ![n] = None]
      BY <1>3, <1>6, <2>2 DEF UnlinkOnDisk
    <3>2. Found(n) \subseteq Files \cup {Absent}
      BY <1>2 DEF DiskShapes, Found
    <3>3. /\ DiskShapes' /\ good'[n] = None
          /\ \A m \in Names : m # n => file'[m] = file[m] /\ disk'[m] = disk[m] /\ good'[m] = good[m]
      BY <1>2, <2>1, <3>1, <3>2 DEF DiskShapes, Shapes
    <3>4. Settles(n)'
      BY <3>3 DEF Settles
    <3>5. QED
      BY <1>1, <1>3, <1>4, <3>3, <3>4, OwnName
  <2>3. CASE ~(file[n] # Absent /\ file'[n] = Absent)
    <3>1. UNCHANGED <<disk, good>>
      BY <1>3, <1>6, <2>3 DEF UnlinkOnDisk
    <3>2. file' = file
      BY <1>2, <2>1, <2>3 DEF Shapes
    <3>3. QED
      BY <1>6, <3>1, <3>2
  <2>4. QED
    BY <2>2, <2>3
<1>7. CASE ChmodOnDisk(t)
  <2>1. pc[t] = "chmod" /\ good' = good
    BY <1>7 DEF ChmodOnDisk, ChangeMode, At
  <2>2. CASE /\ file[n] # Absent
             /\ file' = [file EXCEPT ![n].mode = job[t].mode]
             /\ disk' = [disk EXCEPT ![n].now = WithMode(@, job[t].mode)]
    <3>1. WithMode(disk[n].now, job[t].mode) \in SUBSET Files
      BY <1>2, <2>1 DEF WithMode, DiskShapes, Files
    <3>2. /\ DiskShapes' /\ disk'[n].now = WithMode(disk[n].now, job[t].mode)
          /\ \A m \in Names : m # n => disk'[m] = disk[m]
      <4> DEFINE now == WithMode(disk[n].now, job[t].mode)
      <4>1. now \in SUBSET Files /\ disk' = [disk EXCEPT ![n].now = now]
        BY <2>2, <3>1
      <4> HIDE DEF now
      <4>2. DiskShapes' /\ disk'[n].now = now /\ \A m \in Names : m # n => disk'[m] = disk[m]
        BY <1>2, <2>1, <4>1 DEF DiskShapes
      <4>3. QED
        BY <4>2 DEF now
    <3>3. file[n] \in Files /\ file'[n] = [file[n] EXCEPT !.mode = job[t].mode]
          /\ \A m \in Names : m # n => file'[m] = file[m]
      BY <1>2, <2>2 DEF Shapes
    <3>4. Settles(n)'
      <4>1. ASSUME NEW f \in Files
            PROVE  [f EXCEPT !.mode = job[t].mode] \in Files /\ [f EXCEPT !.mode = job[t].mode].body = f.body
        BY <1>2, <2>1 DEF Files
      <4>2. SUFFICES ASSUME good[n] # None
                     PROVE  \A f \in disk'[n].now \cup {file'[n]} : f \in Files /\ f.body = Whole(good[n])
        BY <2>1 DEF Settles
      <4>3. \A f \in disk[n].now \cup {file[n]} : f \in Files /\ f.body = Whole(good[n])
        BY <1>4, <4>2 DEF Settles
      <4>4. ASSUME NEW f \in disk'[n].now \cup {file'[n]}
            PROVE  \E g \in disk[n].now \cup {file[n]} : f = g \/ f = [g EXCEPT !.mode = job[t].mode]
        BY <3>2, <3>3, <4>4 DEF WithMode
      <4>5. ASSUME NEW f \in disk'[n].now \cup {file'[n]}
            PROVE  f \in Files /\ f.body = Whole(good[n])
        <5>1. PICK g \in disk[n].now \cup {file[n]} : f = g \/ f = [g EXCEPT !.mode = job[t].mode]
          BY <4>4
        <5>2. g \in Files /\ g.body = Whole(good[n])
          BY <4>3
        <5>3. QED
          BY <4>1, <5>1, <5>2
      <4>6. QED
        BY <4>5
    <3>5. QED
      BY <1>1, <1>3, <1>4, <2>1, <3>2, <3>3, <3>4, OwnName
  <2>3. CASE file' = file /\ disk' = disk
    BY <1>5, <2>1, <2>3
  <2>4. QED
    <3>1. \/ file[n] # Absent /\ file' = [file EXCEPT ![n].mode = job[t].mode] /\ res' = [res EXCEPT ![t] = Ok]
          \/ file' = file /\ res' = [res EXCEPT ![t] = Err(404)]
      BY <1>3, <1>7 DEF ChmodOnDisk, ChangeMode, GotoWith
    <3>2. res'[t] = Ok <=> res' = [res EXCEPT ![t] = Ok]
      BY <1>2, <3>1 DEF Shapes, Ok, Err
    <3>3. QED
      BY <1>2, <1>3, <1>7, <2>2, <2>3, <3>1, <3>2 DEF ChmodOnDisk, Ok, Err, Shapes
<1>8. QED
  BY <1>5, <1>6, <1>7

(* The steps that put nothing on the disk: the locks, downloads, listings, *)
(* responses.                                                              *)
LEMMA OffDiskKept ==
  ASSUME CrashInv, NEW t \in Threads, OffDisk(t)
  PROVE  Kept' /\ Work(t)
<1>1. Shapes /\ Fits(t) /\ Held(t) /\ Inv
  BY Knows DEF CrashInv
<1>2. Work(t) /\ UNCHANGED <<file, disk, good>>
  <2>1. CASE Refuse(t) \/ Reply(t) \/ Acquire(t) \/ Release(t) \/ CloseUpload(t)
    BY <2>1 DEF OffDisk, Refuse, Reply, Acquire, AcquireWrite, AcquireRead, Release,
                ReleaseWrite, ReleaseRead, CloseUpload, Work, Upload
  <2>2. CASE Download(t) \/ List(t)
    BY <1>1, <2>2, DownloadStep, ListStep DEF OffDisk, Work
  <2>3. QED
    BY <2>1, <2>2 DEF OffDisk
<1>3. \A u \in Threads : u # t => pc'[u] = pc[u] /\ job'[u] = job[u] /\ sent'[u] = sent[u]
  BY <1>1, <1>2, OnlyItself
<1>4. pc[t] \notin Opened /\ pc'[t] \notin Opened
  <2>1. CASE Refuse(t) \/ Reply(t) \/ Acquire(t) \/ Release(t) \/ CloseUpload(t)
    <3>1. pc[t] \notin Opened
      BY <2>1 DEF Refuse, Reply, Acquire, AcquireWrite, AcquireRead, Release,
                  ReleaseWrite, ReleaseRead, CloseUpload, At, Opened
    <3>2. CASE CloseUpload(t)
      BY <1>1, <3>1, <3>2 DEF CloseUpload, Goto, Shapes, Opened
    <3>3. CASE ~Upload(t)
      BY <1>1, <1>2, <3>1, <3>3, OutsideUpload
    <3>4. CASE Upload(t) /\ ~CloseUpload(t)
      <4>1. pc[t] \in Opened \cup {"upload"}
        BY <3>4 DEF Upload, OpenForUpload, LockForUpload, WriteSome, WriteAll, WriteFails, Sync,
                    At, Opened
      <4>2. QED
        BY <2>1, <3>1, <3>4, <4>1
           DEF Refuse, Reply, Acquire, AcquireWrite, AcquireRead, Release, ReleaseWrite,
               ReleaseRead, At
    <3>5. QED
      BY <3>2, <3>3, <3>4
  <2>2. CASE Download(t) \/ List(t)
    BY <1>1, <2>2, DownloadStep, ListStep DEF Shapes, Opened
  <2>3. QED
    BY <2>1, <2>2 DEF OffDisk
<1>5. ASSUME NEW n \in Names, NEW u \in wlock[n], pc[u] \in Opened
      PROVE  u \in wlock'[n] /\ pc'[u] = pc[u]
  <2>1. u \in Threads /\ u # t /\ pc'[u] = pc[u]
    BY <1>1, <1>3, <1>4, <1>5 DEF Shapes
  <2>2. wlock[n] = {u}
    BY <1>1 DEF Inv, Alone
  <2>3. \/ wlock' = wlock
        \/ wlock[N(t)] = {} /\ wlock' = [wlock EXCEPT ![N(t)] = {t}]
        \/ t \in wlock[N(t)] /\ wlock' = [wlock EXCEPT ![N(t)] = {}]
    <3>1. CASE Refuse(t) \/ Reply(t) \/ Acquire(t) \/ Release(t) \/ CloseUpload(t)
      BY <3>1 DEF Refuse, Reply, Acquire, AcquireWrite, AcquireRead, Release, ReleaseWrite,
                  ReleaseRead, CloseUpload, locks, L!EnterWrite, L!LeaveWrite, L!EnterRead,
                  L!LeaveRead
    <3>2. CASE Download(t) \/ List(t)
      BY <1>1, <3>2, DownloadStep, ListStep DEF locks
    <3>3. QED
      BY <3>1, <3>2 DEF OffDisk
  <2>4. QED
    BY <1>1, <2>1, <2>2, <2>3 DEF Shapes
<1>6. ASSUME NEW n \in Names
      PROVE  Settles(n)'
  <2>1. AtRest(n)' => AtRest(n)
    BY <1>5 DEF AtRest
  <2>2. QED
    BY <1>2, <2>1 DEF CrashInv, Kept, Settles
<1>7. ASSUME NEW u \in Threads
      PROVE  Written(u)'
  BY <1>2, <1>3, <1>4 DEF CrashInv, Kept, Written, At, N, Opened
<1>8. ASSUME NEW u \in Threads, u # t
      PROVE  SentLast(u)'
  BY <1>2, <1>3, <1>8 DEF CrashInv, Kept, SentLast, At, N
<1>9. SentLast(t)'
  <2> SUFFICES ASSUME pc'[t] = "unmap", good[N(t)'] # None
               PROVE  sent'[t].body = Whole(good[N(t)'])
    BY <1>2 DEF SentLast, At
  <2>1. SendFile(t)
    <3>1. CASE Refuse(t) \/ Reply(t) \/ AcquireRead(t) \/ Release(t) \/ CloseUpload(t)
      BY <1>1, <3>1 DEF Refuse, Reply, AcquireRead, Release, ReleaseWrite, ReleaseRead,
                        CloseUpload, Goto, GotoWith, Shapes
    <3>2. CASE AcquireWrite(t)
      BY <1>1, <3>2 DEF AcquireWrite, Goto, Shapes, Fits, At, Changes
    <3>3. CASE List(t)
      BY <1>1, <3>3, ListStep DEF Shapes
    <3>4. CASE MapFile(t)
      BY <1>1, <3>4, MapStep DEF Shapes
    <3>5. CASE LockForDownload(t) \/ UnmapAndClose(t)
      BY <1>1, <3>5 DEF LockForDownload, UnmapAndClose, Goto, Shapes
    <3>6. QED
      BY <3>1, <3>2, <3>3, <3>4, <3>5 DEF OffDisk, Acquire, Download
  <2>2. N(t)' = N(t) /\ pc[t] = "send"
    BY <2>1 DEF SendFile, At, N
  <2>3. N(t) \in Names /\ t \in rlock[N(t)]
    BY <1>1, <2>2, Knows DEF Fits, AboutDownload, InReadLock, At, Held
  <2>4. AtRest(N(t))
    BY <1>1, <2>3 DEF AtRest, Inv, Alone, Shapes
  <2>5. file[N(t)] \in Files /\ file[N(t)].body = Whole(good[N(t)])
    BY <2>2, <2>3, <2>4 DEF CrashInv, Kept, Settles
  <2>6. sent'[t] = FileData(file[N(t)].body)
    BY <1>1, <2>1, <2>5, FileServiceAssumption DEF SendFile, Shapes
  <2>7. QED
    BY <2>2, <2>5, <2>6 DEF FileData
<1>10. DiskShapes'
  BY <1>2 DEF CrashInv, Kept, DiskShapes
<1>11. QED
  BY <1>2, <1>6, <1>7, <1>8, <1>9, <1>10 DEF Kept

(* Requests arrive, and another process locks files.                       *)
LEMMA OthersKept ==
  ASSUME CrashInv, Others \/ UNCHANGED crashVars
  PROVE  Kept' /\ [Next]_vars
<1>1. Shapes /\ DiskShapes
  BY DEF CrashInv, Inv, Kept
<1>2. [Next]_vars
  BY DEF Others, Next, crashVars
<1>3. UNCHANGED <<file, wlock, disk, good>>
  BY DEF Others, Start, ExternalLock, ExternalUnlock, locks, crashVars, vars
<1>4. ASSUME NEW u \in Threads
      PROVE  \/ pc'[u] = pc[u] /\ job'[u] = job[u] /\ sent'[u] = sent[u]
             \/ pc[u] = "idle" /\ pc'[u] \notin Opened \cup {"unmap"}
  <2>1. CASE \E t \in Threads, r \in Requests : Start(t, r)
    BY <1>1, <2>1, RequestShapes DEF Start, At, Goto, Shapes, Opened
  <2>2. CASE UNCHANGED <<pc, job, sent>>
    BY <2>2
  <2>3. QED
    BY <2>1, <2>2 DEF Others, ExternalLock, ExternalUnlock, crashVars, vars
<1>5. ASSUME NEW n \in Names
      PROVE  Settles(n)'
  <2>1. AtRest(n)' => AtRest(n)
    BY <1>1, <1>3, <1>4 DEF AtRest, Shapes, Opened
  <2>2. QED
    BY <1>3, <2>1 DEF CrashInv, Kept, Settles
<1>6. ASSUME NEW u \in Threads
      PROVE  Written(u)' /\ SentLast(u)'
  BY <1>3, <1>4 DEF CrashInv, Kept, Written, SentLast, At, N, Opened
<1>7. DiskShapes'
  BY <1>1, <1>3 DEF DiskShapes
<1>8. QED
  BY <1>2, <1>5, <1>6, <1>7 DEF Kept

(* The invariant holds of every run, crashes included.                     *)
THEOREM CrashInvariance == CrashSpec => []CrashInv
<1>1. CrashInv /\ [CrashNext]_crashVars => CrashInv'
  <2> SUFFICES ASSUME CrashInv, [CrashNext]_crashVars PROVE CrashInv'
    OBVIOUS
  <2>1. ASSUME NEW t \in Threads, OnDisk(t)
        PROVE  CrashInv'
    <3>1. Kept'
      BY <2>1, UploadKept, ChangeKept DEF OnDisk
    <3>2. Work(t)
      BY <2>1 DEF OnDisk, OpenOnDisk, WriteOnDisk, GiveUp, SyncOnDisk, UnlinkOnDisk, ChmodOnDisk,
                  Upload, Work
    <3>3. QED
      BY <3>1, <3>2, NextInv DEF CrashInv, Next
  <2>2. ASSUME NEW t \in Threads, OffDisk(t)
        PROVE  CrashInv'
    BY <2>2, OffDiskKept, NextInv DEF CrashInv, Next
  <2>3. CASE Others \/ UNCHANGED crashVars
    BY <2>3, OthersKept, NextInv DEF CrashInv
  <2>4. QED
    BY <2>1, <2>2, <2>3, KilledInv, PowerLossInv DEF CrashNext
<1>2. QED
  BY <1>1, CrashInitInv, PTL DEF CrashSpec

(* An upload whose fsync succeeded is found whole after any crash.         *)
THEOREM UploadsAreDurable == CrashSpec => []UploadsSurvive
<1>1. CrashInv => UploadsSurvive
  <2> SUFFICES ASSUME CrashInv, NEW n \in Names, ~Uploading(n), good[n] # None
               PROVE  \A f \in disk[n].now \cup {file[n]} : f.body = Whole(good[n])
    BY DEF UploadsSurvive
  <2>1. AtRest(n)
    BY DEF AtRest, Uploading, CrashInv, Inv, Shapes, Fits, InUpload
  <2>2. QED
    BY <2>1 DEF CrashInv, Kept, Settles
<1>2. QED
  BY <1>1, CrashInvariance, PTL

(* A download shows what the last upload left and synced, before a crash   *)
(* and after it.                                                           *)
THEOREM DownloadsAreCurrent == CrashSpec => []DownloadsLastUpload
<1>1. CrashInv => DownloadsLastUpload
  BY DEF CrashInv, Kept, SentLast, DownloadsLastUpload
<1>2. QED
  BY <1>1, CrashInvariance, PTL
-----------------------------------------------------------------------------
(* Crash implements CrashStore.  The steps of the handlers are those of    *)
(* AtomicProofs; what is new is where the disk's contents come from, and   *)
(* that a restart leaves the promise in order.                             *)

(* A restart leaves nothing under way.                                     *)
LEMMA RestartExact ==
  ASSUME Restart
  PROVE  Exact'
<1>1. ASSUME NEW t \in Threads
      PROVE  pc'[t] = "idle" /\ rows'[t] = <<>>
  BY DEF Restart
<1>2. ASSUME NEW t \in Threads
      PROVE  Progress(t)' /\ Mapped(t)' /\ Answered(t)' /\ Collected(t)'
  BY <1>1, NothingCollected DEF Progress, Mapped, Answered, Collected, At
<1>3. rows' = [t \in Threads |-> rows'[t]] /\ sent' = [t \in Threads |-> sent'[t]]
  BY DEF Restart
<1>4. QED
  BY <1>2, <1>3 DEF Exact

(* Between crashes the server does what it does without them.              *)
LEMMA OrdinarySteps ==
  ASSUME CrashInv,
         (\E t \in Threads : OnDisk(t) \/ OffDisk(t)) \/ Others \/ UNCHANGED crashVars
  PROVE  [Next]_vars
<1>1. ASSUME NEW t \in Threads, OnDisk(t)
      PROVE  Work(t)
  BY <1>1 DEF OnDisk, OpenOnDisk, WriteOnDisk, GiveUp, SyncOnDisk, UnlinkOnDisk, ChmodOnDisk,
              Upload, Work
<1>2. QED
  BY <1>1, OffDiskKept, OthersKept DEF Next

(* The locks stay in order however often the server is killed: a handler   *)
(* has the lock its place needs, releases it once, and an upload writes    *)
(* only while the process has the fcntl lock.                              *)
THEOREM LocksAcrossCrashes == CrashSpec => [](TypeOK /\ UploadKeepsFcntlLock)
<1>1. CrashInit => UploadKeepsFcntlLock
  BY DEF CrashInit, Init, UploadKeepsFcntlLock
<1>2. CrashInv /\ UploadKeepsFcntlLock /\ [CrashNext]_crashVars => UploadKeepsFcntlLock'
  <2> SUFFICES ASSUME CrashInv, UploadKeepsFcntlLock, [CrashNext]_crashVars
               PROVE  UploadKeepsFcntlLock'
    OBVIOUS
  <2>1. CASE Killed \/ PowerLoss
    BY <2>1 DEF Killed, PowerLoss, Restart, UploadKeepsFcntlLock
  <2>2. CASE (\E t \in Threads : OnDisk(t) \/ OffDisk(t)) \/ Others \/ UNCHANGED crashVars
    BY <2>2, OrdinarySteps, FcntlLockKept DEF CrashInv
  <2>3. QED
    BY <2>1, <2>2 DEF CrashNext
<1>3. CrashInv => TypeOK
  BY InvTypes DEF CrashInv
<1>4. QED
  BY <1>1, <1>2, <1>3, CrashInvariance, PTL DEF CrashSpec

(* Both promises speak of the same steps.                                  *)
LEMMA SamePromise ==
  /\ A!Init <=> C!Init
  /\ A!Next => C!Next
  /\ \A n : A!Views(n) = C!Views(n)
<1> USE DEF A!Whole, C!Whole, A!Part, C!Part, A!Prefixes, C!Prefixes, A!Ok, C!Ok, A!Err, C!Err,
            A!FileData, C!FileData, A!Listing, C!Listing, A!ModeAfterUpload, C!ModeAfterUpload,
            A!CanRead, C!CanRead, A!CanWrite, C!CanWrite, A!SeenMore, C!SeenMore,
            A!Decide, C!Decide, A!Undecided, C!Undecided
<1>1. A!Init <=> C!Init
  BY DEF A!Init, C!Init
<1>2. \A n : A!Views(n) = C!Views(n)
  BY DEF A!Views, C!Views, A!UploadsOf, C!UploadsOf
<1>3. ASSUME NEW t \in Threads
      PROVE  /\ \A r : A!Begin(t, r) => C!Begin(t, r)
             /\ A!Upload(t) => C!Upload(t)
             /\ A!Download(t) => C!Download(t)
             /\ A!Delete(t) => C!Delete(t)
             /\ A!Chmod(t) => C!Chmod(t)
             /\ \A S : A!Look(t, S) => C!Look(t, S)
             /\ A!List(t) => C!List(t)
             /\ A!Refuse(t) => C!Refuse(t)
             /\ A!Finish(t) => C!Finish(t)
  <2>1. \A r : A!Begin(t, r) => C!Begin(t, r)
    BY DEF A!Begin, C!Begin
  <2>2. A!Upload(t) => C!Upload(t)
    BY DEF A!Upload, C!Upload
  <2>3. A!Download(t) => C!Download(t)
    BY DEF A!Download, C!Download
  <2>4. A!Delete(t) => C!Delete(t)
    BY DEF A!Delete, C!Delete
  <2>5. A!Chmod(t) => C!Chmod(t)
    BY DEF A!Chmod, C!Chmod
  <2>6. ASSUME NEW S, A!Look(t, S)
        PROVE  C!Look(t, S)
    <3>1. {A!Views(n) : n \in S} = {C!Views(n) : n \in S}
      BY <1>2
    <3>2. PICK view \in [S -> UNION {C!Views(n) : n \in S}] :
            /\ \A n \in S : view[n] \in C!Views(n)
            /\ rows' = [rows EXCEPT ![t] = SeenMore(@, view)]
      BY <1>2, <2>6, <3>1, SameWords DEF A!Look
    <3>3. QED
      BY <2>6, <3>2 DEF SeenMore, A!Look, C!Look
  <2>7. A!List(t) => C!List(t)
    BY DEF A!List, C!List
  <2>8. A!Refuse(t) => C!Refuse(t)
    BY DEF A!Refuse, C!Refuse
  <2>9. A!Finish(t) => C!Finish(t)
    BY DEF A!Finish, C!Finish
  <2>10. QED
    BY <2>1, <2>2, <2>3, <2>4, <2>5, <2>6, <2>7, <2>8, <2>9
<1>4. A!Next => C!Next
  BY <1>3 DEF A!Next, C!Next
<1>5. QED
  BY <1>1, <1>2, <1>4

(* What a name is seen as while a worker has it for a change.              *)
LEMMA SeenAtWork ==
  ASSUME CrashInv, Exact, NEW t \in Threads, pc[t] \in InUpload \cup {"delete", "chmod"}
  PROVE  /\ N(t) \in Names /\ wlock[N(t)] = {t}
         /\ file[N(t)] \in C!Views(N(t))
         /\ pc[t] \in InUpload =>
              \A b \in Prefixes(job[t].data) :
                [body |-> b, mode |-> ModeAfterUpload(StoreSeen[N(t)])] \in C!Views(N(t))
<1>1. /\ N(t) \in Names /\ wlock[N(t)] = {t} /\ job[t] \in Requests
      /\ pc[t] \in InUpload => job[t].op = "upload"
  BY AtWork DEF CrashInv
<1>2. file[N(t)] \in A!Views(N(t))
  BY <1>1, InViews DEF CrashInv
<1>3. ASSUME pc[t] \in InUpload, NEW b \in Prefixes(job[t].data)
      PROVE  [body |-> b, mode |-> ModeAfterUpload(StoreSeen[N(t)])] \in A!Views(N(t))
  <2>1. JobsOpen[t] = job[t] /\ Decided[t] = None
    BY <1>1, <1>3 DEF JobsOpen, JobOf, Decided, AnswerOf, At, InUpload, Opened
  <2>2. t \in A!UploadsOf(N(t))
    BY <1>1, <1>3, <2>1, RequestShapes DEF A!UploadsOf, A!Undecided, N
  <2> DEFINE V(v) == {[body |-> p, mode |-> A!ModeAfterUpload(StoreSeen[N(t)])] :
                        p \in A!Prefixes(JobsOpen[v].data)}
  <2>3. [body |-> b, mode |-> ModeAfterUpload(StoreSeen[N(t)])] \in V(t)
    BY <1>3, <2>1, SameWords
  <2>4. V(t) \subseteq A!Views(N(t))
    BY <2>2 DEF A!Views
  <2>5. QED
    BY <2>3, <2>4
<1>4. QED
  BY <1>1, <1>2, <1>3, SamePromise
(* A name's contents on the disk that were there before, or that it is     *)
(* seen with, are not invented.                                            *)
LEMMA NotInvented ==
  ASSUME CrashInv, NEW S
  PROVE  /\ \A f \in S \cap (Files \cup {Absent}) : C!MadeOf(f, S)
         /\ \A g \in S \cap Files : \A h \in S \cap Files :
              C!MadeOf([body |-> g.body, mode |-> h.mode], S)
<1>1. Absent \notin Files
  BY FileServiceAssumption
<1>2. ASSUME NEW f \in S \cap Files
      PROVE  f = [body |-> f.body, mode |-> f.mode]
  BY DEF Files
<1>3. QED
  BY <1>1, <1>2 DEF C!MadeOf

(* It is enough to look at the one name a step is about.                   *)
LEMMA InventedElsewhere ==
  ASSUME CrashInv, NEW n,
         \A m \in Names : m # n => disk'[m] = disk[m],
         \A f \in Found(n)' : n \in Names =>
            C!MadeOf(f, Found(n) \cup C!Views(n) \cup {StoreSeen'[n]})
  PROVE  C!NothingInvented
<1> DEFINE mayBe == [m \in Names |-> Found(m)]
           S(m) == mayBe[m] \cup C!Views(m) \cup {StoreSeen'[m]}
<1>1. ASSUME NEW m \in Names, NEW f \in Found(m)'
      PROVE  C!MadeOf(f, S(m))
  <2>1. CASE m = n
    BY <1>1, <2>1
  <2>2. CASE m # n
    <3>1. f \in Found(m) /\ Found(m) \subseteq Files \cup {Absent}
      BY <1>1, <2>2 DEF Found, CrashInv, Kept, DiskShapes
    <3>2. f \in S(m) \cap (Files \cup {Absent})
      BY <3>1
    <3> HIDE DEF S
    <3>3. QED
      BY <3>2, NotInvented
  <2>3. QED
    BY <2>1, <2>2
<1>2. \A m \in Names : mayBe'[m] = Found(m)'
  OBVIOUS
<1>3. QED
  BY <1>1, <1>2 DEF C!NothingInvented

(* Open, write and fsync put nothing on the disk but what the upload shows.*)
LEMMA UploadInvents ==
  ASSUME CrashInv, Exact, NEW t \in Threads,
         OpenOnDisk(t) \/ WriteOnDisk(t) \/ GiveUp(t) \/ SyncOnDisk(t)
  PROVE  C!NothingInvented
<1>1. pc[t] \in InUpload
  BY DEF OpenOnDisk, OpenForUpload, WriteOnDisk, WriteSome, WriteAll, GiveUp, LockForUpload,
         WriteFails, SyncOnDisk, Sync, At, InUpload, Opened
<1>2. Shapes /\ DiskShapes /\ N(t) \in Names /\ job[t].data \in Data \cup {Empty}
  BY <1>1, AtWork DEF CrashInv, Kept
<1>3. PICK n \in Names : n = N(t)
  BY <1>2
<1> DEFINE S == Found(n) \cup C!Views(n) \cup {StoreSeen'[n]}
           As(b) == [body |-> b, mode |-> ModeAfterUpload(StoreSeen[n])]
<1>4. file[n] \in S /\ \A b \in Prefixes(job[t].data) : As(b) \in S
  BY <1>1, <1>3, SeenAtWork
<1>5. disk[n].now \subseteq S \cap Files /\ disk[n].before \subseteq S \cap (Files \cup {Absent})
  BY <1>2 DEF Found, DiskShapes
<1>6. \A b \in Prefixes(job[t].data) : As(b) \in Files
  <2>1. StoreSeen[n] \in Files \cup {Absent}
    BY Seen DEF CrashInv
  <2>2. ModeAfterUpload(StoreSeen[n]) \in Modes
    BY <2>1, FileServiceAssumption DEF ModeAfterUpload, Files
  <2>3. Prefixes(job[t].data) \subseteq Bodies
    BY <1>2 DEF Prefixes, Bodies
  <2>4. QED
    BY <2>2, <2>3 DEF Files
<1> HIDE DEF S, As
<1>7. ASSUME NEW bodies, bodies \subseteq Prefixes(job[t].data),
             NEW f \in WithBodies(disk[n].now, bodies)
      PROVE  C!MadeOf(f, S)
  <2>1. CASE f \in disk[n].now
    BY <1>5, <2>1, NotInvented
  <2>2. CASE \E g \in disk[n].now, b \in bodies : f = [g EXCEPT !.body = b]
    <3>1. PICK g \in disk[n].now, b \in bodies : f = [g EXCEPT !.body = b]
      BY <2>2
    <3>2. g \in S \cap Files /\ As(b) \in S \cap Files /\ As(b).body = b
      BY <1>4, <1>5, <1>6, <1>7, <3>1 DEF As
    <3>3. f = [body |-> As(b).body, mode |-> g.mode]
      BY <3>1, <3>2 DEF Files
    <3>4. QED
      BY <3>2, <3>3, NotInvented
  <2>3. QED
    BY <1>7, <2>1, <2>2 DEF WithBodies
<1>8. ASSUME NEW now, disk' = [disk EXCEPT ![n].now = now],
             \A f \in now : C!MadeOf(f, S)
      PROVE  C!NothingInvented
  <2>1. /\ disk'[n].now = now /\ disk'[n].before = disk[n].before
        /\ \A m \in Names : m # n => disk'[m] = disk[m]
    BY <1>2, <1>8 DEF DiskShapes
  <2>2. \A f \in Found(n)' : C!MadeOf(f, S)
    BY <1>5, <1>8, <2>1, NotInvented DEF Found
  <2>3. QED
    BY <2>1, <2>2, InventedElsewhere DEF S
<1>9. ASSUME UNCHANGED disk
      PROVE  C!NothingInvented
  <2>1. \A f \in Found(n)' : C!MadeOf(f, S)
    BY <1>5, <1>9, NotInvented DEF Found
  <2>2. QED
    BY <1>9, <2>1, InventedElsewhere DEF S
<1>10. CASE OpenOnDisk(t)
  <2>1. CASE file[n] = Absent /\ pc'[t] # "write_unlock"
    <3>1. disk' = [disk EXCEPT ![n].now = {file'[n]}] /\ pc[t] = "upload"
      BY <1>3, <1>10, <2>1 DEF OpenOnDisk, OpenForUpload, At
    <3>2. file'[n] = As(Whole(Empty))
      <4>1. job[t].op = "upload" /\ t \in wlock[n] /\ was[n] = file[n]
        BY <1>1, <1>3, <3>1, AtWork DEF CrashInv, Exact, Progress, At
      <4>2. StoreSeen[n] = file[n]
        BY <4>1 DEF StoreSeen, Uploading
      <4>3. file' = [file EXCEPT ![n] = [body |-> Whole(Empty), mode |-> ModeAfterUpload(file[n])]]
        BY <1>2, <1>3, <1>10, <2>1 DEF OpenOnDisk, OpenForUpload, GotoWith, Goto, Shapes
      <4>4. QED
        BY <1>2, <4>2, <4>3 DEF As, Shapes
    <3>3. Whole(Empty) \in Prefixes(job[t].data)
      BY DEF Prefixes
    <3>4. file'[n] \in S \cap (Files \cup {Absent})
      BY <1>4, <1>6, <3>2, <3>3
    <3> DEFINE now == {file'[n]}
    <3>5. disk' = [disk EXCEPT ![n].now = now] /\ \A f \in now : C!MadeOf(f, S)
      BY <3>1, <3>4, NotInvented
    <3> HIDE DEF now
    <3>6. QED
      BY <1>8, <3>5
  <2>2. CASE file[n] # Absent /\ pc'[t] # "write_unlock"
    <3>1. disk' = [disk EXCEPT ![n].now = WithBodies(disk[n].now, {Whole(Empty)})]
      BY <1>3, <1>10, <2>2 DEF OpenOnDisk
    <3>2. {Whole(Empty)} \subseteq Prefixes(job[t].data)
      BY DEF Prefixes
    <3>3. QED
      BY <1>7, <1>8, <3>1, <3>2
  <2>3. CASE pc'[t] = "write_unlock"
    BY <1>9, <1>10, <2>3 DEF OpenOnDisk
  <2>4. QED
    BY <2>1, <2>2, <2>3
<1>11. CASE WriteOnDisk(t)
  <2>1. disk' = [disk EXCEPT ![n].now = WithBodies(disk[n].now, Prefixes(job[t].data))]
    BY <1>3, <1>11 DEF WriteOnDisk
  <2>2. QED
    BY <1>7, <1>8, <2>1
<1>12. CASE SyncOnDisk(t)
  <2>1. file[n] \in Files
    BY <1>1, <1>3, <1>12, AtWork DEF CrashInv, SyncOnDisk, Sync, At, Opened
  <2> DEFINE now == {file[n]}
  <2>2. disk' = [disk EXCEPT ![n].now = now] \/ UNCHANGED disk
    BY <1>3, <1>12 DEF SyncOnDisk
  <2>3. \A f \in now : C!MadeOf(f, S)
    BY <1>4, <2>1, NotInvented
  <2> HIDE DEF now
  <2>4. QED
    BY <1>8, <1>9, <2>2, <2>3
<1>13. CASE GiveUp(t)
  BY <1>9, <1>13 DEF GiveUp
<1>14. QED
  BY <1>10, <1>11, <1>12, <1>13

(* Neither does a delete or a chmod.                                       *)
LEMMA ChangeInvents ==
  ASSUME CrashInv, Exact, NEW t \in Threads, UnlinkOnDisk(t) \/ ChmodOnDisk(t)
  PROVE  C!NothingInvented
<1>1. pc[t] \in {"delete", "chmod"} /\ UNCHANGED <<wlock, job>>
  BY DEF UnlinkOnDisk, Unlink, ChmodOnDisk, ChangeMode, At, locks
<1>2. /\ Shapes /\ DiskShapes /\ N(t) \in Names /\ wlock[N(t)] = {t}
      /\ pc[t] = "chmod" => job[t].op = "chmod" /\ job[t].mode \in Modes
  BY <1>1, AtWork DEF CrashInv, Kept
<1>3. PICK n \in Names : n = N(t)
  BY <1>2
<1> DEFINE S == Found(n) \cup C!Views(n) \cup {StoreSeen'[n]}
<1>4. /\ disk[n].now \subseteq S \cap Files
      /\ disk[n].before \subseteq S \cap (Files \cup {Absent})
  BY <1>2 DEF Found, DiskShapes
<1>5. Found(n) \subseteq S \cap (Files \cup {Absent}) /\ StoreSeen'[n] \in S
  BY <1>4 DEF Found
<1> HIDE DEF S
<1>6. ASSUME UNCHANGED disk
      PROVE  C!NothingInvented
  <2>1. \A f \in Found(n)' : C!MadeOf(f, S)
    BY <1>5, <1>6, NotInvented DEF Found
  <2>2. QED
    BY <1>6, <2>1, InventedElsewhere DEF S
<1>7. ASSUME UnlinkOnDisk(t), disk' # disk
      PROVE  C!NothingInvented
  <2>1. disk' = [disk EXCEPT ![n] = [now |-> {}, before |-> Found(n) \cup {Absent}]]
    BY <1>3, <1>7 DEF UnlinkOnDisk
  <2>2. Found(n)' = Found(n) \cup {Absent} /\ \A m \in Names : m # n => disk'[m] = disk[m]
    BY <1>2, <2>1 DEF DiskShapes, Found
  <2>3. C!MadeOf(Absent, S)
    BY DEF C!MadeOf
  <2>4. \A f \in Found(n)' : C!MadeOf(f, S)
    BY <1>5, <2>2, <2>3, NotInvented
  <2>5. QED
    BY <2>2, <2>4, InventedElsewhere DEF S
<1>8. ASSUME ChmodOnDisk(t), disk' # disk
      PROVE  C!NothingInvented
  <2> DEFINE m == job[t].mode
             now == WithMode(disk[n].now, m)
  <2>1. /\ disk' = [disk EXCEPT ![n].now = now] /\ pc[t] = "chmod"
        /\ res'[t] = Ok
    BY <1>3, <1>8 DEF ChmodOnDisk, ChangeMode, At
  <2>2. file[n] # Absent /\ file' = [file EXCEPT ![n].mode = m]
    <3>1. \/ file[n] # Absent /\ file' = [file EXCEPT ![n].mode = m]
          \/ res' = [res EXCEPT ![t] = Err(404)]
      BY <1>3, <1>8 DEF ChmodOnDisk, ChangeMode, GotoWith
    <3>2. res' # [res EXCEPT ![t] = Err(404)]
      BY <1>2, <2>1 DEF Ok, Err, Shapes
    <3>3. QED
      BY <3>1, <3>2
  <2>3. file'[n] \in Files /\ file'[n].mode = m
    BY <1>2, <1>3, <2>1, <2>2 DEF Shapes, Files
  <2>4. StoreSeen'[n] = file'[n]
    BY <1>1, <1>2, <1>3, <2>1 DEF StoreSeen, Uploading
  <2>5. ASSUME NEW f \in now
        PROVE  C!MadeOf(f, S)
    <3>1. CASE f \in disk[n].now
      BY <1>4, <3>1, NotInvented
    <3>2. CASE \E g \in disk[n].now : f = [g EXCEPT !.mode = m]
      <4>1. PICK g \in disk[n].now : f = [g EXCEPT !.mode = m]
        BY <3>2
      <4>2. g \in S \cap Files /\ StoreSeen'[n] \in S \cap Files /\ StoreSeen'[n].mode = m
        BY <1>4, <1>5, <2>3, <2>4, <4>1
      <4>3. f = [body |-> g.body, mode |-> StoreSeen'[n].mode]
        BY <4>1, <4>2 DEF Files
      <4>4. QED
        BY <4>2, <4>3, NotInvented
    <3>3. QED
      BY <2>5, <3>1, <3>2 DEF WithMode
  <2> HIDE DEF now
  <2>6. /\ disk'[n].now = now /\ disk'[n].before = disk[n].before
        /\ \A o \in Names : o # n => disk'[o] = disk[o]
    BY <1>2, <2>1 DEF DiskShapes
  <2>7. \A f \in Found(n)' : C!MadeOf(f, S)
    BY <1>4, <2>5, <2>6, NotInvented DEF Found
  <2>8. QED
    BY <2>6, <2>7, InventedElsewhere DEF S
<1>9. QED
  BY <1>6, <1>7, <1>8
(* The rest touches nothing on the disk.                                   *)
LEMMA DiskUnchanged ==
  ASSUME CrashInv, UNCHANGED disk
  PROVE  C!NothingInvented
<1>1. ASSUME NEW n \in Names, NEW S, Found(n) \subseteq S, NEW f \in Found(n)'
      PROVE  C!MadeOf(f, S)
  <2>1. f \in S \cap (Files \cup {Absent})
    BY <1>1 DEF Found, CrashInv, Kept, DiskShapes
  <2>2. QED
    BY <2>1, NotInvented
<1>2. QED
  BY <1>1 DEF C!NothingInvented

(* Between crashes the promise of AtomicStore is kept.                     *)
LEMMA ServesOn ==
  ASSUME CrashInv, Exact,
         (\E t \in Threads : OnDisk(t) \/ OffDisk(t)) \/ Others \/ UNCHANGED crashVars
  PROVE  C!Serve
<1>1. C!Next \/ UNCHANGED C!storeVars
  BY OrdinarySteps, StepShows, SamePromise DEF CrashInv, A!storeVars, C!storeVars
<1>2. CASE UNCHANGED disk
  BY <1>1, <1>2, DiskUnchanged DEF C!Serve
<1>3. CASE ~UNCHANGED disk
  <2>1. PICK t \in Threads : OnDisk(t)
    BY <1>3 DEF OffDisk, Others, crashVars
  <2>2. C!NothingInvented
    BY <2>1, UploadInvents, ChangeInvents DEF OnDisk
  <2>3. QED
    BY <1>1, <2>2 DEF C!Serve
<1>4. QED
  BY <1>2, <1>3

(* After a restart the promise knows of no request, and every name counts  *)
(* as it is.                                                               *)
LEMMA RestartForgets ==
  ASSUME CrashInv, Restart
  PROVE  /\ C!Forget
         /\ StoreSeen' = [n \in Names |-> file'[n]]
<1>1. \A t \in Threads : JobOf(t)' = None /\ AnswerOf(t)' = None
  BY DEF Restart, JobOf, AnswerOf, At
<1>2. C!Forget
  BY <1>1 DEF C!Forget, JobsOpen, Decided, Restart
<1>3. \A n \in Names : ~Uploading(n)'
  BY DEF Restart, Uploading
<1>4. QED
  BY <1>2, <1>3 DEF StoreSeen

(* A kill of the server is one of CrashStore.                              *)
LEMMA KillShows ==
  ASSUME CrashInv, Exact, Killed
  PROVE  C!Kill
<1>1. C!Forget /\ StoreSeen' = [n \in Names |-> file[n]]
  BY RestartForgets DEF Killed
<1>2. \A n \in Names : file[n] \in C!Views(n)
  BY InViews, SamePromise DEF CrashInv
<1>3. [n \in Names |-> Found(n)]' = [n \in Names |-> Found(n)]
  BY DEF Killed, Found
<1>4. QED
  BY <1>1, <1>2, <1>3 DEF C!Kill

(* And so is a loss of power.                                              *)
LEMMA PowerLossShows ==
  ASSUME CrashInv, Exact, PowerLoss
  PROVE  C!LosePower
<1>1. C!Forget /\ StoreSeen' = [n \in Names |-> file'[n]]
  BY RestartForgets DEF PowerLoss
<1>2. \A n \in Names : file'[n] \in Found(n)
  BY DEF PowerLoss
<1>3. ASSUME NEW n \in Names
      PROVE  Found(n)' \subseteq Found(n)
  <2>1. Found(n)' = {file'[n]}
    BY DEF PowerLoss, Found
  <2>2. QED
    BY <1>2, <2>1
<1>4. QED
  BY <1>1, <1>2, <1>3 DEF C!LosePower

(* Whatever the handlers do at the same time, and wherever a kill or a loss*)
(* of power cuts them off: every change is decided at one instant, a kill  *)
(* undoes none that was decided, and nothing is found that nobody wrote.   *)
THEOREM AtomicAcrossCrashes == CrashSpec => AtomicDespiteCrashes
<1>1. CrashInit => C!StoreInit
  <2> SUFFICES ASSUME CrashInit PROVE C!StoreInit
    OBVIOUS
  <2>1. C!Init
    BY InitShows, SamePromise DEF CrashInit
  <2>2. \A n \in Names : Found(n) = {Absent}
    BY DEF CrashInit, Found
  <2>3. QED
    BY <2>1, <2>2 DEF C!StoreInit
<1>2. CrashInit => Exact
  BY ExactInit DEF CrashInit
<1>3. CrashInv /\ Exact /\ [CrashNext]_crashVars => Exact'
  <2> SUFFICES ASSUME CrashInv, Exact, [CrashNext]_crashVars PROVE Exact'
    OBVIOUS
  <2>1. CASE Killed \/ PowerLoss
    BY <2>1, RestartExact DEF Killed, PowerLoss
  <2>2. CASE (\E t \in Threads : OnDisk(t) \/ OffDisk(t)) \/ Others \/ UNCHANGED crashVars
    BY <2>2, OrdinarySteps, ExactNext DEF CrashInv
  <2>3. QED
    BY <2>1, <2>2 DEF CrashNext
<1>4. CrashInv /\ Exact /\ [CrashNext]_crashVars
        => [C!StoreNext]_<<C!storeVars, [n \in Names |-> Found(n)]>>
  BY ServesOn, KillShows, PowerLossShows DEF CrashNext, C!StoreNext
<1>5. QED
  BY <1>1, <1>2, <1>3, <1>4, CrashInvariance, PTL DEF CrashSpec, AtomicDespiteCrashes, C!StoreSpec
=============================================================================
