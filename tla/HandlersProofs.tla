--------------------------- MODULE HandlersProofs ---------------------------
(***************************************************************************)
(* Proofs about Handlers for any workers, names, contents and requests.    *)
(***************************************************************************)
EXTENDS Handlers, TLAPS

-----------------------------------------------------------------------------
(* The inductive invariant.  TypeOK ties the place of a worker to the locks*)
(* it holds; what makes that inductive is that its place fits its request, *)
(* that the locks exclude each other, and that a file under upload is      *)
(* there: whoever unlinks it needs the lock the upload holds.              *)
Shapes ==
  /\ file \in [Names -> Files \cup {Absent}]
  /\ was \in [Names -> Files \cup {Absent}]
  /\ wlock \in [Names -> SUBSET Threads] /\ rlock \in [Names -> SUBSET Threads]
  /\ flk \in [Names -> FcntlLocks] /\ ext \in [Names -> FcntlLocks]
  /\ pc \in [Threads -> Locations]
  /\ job \in [Threads -> Requests \cup {None}]
  /\ DOMAIN res = Threads /\ DOMAIN rows = Threads /\ DOMAIN sent = Threads

Opened        == {"fcntl_write", "write", "writing", "fsync"}
InUpload      == Opened \cup {"upload", "close_write"}
Changes       == {"upload", "delete", "chmod"}
AboutDownload == InReadLock \cup {"read_lock"}

Fits(t) ==
  /\ job[t] = None <=> At(t, "idle")
  /\ At(t, "refuse") => job[t].op = "bad"
  /\ pc[t] \in {"opendir", "stat"} => job[t].op = "list"
  /\ pc[t] \in AboutDownload => job[t].op = "download"
  /\ pc[t] \in InUpload => job[t].op = "upload"
  /\ pc[t] \in {"delete", "chmod"} => job[t].op = pc[t]
  /\ pc[t] \in {"write_lock", "write_unlock"} => job[t].op \in Changes

Held(t) ==
  \A n \in Names :
    /\ t \in wlock[n] <=> pc[t] \in InWriteLock /\ n = N(t)
    /\ t \in rlock[n] <=> pc[t] \in InReadLock /\ n = N(t)

Alone ==
  \A n \in Names : \A t \in wlock[n] : wlock[n] = {t} /\ rlock[n] = {}

Ready(t) == pc[t] \in Opened => file[N(t)] \in Files

Inv ==
  /\ Shapes
  /\ \A t \in Threads : Fits(t) /\ Held(t) /\ Ready(t)
  /\ Alone

(* What a request looks like.                                              *)
LEMMA RequestShapes ==
  ASSUME NEW r \in Requests
  PROVE  /\ r # None
         /\ r.op \in {"upload", "download", "delete", "chmod", "list", "bad"}
         /\ r.op \in Changes \cup {"download"} => r.name \in Names
         /\ r.op = "upload" => r.data \in Data \cup {Empty}
         /\ r.op = "chmod" => r.mode \in Modes
         /\ FirstStep(r) \in {"refuse", "opendir", "read_lock", "write_lock"}
         /\ FirstStep(r) = "refuse" => r.op = "bad"
         /\ FirstStep(r) = "opendir" => r.op = "list"
         /\ FirstStep(r) = "read_lock" => r.op = "download"
         /\ FirstStep(r) = "write_lock" => r.op \in Changes
BY FileServiceAssumption DEF AllRequests, FirstStep, Changes

(* A worker that changes a file has it to itself.                          *)
LEMMA Exclusion ==
  ASSUME Inv, NEW t \in Threads, NEW u \in Threads, t # u,
         pc[t] \in InWriteLock, pc[u] \in InWriteLock \cup InReadLock
  PROVE  N(t) # N(u) /\ N(t) \in Names /\ N(u) \in Names
<1>1. ASSUME NEW v \in Threads, pc[v] \in InWriteLock \cup InReadLock
      PROVE  N(v) \in Names
  <2>1. Fits(v) /\ job[v] \in Requests \cup {None}
    BY DEF Inv, Shapes
  <2>2. job[v] # None /\ job[v].op \in Changes \cup {"download"}
    BY <1>1, <2>1
       DEF Fits, At, InWriteLock, InReadLock, AboutDownload, InUpload, Opened, Changes
  <2>3. QED
    BY <2>1, <2>2, RequestShapes DEF N
<1>2. N(t) \in Names /\ N(u) \in Names
  BY <1>1
<1>3. t \in wlock[N(t)]
  BY <1>2 DEF Inv, Held
<1>4. u \in wlock[N(u)] \/ u \in rlock[N(u)]
  BY <1>2 DEF Inv, Held
<1>5. QED
  BY <1>2, <1>3, <1>4 DEF Inv, Alone

(* The initial state satisfies the invariant.                              *)
LEMMA InitInv == Init => Inv
<1> SUFFICES ASSUME Init PROVE Inv
  OBVIOUS
<1>1. Shapes
  BY DEF Init, Shapes, L!Init, FcntlLocks, Locations
<1>2. ASSUME NEW t \in Threads
      PROVE  Fits(t) /\ Held(t) /\ Ready(t)
  BY DEF Init, L!Init, Fits, At, Held, Ready, InWriteLock, InReadLock, AboutDownload,
         InUpload, Opened
<1>3. Alone
  BY DEF Init, L!Init, Alone
<1>4. QED
  BY <1>1, <1>2, <1>3 DEF Inv

(* What a worker knows of itself at any place.                             *)
LEMMA Knows ==
  ASSUME Inv, NEW t \in Threads
  PROVE  /\ Shapes /\ Fits(t) /\ Held(t) /\ Ready(t)
         /\ ~At(t, "idle") => job[t] \in Requests
         /\ ~At(t, "idle") /\ job[t].op \in Changes \cup {"download"} => N(t) \in Names
<1>1. Shapes /\ Fits(t) /\ Held(t) /\ Ready(t)
  BY DEF Inv
<1>2. ~At(t, "idle") => job[t] \in Requests
  BY <1>1 DEF Shapes, Fits
<1>3. QED
  BY <1>1, <1>2, RequestShapes DEF N

(* A step of a worker that takes and releases no lock.                     *)
Inside(t) ==
  /\ UNCHANGED <<locks, job>>
  /\ \E l \in Locations : Goto(t, l)
  /\ pc'[t] \in InWriteLock <=> pc[t] \in InWriteLock
  /\ pc'[t] \in InReadLock <=> pc[t] \in InReadLock

(* Such a step keeps the invariant if the worker keeps its place in order. *)
LEMMA InsideInv ==
  ASSUME Inv, NEW t \in Threads, Inside(t), Shapes', Fits(t)', Ready(t)',
         \A n \in Names : file'[n] # file[n] =>
            /\ pc[t] \in InWriteLock /\ n = N(t)
  PROVE  Inv'
<1>1. /\ \A u \in Threads : u # t => pc'[u] = pc[u]
      /\ job' = job /\ wlock' = wlock /\ rlock' = rlock
  BY DEF Inside, Goto, Inv, Shapes, locks
<1>2. ASSUME NEW u \in Threads
      PROVE  Held(u)'
  <2>1. Held(u) /\ (pc'[u] \in InWriteLock <=> pc[u] \in InWriteLock)
                /\ (pc'[u] \in InReadLock <=> pc[u] \in InReadLock)
    BY <1>1 DEF Inv, Inside
  <2>2. QED
    BY <1>1, <2>1 DEF Held, N
<1>3. ASSUME NEW u \in Threads, u # t
      PROVE  Fits(u)' /\ Ready(u)'
  <2>1. Fits(u) /\ Ready(u)
    BY DEF Inv
  <2>2. Fits(u)'
    BY <1>1, <1>3, <2>1 DEF Fits, At
  <2>3. Ready(u)'
    <3>1. SUFFICES ASSUME pc[u] \in Opened
                   PROVE  file'[N(u)] \in Files
      BY <1>1, <1>3 DEF Ready, N
    <3>2. pc[u] \in InWriteLock
      BY <3>1 DEF Opened, InWriteLock
    <3>3. N(u) \in Names /\ (pc[t] \in InWriteLock => N(u) # N(t))
      BY <1>3, <3>2, Exclusion, <2>1, Knows, <3>1 DEF Opened, At, Changes, Fits, InUpload
    <3>4. QED
      BY <2>1, <3>1, <3>3 DEF Ready
  <2>4. QED
    BY <2>2, <2>3
<1>4. Alone'
  BY <1>1 DEF Inv, Alone
<1>5. QED
  BY <1>2, <1>3, <1>4 DEF Inv

(* An upload, from open to close.                                          *)
LEMMA UploadInv ==
  ASSUME Inv, NEW t \in Threads, Upload(t)
  PROVE  Inv'
<1>1. Shapes /\ Fits(t) /\ Ready(t) /\ job[t] \in Requests /\ job[t].op = "upload"
      /\ N(t) \in Names /\ job[t].data \in Data \cup {Empty} /\ pc[t] \in InUpload
  <2>1. pc[t] \in InUpload
    BY DEF Upload, OpenForUpload, LockForUpload, WriteSome, WriteAll, WriteFails, Sync,
           CloseUpload, At, InUpload, Opened
  <2>2. job[t].op = "upload" /\ ~At(t, "idle")
    BY <2>1, Knows DEF Fits, InUpload, Opened, At
  <2>3. QED
    BY <2>1, <2>2, Knows, RequestShapes DEF Changes
<1>2. Inside(t)
  BY <1>1 DEF Upload, OpenForUpload, LockForUpload, WriteSome, WriteAll, WriteFails, Sync,
              CloseUpload, At, Inside, Goto, GotoWith, PutBody, InWriteLock, InReadLock,
              Locations, Shapes
<1>3. /\ file' \in [Names -> Files \cup {Absent}]
      /\ \A n \in Names : n # N(t) => file'[n] = file[n]
      /\ Ready(t)'
  <2>1. CASE OpenForUpload(t)
    <3>1. ModeAfterUpload(file[N(t)]) \in Modes
      BY <1>1, FileServiceAssumption DEF Shapes, ModeAfterUpload, Files
    <3>2. [body |-> Whole(Empty), mode |-> ModeAfterUpload(file[N(t)])] \in Files
      BY <3>1 DEF Files, Bodies
    <3> DEFINE f == [body |-> Whole(Empty), mode |-> ModeAfterUpload(file[N(t)])]
    <3>3. \/ file' = [file EXCEPT ![N(t)] = f]
          \/ UNCHANGED file /\ pc' = [pc EXCEPT ![t] = "write_unlock"]
      BY <2>1 DEF OpenForUpload, GotoWith, Goto
    <3>4. N(t)' = N(t)
      BY <2>1 DEF OpenForUpload, N
    <3> HIDE DEF f
    <3>5. QED
      BY <1>1, <3>2, <3>3, <3>4 DEF Shapes, Ready, Opened, f
  <2>2. CASE WriteSome(t) \/ WriteAll(t)
    <3>1. ASSUME NEW b \in Bodies, file[N(t)] \in Files, PutBody(N(t), b)
          PROVE  /\ file' \in [Names -> Files \cup {Absent}]
                 /\ \A n \in Names : n # N(t) => file'[n] = file[n]
                 /\ file'[N(t)] \in Files
      BY <1>1, <3>1 DEF PutBody, Shapes, Files
    <3>2. pc[t] \in Opened /\ file[N(t)] \in Files /\ N(t)' = N(t)
      BY <1>1, <2>2 DEF Ready, WriteSome, WriteAll, At, Opened, N
    <3>3. Whole(job[t].data) \in Bodies /\ (job[t].data # Empty => Part(job[t].data) \in Bodies)
      BY <1>1 DEF Bodies
    <3>4. QED
      BY <2>2, <3>1, <3>2, <3>3 DEF WriteSome, WriteAll, Ready
  <2>3. CASE LockForUpload(t) \/ WriteFails(t) \/ Sync(t) \/ CloseUpload(t)
    BY <1>1, <2>3 DEF LockForUpload, WriteFails, Sync, CloseUpload, At, Shapes, Ready, N,
                      Goto, GotoWith, Opened
  <2>4. QED
    BY <2>1, <2>2, <2>3 DEF Upload
<1>4. pc' \in [Threads -> Locations] /\ pc'[t] \in InUpload \cup {"write_unlock"}
  <2>1. \E l \in InUpload \cup {"write_unlock"} : pc' = [pc EXCEPT ![t] = l]
    BY DEF Upload, OpenForUpload, LockForUpload, WriteSome, WriteAll, WriteFails,
           Sync, CloseUpload, Goto, GotoWith, InUpload, Opened
  <2>2. InUpload \cup {"write_unlock"} \subseteq Locations
    BY DEF InUpload, Opened, Locations
  <2>3. QED
    BY <1>1, <2>1, <2>2 DEF Shapes
<1>5. Fits(t)'
  BY <1>1, <1>2, <1>4 DEF Inside, Fits, At, InUpload, Opened, Changes, AboutDownload, InReadLock
<1>6. flk' \in [Names -> FcntlLocks] /\ UNCHANGED <<ext, rows, sent, was>> /\ DOMAIN res' = Threads
  BY <1>1 DEF Upload, OpenForUpload, LockForUpload, WriteSome, WriteAll, WriteFails,
              Sync, CloseUpload, Goto, GotoWith, Shapes, FcntlLocks
<1>7. Shapes'
  BY <1>1, <1>2, <1>3, <1>4, <1>6 DEF Shapes, Inside, locks
<1>8. pc[t] \in InWriteLock
  BY <1>1 DEF InUpload, Opened, InWriteLock
<1>9. QED
  BY <1>2, <1>3, <1>5, <1>7, <1>8, InsideInv

(* A delete and a chmod.                                                   *)
LEMMA ChangeInv ==
  ASSUME Inv, NEW t \in Threads, Unlink(t) \/ ChangeMode(t)
  PROVE  Inv'
<1>1. pc[t] \in {"delete", "chmod"}
  BY DEF Unlink, ChangeMode, At
<1>2. Shapes /\ job[t] \in Requests /\ job[t].op = pc[t] /\ N(t) \in Names
  BY <1>1, Knows DEF Fits, At, Changes
<1>3. /\ pc' = [pc EXCEPT ![t] = "write_unlock"]
      /\ UNCHANGED <<locks, job, flk, rows, sent, was>>
      /\ ext' = ext \/ ext' = [ext EXCEPT ![N(t)] = "none"]
      /\ \E a : res' = [res EXCEPT ![t] = a]
  BY DEF Unlink, ChangeMode, GotoWith, Goto
<1>4. Inside(t)
  BY <1>1, <1>2, <1>3 DEF Inside, Goto, Shapes, Locations, InWriteLock, InReadLock
<1>5. /\ file' \in [Names -> Files \cup {Absent}]
      /\ \A n \in Names : n # N(t) => file'[n] = file[n]
  <2>1. CASE UNCHANGED file
    BY <2>1, <1>2 DEF Shapes
  <2>2. CASE file' = [file EXCEPT ![N(t)] = Absent]
    BY <2>2, <1>2 DEF Shapes
  <2>3. CASE pc[t] = "chmod" /\ file[N(t)] # Absent /\ file' = [file EXCEPT ![N(t)].mode = job[t].mode]
    <3>1. job[t].mode \in Modes /\ file[N(t)] \in Files
      BY <2>3, <1>2, RequestShapes DEF Shapes
    <3>2. [file[N(t)] EXCEPT !.mode = job[t].mode] \in Files
      BY <3>1 DEF Files
    <3>3. QED
      BY <2>3, <1>2, <3>2 DEF Shapes
  <2>4. QED
    BY <2>1, <2>2, <2>3 DEF Unlink, ChangeMode, At
<1>6. Shapes'
  <2>1. pc' \in [Threads -> Locations] /\ ext' \in [Names -> FcntlLocks] /\ DOMAIN res' = Threads
    BY <1>2, <1>3 DEF Shapes, Locations, FcntlLocks
  <2>2. QED
    BY <1>2, <1>3, <1>5, <2>1 DEF Shapes, locks
<1>7. Fits(t)' /\ Ready(t)'
  BY <1>1, <1>2, <1>3, RequestShapes
     DEF Shapes, Fits, At, Ready, InUpload, Opened, AboutDownload, InReadLock, Changes
<1>8. pc[t] \in InWriteLock
  BY <1>1 DEF InWriteLock
<1>9. QED
  BY <1>4, <1>5, <1>6, <1>7, <1>8, InsideInv

(* Mapping a file ends in one of two places.                               *)
LEMMA MapStep ==
  ASSUME NEW t \in Threads, MapFile(t)
  PROVE  /\ UNCHANGED <<file, locks, ext, job, rows, sent, was>>
         /\ flk' = flk \/ flk' = [flk EXCEPT ![N(t)] = "none"]
         /\ \/ /\ CanRead(file[N(t)])
               /\ pc' = [pc EXCEPT ![t] = "fcntl_read"]
               /\ res' = [res EXCEPT ![t] = FileData(file[N(t)].body)]
            \/ /\ pc' = [pc EXCEPT ![t] = "miss"]
               /\ \E c \in {404, 500} : res' = [res EXCEPT ![t] = Err(c)]
BY DEF MapFile, GotoWith, Goto

(* What the steps of a download between its locks change.                  *)
LEMMA DownloadStep ==
  ASSUME NEW t \in Threads, Download(t)
  PROVE  /\ pc[t] \in {"map", "fcntl_read", "send", "unmap"}
         /\ \E l \in {"fcntl_read", "miss", "send", "unmap", "read_unlock"} : pc' = [pc EXCEPT ![t] = l]
         /\ UNCHANGED <<file, locks, ext, job, rows, was>>
         /\ \/ flk' = flk
            \/ flk' = [flk EXCEPT ![N(t)] = "none"]
            \/ flk' = [flk EXCEPT ![N(t)] = "read"]
         /\ res' = res \/ (\E a : res' = [res EXCEPT ![t] = a])
         /\ sent' = sent \/ (\E a : sent' = [sent EXCEPT ![t] = a])
<1>1. pc[t] \in {"map", "fcntl_read", "send", "unmap"}
  BY DEF Download, MapFile, LockForDownload, SendFile, UnmapAndClose, At
<1>2. CASE MapFile(t)
  BY <1>1, <1>2, MapStep
<1>3. CASE LockForDownload(t) \/ SendFile(t) \/ UnmapAndClose(t)
  BY <1>1, <1>3 DEF LockForDownload, SendFile, UnmapAndClose, GotoWith, Goto
<1>4. QED
  BY <1>2, <1>3 DEF Download

(* What the steps of a listing and of a refusal change.                    *)
LEMMA ListStep ==
  ASSUME Shapes, NEW t \in Threads, List(t) \/ Refuse(t)
  PROVE  /\ pc[t] \in {"opendir", "stat", "refuse"}
         /\ \E l \in {"stat", "reply"} : pc' = [pc EXCEPT ![t] = l]
         /\ pc'[t] = "stat" => pc[t] \in {"opendir", "stat"}
         /\ UNCHANGED <<file, locks, flk, ext, job, sent, was>>
         /\ res' = res \/ (\E a : res' = [res EXCEPT ![t] = a])
         /\ rows' = rows \/ (\E a : rows' = [rows EXCEPT ![t] = a])
<1>1. pc[t] \in {"opendir", "stat", "refuse"}
  BY DEF List, OpenDir, StatEntry, EndList, Refuse, At
<1>2. /\ (pc' = pc /\ pc[t] = "stat") \/ (\E l \in {"stat", "reply"} : pc' = [pc EXCEPT ![t] = l])
      /\ pc'[t] = "stat" => pc[t] \in {"opendir", "stat"}
      /\ UNCHANGED <<file, locks, flk, ext, job, sent, was>>
      /\ res' = res \/ (\E a : res' = [res EXCEPT ![t] = a])
      /\ rows' = rows \/ (\E a : rows' = [rows EXCEPT ![t] = a])
  BY DEF List, OpenDir, StatEntry, EndList, Refuse, GotoWith, Goto, Shapes, At
<1>3. QED
  BY <1>1, <1>2 DEF Shapes

(* A download while it has the lock, a listing, and a refusal: these change*)
(* no file.                                                                *)
LEMMA LookingInv ==
  ASSUME Inv, NEW t \in Threads, Download(t) \/ List(t) \/ Refuse(t)
  PROVE  Inv'
<1>1. Shapes /\ Fits(t)
  BY Knows
<1>2. CASE Download(t)
  <2>1. pc[t] \in {"map", "fcntl_read", "send", "unmap"}
    BY <1>2, DownloadStep
  <2>2. /\ \E l \in {"fcntl_read", "miss", "send", "unmap", "read_unlock"} : pc' = [pc EXCEPT ![t] = l]
        /\ UNCHANGED <<file, locks, ext, job, rows, was>>
        /\ \/ flk' = flk
           \/ flk' = [flk EXCEPT ![N(t)] = "none"]
           \/ flk' = [flk EXCEPT ![N(t)] = "read"]
        /\ res' = res \/ (\E a : res' = [res EXCEPT ![t] = a])
        /\ sent' = sent \/ (\E a : sent' = [sent EXCEPT ![t] = a])
    BY <1>2, DownloadStep
  <2>3. Inside(t) /\ pc'[t] \in InReadLock
    BY <1>1, <2>1, <2>2 DEF Inside, Goto, Shapes, Locations, InWriteLock, InReadLock
  <2>4. Shapes' /\ Fits(t)' /\ Ready(t)'
    <3>1. Shapes'
      <4>1. pc' \in [Threads -> Locations]
        BY <1>1, <2>3 DEF Shapes, Inside, Goto
      <4>2. flk' \in [Names -> FcntlLocks]
        BY <1>1, <2>2 DEF Shapes, FcntlLocks
      <4>3. DOMAIN res' = Threads /\ DOMAIN sent' = Threads
        BY <1>1, <2>2 DEF Shapes
      <4>4. QED
        BY <1>1, <2>2, <4>1, <4>2, <4>3 DEF Shapes, locks
    <3>2. Fits(t)' /\ Ready(t)'
      BY <1>1, <2>1, <2>2, <2>3
         DEF Fits, At, Ready, InUpload, Opened, AboutDownload, InReadLock, InWriteLock
    <3>3. QED
      BY <3>1, <3>2
  <2>5. QED
    BY <2>2, <2>3, <2>4, InsideInv
<1>3. CASE List(t) \/ Refuse(t)
  <2>1. pc[t] \in {"opendir", "stat", "refuse"}
    BY <1>1, <1>3, ListStep
  <2>2. /\ pc'[t] = "stat" => pc[t] \in {"opendir", "stat"}
        /\ UNCHANGED <<file, locks, flk, ext, job, sent, was>>
        /\ res' = res \/ (\E a : res' = [res EXCEPT ![t] = a])
        /\ rows' = rows \/ (\E a : rows' = [rows EXCEPT ![t] = a])
    BY <1>1, <1>3, ListStep
  <2>3. \E l \in {"stat", "reply"} : pc' = [pc EXCEPT ![t] = l]
    BY <1>1, <1>3, ListStep
  <2>4. Inside(t)
    BY <1>1, <2>1, <2>2, <2>3 DEF Inside, Goto, Shapes, Locations, InWriteLock, InReadLock
  <2>5. Shapes'
    <3>1. pc' \in [Threads -> Locations]
      BY <1>1, <2>3 DEF Shapes, Locations
    <3>2. DOMAIN res' = Threads /\ DOMAIN rows' = Threads
      BY <1>1, <2>2 DEF Shapes
    <3>3. QED
      BY <1>1, <2>2, <3>1, <3>2 DEF Shapes, locks
  <2>6. Fits(t)' /\ Ready(t)'
    BY <1>1, <2>1, <2>2, <2>3
       DEF Shapes, Fits, At, Ready, InUpload, Opened, AboutDownload, InReadLock
  <2>7. QED
    BY <2>2, <2>4, <2>5, <2>6, InsideInv
<1>4. QED
  BY <1>2, <1>3

(* A step that changes no file, at a place where the worker's own file is  *)
(* of no concern, leaves the others as they are.                           *)
LEMMA OthersKeep ==
  ASSUME Inv, NEW t \in Threads, UNCHANGED file,
         \E l : Goto(t, l),
         job' = job \/ \E j : job' = [job EXCEPT ![t] = j],
         \A n \in Names : wlock'[n] \ {t} = wlock[n] \ {t} /\ rlock'[n] \ {t} = rlock[n] \ {t}
  PROVE  \A u \in Threads : u # t => Fits(u)' /\ Held(u)' /\ Ready(u)'
<1> SUFFICES ASSUME NEW u \in Threads, u # t
             PROVE  Fits(u)' /\ Held(u)' /\ Ready(u)'
  OBVIOUS
<1>1. pc'[u] = pc[u] /\ job'[u] = job[u]
  BY DEF Goto, Inv, Shapes
<1>2. Fits(u) /\ Held(u) /\ Ready(u)
  BY Knows
<1>3. Fits(u)'
  BY <1>1, <1>2 DEF Fits, At
<1>4. Held(u)'
  BY <1>1, <1>2 DEF Held, N
<1>5. Ready(u)'
  BY <1>1, <1>2 DEF Ready, N
<1>6. QED
  BY <1>3, <1>4, <1>5

(* A request arrives, and a response goes out.                             *)
LEMMA ConnectionInv ==
  ASSUME Inv, NEW t \in Threads, Reply(t) \/ \E r \in Requests : Start(t, r)
  PROVE  Inv'
<1>1. Shapes /\ Fits(t) /\ Held(t) /\ pc[t] \in {"idle", "reply"}
  BY Knows DEF Reply, Start, At
<1>2. /\ UNCHANGED <<file, wlock, rlock, flk, ext, was>>
      /\ rows' = rows \/ (\E a : rows' = [rows EXCEPT ![t] = a])
      /\ res' = res \/ (\E a : res' = [res EXCEPT ![t] = a])
      /\ sent' = sent \/ (\E a : sent' = [sent EXCEPT ![t] = a])
      /\ \/ job' = [job EXCEPT ![t] = None] /\ pc' = [pc EXCEPT ![t] = "idle"]
         \/ \E r \in Requests : job' = [job EXCEPT ![t] = r] /\ pc' = [pc EXCEPT ![t] = FirstStep(r)]
  BY DEF Reply, Start, Goto, GotoWith, locks
<1>3. PICK j \in Requests \cup {None}, l \in Locations :
        /\ job' = [job EXCEPT ![t] = j] /\ pc' = [pc EXCEPT ![t] = l]
        /\ j = None <=> l = "idle"
        /\ l \in {"idle", "refuse", "opendir", "read_lock", "write_lock"}
        /\ l = "refuse" => j.op = "bad"
        /\ l = "opendir" => j.op = "list"
        /\ l = "read_lock" => j.op = "download"
        /\ l = "write_lock" => j.op \in Changes
  <2>1. CASE \E r \in Requests : job' = [job EXCEPT ![t] = r] /\ pc' = [pc EXCEPT ![t] = FirstStep(r)]
    BY <2>1, RequestShapes DEF Locations
  <2>2. CASE job' = [job EXCEPT ![t] = None] /\ pc' = [pc EXCEPT ![t] = "idle"]
    BY <2>2 DEF Locations
  <2>3. QED
    BY <1>2, <2>1, <2>2
<1>4. Shapes'
  BY <1>1, <1>2, <1>3 DEF Shapes
<1>5. Fits(t)' /\ Ready(t)'
  BY <1>1, <1>3 DEF Shapes, Fits, At, Ready, InUpload, Opened, AboutDownload, InReadLock
<1>6. Held(t)'
  BY <1>1, <1>2, <1>3 DEF Shapes, Held, InWriteLock, InReadLock
<1>7. \A u \in Threads : u # t => Fits(u)' /\ Held(u)' /\ Ready(u)'
  BY <1>2, <1>3, OthersKeep DEF Goto
<1>8. Alone'
  BY <1>2 DEF Inv, Alone
<1>9. QED
  BY <1>4, <1>5, <1>6, <1>7, <1>8 DEF Inv

(* Locks are taken and given back.                                         *)
LEMMA LockInv ==
  ASSUME Inv, NEW t \in Threads, Acquire(t) \/ Release(t)
  PROVE  Inv'
<1>1. Shapes /\ Fits(t) /\ Held(t) /\ job[t] \in Requests /\ N(t) \in Names
  <2>1. pc[t] \in {"write_lock", "read_lock", "write_unlock", "read_unlock", "miss"}
    BY DEF Acquire, Release, AcquireWrite, AcquireRead, ReleaseWrite, ReleaseRead, At
  <2>2. QED
    BY <2>1, Knows DEF Fits, At, AboutDownload, InReadLock
<1>2. UNCHANGED <<file, flk, ext, res, rows, sent>>
  BY DEF Acquire, Release, AcquireWrite, AcquireRead, ReleaseWrite, ReleaseRead
<1>3. CASE AcquireWrite(t)
  <2>1. /\ pc[t] = "write_lock" /\ pc' = [pc EXCEPT ![t] = job[t].op] /\ UNCHANGED job
        /\ wlock[N(t)] = {} /\ rlock[N(t)] = {}
        /\ wlock' = [wlock EXCEPT ![N(t)] = {t}] /\ UNCHANGED rlock
        /\ was' = [was EXCEPT ![N(t)] = file[N(t)]]
    BY <1>3 DEF AcquireWrite, At, Goto, L!EnterWrite
  <2>2. job[t].op \in Changes
    BY <1>1, <2>1 DEF Fits
  <2>3. Shapes'
    BY <1>1, <1>2, <2>1, <2>2 DEF Shapes, Changes, Locations
  <2>4. Fits(t)' /\ Ready(t)'
    BY <1>1, <2>1, <2>2
       DEF Shapes, Fits, At, Ready, Changes, InUpload, Opened, AboutDownload, InReadLock
  <2>5. Held(t)'
    BY <1>1, <2>1, <2>2 DEF Shapes, Held, N, Changes, InWriteLock, InReadLock
  <2>6. Alone'
    BY <1>1, <2>1 DEF Inv, Alone, Shapes
  <2>7. \A u \in Threads : u # t => Fits(u)' /\ Held(u)' /\ Ready(u)'
    BY <1>1, <1>2, <2>1, OthersKeep DEF Goto, Shapes
  <2>8. QED
    BY <2>3, <2>4, <2>5, <2>6, <2>7 DEF Inv
<1>4. CASE AcquireRead(t)
  <2>1. /\ pc[t] = "read_lock" /\ pc' = [pc EXCEPT ![t] = "map"] /\ UNCHANGED job
        /\ wlock[N(t)] = {} /\ UNCHANGED <<wlock, was>>
        /\ rlock' = [rlock EXCEPT ![N(t)] = @ \cup {t}]
    BY <1>4 DEF AcquireRead, At, Goto, L!EnterRead
  <2>2. job[t].op = "download"
    BY <1>1, <2>1 DEF Fits, AboutDownload
  <2>3. Shapes'
    BY <1>1, <1>2, <2>1 DEF Shapes, Locations
  <2>4. Fits(t)' /\ Ready(t)'
    BY <1>1, <2>1, <2>2
       DEF Shapes, Fits, At, Ready, InUpload, Opened, AboutDownload, InReadLock
  <2>5. Held(t)'
    BY <1>1, <2>1 DEF Shapes, Held, N, InWriteLock, InReadLock
  <2>6. Alone'
    BY <1>1, <2>1 DEF Inv, Alone, Shapes
  <2>7. \A u \in Threads : u # t => Fits(u)' /\ Held(u)' /\ Ready(u)'
    BY <1>1, <1>2, <2>1, OthersKeep DEF Goto, Shapes
  <2>8. QED
    BY <2>3, <2>4, <2>5, <2>6, <2>7 DEF Inv
<1>5. CASE ReleaseWrite(t)
  <2>1. /\ pc[t] = "write_unlock" /\ pc' = [pc EXCEPT ![t] = "reply"] /\ UNCHANGED <<job, rlock>>
        /\ wlock' = [wlock EXCEPT ![N(t)] = {}] /\ t \in wlock[N(t)]
        /\ was' = [was EXCEPT ![N(t)] = Absent]
    BY <1>5 DEF ReleaseWrite, At, Goto, L!LeaveWrite
  <2>2. wlock[N(t)] = {t}
    BY <1>1, <2>1 DEF Inv, Alone
  <2>3. Shapes'
    BY <1>1, <1>2, <2>1 DEF Shapes, Locations
  <2>4. Fits(t)' /\ Ready(t)'
    BY <1>1, <2>1
       DEF Shapes, Fits, At, Ready, InUpload, Opened, AboutDownload, InReadLock
  <2>5. Held(t)'
    BY <1>1, <2>1, <2>2 DEF Shapes, Held, N, InWriteLock, InReadLock
  <2>6. Alone'
    BY <1>1, <2>1 DEF Inv, Alone, Shapes
  <2>7. \A u \in Threads : u # t => Fits(u)' /\ Held(u)' /\ Ready(u)'
    BY <1>1, <1>2, <2>1, <2>2, OthersKeep DEF Goto, Shapes
  <2>8. QED
    BY <2>3, <2>4, <2>5, <2>6, <2>7 DEF Inv
<1>6. CASE ReleaseRead(t)
  <2>1. /\ pc[t] \in {"miss", "read_unlock"} /\ UNCHANGED <<wlock, was>>
        /\ \/ pc' = [pc EXCEPT ![t] = "reply"] /\ job' = job
           \/ pc' = [pc EXCEPT ![t] = "idle"] /\ job' = [job EXCEPT ![t] = None]
        /\ rlock' = [rlock EXCEPT ![N(t)] = @ \ {t}]
    BY <1>6 DEF ReleaseRead, At, Goto, L!LeaveRead
  <2>2. Shapes'
    BY <1>1, <1>2, <2>1 DEF Shapes, Locations
  <2>3. Fits(t)' /\ Ready(t)'
    BY <1>1, <2>1, RequestShapes
       DEF Shapes, Fits, At, Ready, InUpload, Opened, AboutDownload, InReadLock
  <2>4. Held(t)'
    <3>1. \A n \in Names : t \notin wlock'[n] /\ t \notin rlock'[n]
      BY <1>1, <2>1 DEF Shapes, Held, InWriteLock
    <3>2. pc'[t] \in {"reply", "idle"}
      BY <1>1, <2>1 DEF Shapes
    <3>3. QED
      BY <3>1, <3>2 DEF Held, InWriteLock, InReadLock
  <2>5. Alone'
    BY <1>1, <2>1 DEF Inv, Alone, Shapes
  <2>6. \A u \in Threads : u # t => Fits(u)' /\ Held(u)' /\ Ready(u)'
    BY <1>1, <1>2, <2>1, OthersKeep DEF Goto, Shapes
  <2>7. QED
    BY <2>2, <2>3, <2>4, <2>5, <2>6 DEF Inv
<1>7. QED
  BY <1>3, <1>4, <1>5, <1>6 DEF Acquire, Release

(* No step of the server or of another process leaves the invariant.       *)
LEMMA NextInv ==
  ASSUME Inv, [Next]_vars
  PROVE  Inv'
<1>1. ASSUME NEW t \in Threads, Work(t)
      PROVE  Inv'
  BY <1>1, UploadInv, ChangeInv, LookingInv, ConnectionInv, LockInv DEF Work
<1>2. ASSUME NEW t \in Threads, NEW r \in Requests, Start(t, r)
      PROVE  Inv'
  BY <1>2, ConnectionInv
<1>3. ASSUME UNCHANGED <<file, locks, flk, pc, job, res, rows, sent, was>>,
             ext' \in [Names -> FcntlLocks]
      PROVE  Inv'
  <2>1. Shapes'
    BY <1>3 DEF Inv, Shapes, locks
  <2>2. ASSUME NEW t \in Threads
        PROVE  Fits(t)' /\ Held(t)' /\ Ready(t)'
    <3>1. Fits(t)'
      BY <1>3 DEF Inv, Fits, At
    <3>2. Held(t)' /\ Ready(t)'
      BY <1>3 DEF Inv, Held, Ready, locks, N
    <3>3. QED
      BY <3>1, <3>2
  <2>3. Alone'
    BY <1>3 DEF Inv, Alone, locks
  <2>4. QED
    BY <2>1, <2>2, <2>3 DEF Inv
<1>4. ASSUME NEW n \in Names, (\E k \in {"read", "write"} : ExternalLock(n, k)) \/ ExternalUnlock(n)
      PROVE  Inv'
  BY <1>3, <1>4 DEF Inv, Shapes, ExternalLock, ExternalUnlock, FcntlLocks
<1>5. CASE UNCHANGED vars
  BY <1>3, <1>5 DEF vars, locks, Inv, Shapes
<1>6. QED
  BY <1>1, <1>2, <1>4, <1>5 DEF Next

(* What the invariant says of the properties the runs check.               *)
LEMMA InvTypes == Inv => TypeOK
BY RequestShapes DEF Inv, Shapes, TypeOK, Fits, Held

(* Every handler releases the lock it took, once, on every way through it, *)
(* and works on its file only while it holds the lock it needs.            *)
THEOREM LocksMatchPlaces == Spec => []TypeOK
<1>1. Inv /\ [Next]_vars => Inv'
  BY NextInv
<1>2. QED
  BY <1>1, InitInv, InvTypes, PTL DEF Spec

-----------------------------------------------------------------------------
(* A worker changes its own entries only.                                  *)
LEMMA OnlyItself ==
  ASSUME Shapes, NEW t \in Threads, NEW u \in Threads, u # t, Work(u)
  PROVE  /\ pc'[t] = pc[t] /\ job'[t] = job[t] /\ res'[t] = res[t]
         /\ rows'[t] = rows[t] /\ sent'[t] = sent[t]
<1> USE DEF Shapes, Goto, GotoWith
<1>1. CASE Refuse(u) \/ Reply(u)
  BY <1>1 DEF Refuse, Reply
<1>2. CASE Acquire(u) \/ Release(u)
  BY <1>2 DEF Acquire, AcquireWrite, AcquireRead, Release, ReleaseWrite, ReleaseRead
<1>3. CASE Upload(u)
  BY <1>3 DEF Upload, OpenForUpload, LockForUpload, WriteSome, WriteAll, WriteFails, Sync,
              CloseUpload
<1>4. CASE Download(u)
  <2>1. /\ \E l : pc' = [pc EXCEPT ![u] = l]
        /\ UNCHANGED <<job, rows>>
        /\ res' = res \/ (\E a : res' = [res EXCEPT ![u] = a])
        /\ sent' = sent \/ (\E a : sent' = [sent EXCEPT ![u] = a])
    BY <1>4, DownloadStep
  <2>2. QED
    BY <2>1
<1>5. CASE List(u)
  BY <1>5, ListStep
<1>6. CASE Unlink(u) \/ ChangeMode(u)
  <2>1. UNCHANGED <<job, rows, sent>> /\ \E a : GotoWith(u, "write_unlock", a)
    BY <1>6 DEF Unlink, ChangeMode
  <2>2. QED
    BY <2>1
<1>7. QED
  BY <1>1, <1>2, <1>3, <1>4, <1>5, <1>6 DEF Work

(* Where a worker is after a step that is not one of its upload.           *)
LEMMA OutsideUpload ==
  ASSUME Inv, NEW t \in Threads, Work(t), ~Upload(t)
  PROVE  pc'[t] \notin Opened \cup {"close_write"}
<1>1. Shapes /\ Fits(t)
  BY Knows
<1>2. CASE Refuse(t) \/ Reply(t) \/ Release(t) \/ AcquireRead(t) \/ Unlink(t) \/ ChangeMode(t)
  <2>1. \E l \in {"reply", "idle", "map", "write_unlock"} : pc' = [pc EXCEPT ![t] = l]
    BY <1>2 DEF Refuse, Reply, Release, ReleaseWrite, ReleaseRead, AcquireRead, Unlink,
                ChangeMode, Goto, GotoWith
  <2>2. QED
    BY <1>1, <2>1 DEF Shapes, Opened
<1>3. CASE AcquireWrite(t)
  BY <1>1, <1>3 DEF AcquireWrite, Goto, Shapes, Fits, At, Opened, Changes
<1>4. CASE Download(t)
  BY <1>1, <1>4, DownloadStep DEF Shapes, Opened
<1>5. CASE List(t)
  BY <1>1, <1>5, ListStep DEF Shapes, Opened
<1>6. QED
  BY <1>2, <1>3, <1>4, <1>5 DEF Work, Acquire

(* A step of another worker cannot touch the fcntl lock under an upload:   *)
(* only a worker inside the file's in-process lock has the file open.      *)
LEMMA FcntlLockKept ==
  ASSUME Inv, UploadKeepsFcntlLock, [Next]_vars
  PROVE  UploadKeepsFcntlLock'
<1> DEFINE Written == {"write", "writing", "fsync"}
<1> SUFFICES ASSUME NEW t \in Threads, pc'[t] \in Written
             PROVE  flk'[N(t)'] = "write"
  BY DEF UploadKeepsFcntlLock
<1>1. Shapes /\ (pc[t] \in Written => flk[N(t)] = "write" /\ pc[t] \in InWriteLock)
  BY DEF Inv, UploadKeepsFcntlLock, InWriteLock
<1>2. ASSUME NEW u \in Threads, Work(u), u # t
      PROVE  flk'[N(t)'] = "write"
  <2>1. pc'[t] = pc[t] /\ job'[t] = job[t]
    BY <1>1, <1>2, OnlyItself
  <2>2. \/ UNCHANGED flk
        \/ pc[u] \in InWriteLock \cup InReadLock /\ \E k : flk' = [flk EXCEPT ![N(u)] = k]
    BY <1>2
       DEF Work, Refuse, Reply, Acquire, AcquireWrite, AcquireRead, Release, ReleaseWrite,
           ReleaseRead, Upload, OpenForUpload, LockForUpload, WriteSome, WriteAll, WriteFails,
           Sync, CloseUpload, Download, MapFile, LockForDownload, SendFile, UnmapAndClose,
           List, OpenDir, StatEntry, EndList, Unlink, ChangeMode, InWriteLock, InReadLock, At
  <2>3. N(t)' = N(t) /\ flk[N(t)] = "write" /\ pc[t] \in InWriteLock
    BY <1>1, <2>1 DEF N
  <2>4. pc[u] \in InWriteLock \cup InReadLock => N(u) # N(t) /\ N(t) \in Names
    BY <1>2, <2>3, Exclusion
  <2>5. QED
    BY <1>1, <2>2, <2>3, <2>4 DEF Shapes
<1>3. CASE Work(t)
  <2>1. Upload(t)
    BY <1>3, OutsideUpload DEF Opened
  <2>2. N(t) \in Names
    BY <2>1, Knows
       DEF Upload, OpenForUpload, LockForUpload, WriteSome, WriteAll, WriteFails, Sync,
           CloseUpload, At, Fits, InUpload, Opened, Changes
  <2>3. QED
    BY <1>1, <2>1, <2>2
       DEF Upload, OpenForUpload, LockForUpload, WriteSome, WriteAll, WriteFails, Sync,
           CloseUpload, At, Goto, GotoWith, Shapes, N
<1>4. ASSUME NEW u \in Threads, NEW r \in Requests, Start(u, r)
      PROVE  flk'[N(t)'] = "write"
  <2>1. u # t
    BY <1>1, <1>4, RequestShapes DEF Start, Goto, Shapes
  <2>2. QED
    BY <1>1, <1>4, <2>1 DEF Start, Goto, Shapes, N
<1>5. CASE UNCHANGED <<pc, job, flk>>
  BY <1>1, <1>5 DEF N
<1>6. QED
  BY <1>2, <1>3, <1>4, <1>5 DEF Next, vars, ExternalLock, ExternalUnlock

(* An upload keeps the process's fcntl lock while it writes and syncs,     *)
(* although any close of the file by any worker would drop it.             *)
THEOREM FcntlLockHeld == Spec => []UploadKeepsFcntlLock
<1>1. Init => UploadKeepsFcntlLock
  BY DEF Init, UploadKeepsFcntlLock
<1>2. Inv /\ UploadKeepsFcntlLock /\ [Next]_vars => Inv' /\ UploadKeepsFcntlLock'
  BY NextInv, FcntlLockKept
<1>3. QED
  BY <1>1, <1>2, InitInv, PTL DEF Spec

-----------------------------------------------------------------------------
(* When no system call fails only an upload under way has a file that is   *)
(* not whole, and no answer carries more than a whole file.                *)
WholeAtRest(n) ==
  file[n] # Absent /\ (\A t \in wlock[n] : pc[t] # "writing") => file[n].body.part = "all"

SaysWhole(t) ==
  /\ pc[t] \in {"fcntl_read", "send"} => res[t].body.part = "all"
  /\ pc[t] \in {"reply", "miss", "close_write", "write_unlock"} => "body" \notin DOMAIN res[t]
  /\ sent[t] # None /\ "body" \in DOMAIN sent[t] => sent[t].body.part = "all"

NothingTorn == (\A n \in Names : WholeAtRest(n)) /\ \A t \in Threads : SaysWhole(t)

(* Answers without a body.                                                 *)
LEMMA NoBody ==
  /\ "body" \notin DOMAIN Ok
  /\ \A c : "body" \notin DOMAIN Err(c)
  /\ \A seen : "body" \notin DOMAIN Listing(seen)
BY DEF Ok, Err, Listing

(* A file is at rest and whole, or its upload is under way.                *)
LEMMA FilesStayWhole ==
  ASSUME Inv, ~IoMayFail, NEW t \in Threads, Work(t), NEW n \in Names, WholeAtRest(n)
  PROVE  WholeAtRest(n)'
<1>1. Shapes /\ Fits(t) /\ Held(t) /\ (\A u \in Threads : u # t => pc'[u] = pc[u])
  BY Knows, OnlyItself
<1>2. CASE UNCHANGED <<file, wlock>> /\ ~(pc[t] = "writing" /\ pc'[t] # "writing")
  <2>1. \A u \in Threads : pc[u] = "writing" => pc'[u] = "writing"
    BY <1>1, <1>2
  <2>2. QED
    BY <1>1, <1>2, <2>1 DEF WholeAtRest, Shapes
<1>3. CASE AcquireWrite(t)
  <2>1. UNCHANGED file /\ \A m \in Names : m = N(t) \/ wlock'[m] = wlock[m]
    BY <1>1, <1>3 DEF AcquireWrite, L!EnterWrite, Shapes
  <2>2. N(t) = n => wlock[n] = {}
    BY <1>3 DEF AcquireWrite, L!EnterWrite
  <2>3. \A u \in Threads : pc[u] = "writing" => pc'[u] = "writing"
    BY <1>1, <1>3 DEF AcquireWrite, At
  <2>4. QED
    BY <1>1, <2>1, <2>2, <2>3 DEF WholeAtRest, Shapes
<1>4. CASE ReleaseWrite(t)
  <2>1. UNCHANGED file /\ \A m \in Names : m = N(t) \/ wlock'[m] = wlock[m]
    BY <1>1, <1>4 DEF ReleaseWrite, L!LeaveWrite, Shapes
  <2>2. N(t) = n => wlock[n] = {t} /\ pc[t] # "writing"
    BY <1>4 DEF ReleaseWrite, L!LeaveWrite, At, Inv, Alone
  <2>3. \A u \in Threads : pc[u] = "writing" => pc'[u] = "writing"
    BY <1>1, <1>4 DEF ReleaseWrite, At
  <2>4. QED
    BY <1>1, <2>1, <2>2, <2>3 DEF WholeAtRest, Shapes
<1>5. CASE OpenForUpload(t) \/ WriteSome(t) \/ WriteAll(t) \/ Unlink(t) \/ ChangeMode(t)
  <2>1. N(t) \in Names /\ UNCHANGED wlock /\ pc[t] \in InWriteLock
        /\ (pc[t] \in {"write", "writing"} => file[N(t)] \in Files)
    BY <1>5, Knows
       DEF OpenForUpload, WriteSome, WriteAll, Unlink, ChangeMode, At, Fits, InUpload, Opened,
           Changes, InWriteLock, Ready, locks
  <2>2. wlock[N(t)] = {t}
    BY <1>1, <2>1 DEF Held, Inv, Alone
  <2>3. CASE n # N(t)
    <3>1. file'[n] = file[n] /\ t \notin wlock[n]
      BY <1>1, <1>5, <2>1, <2>3
         DEF OpenForUpload, WriteSome, WriteAll, PutBody, Unlink, ChangeMode, Shapes, Held
    <3>2. QED
      BY <1>1, <2>1, <3>1 DEF WholeAtRest, Shapes
  <2>4. CASE n = N(t)
    <3>1. CASE OpenForUpload(t) \/ Unlink(t)
      <4>1. /\ pc[t] # "writing"
            /\ \/ file' = file
               \/ file' = [file EXCEPT ![n] = Absent]
               \/ \E m : file' = [file EXCEPT ![n] = [body |-> Whole(Empty), mode |-> m]]
        BY <2>4, <3>1 DEF OpenForUpload, Unlink, At
      <4>2. file'[n] = file[n] \/ file'[n] = Absent \/ file'[n].body = Whole(Empty)
        BY <1>1, <4>1 DEF Shapes
      <4>3. QED
        BY <2>1, <2>2, <2>4, <4>1, <4>2 DEF WholeAtRest, Whole
    <3>2. CASE ChangeMode(t)
      <4>1. /\ pc[t] # "writing"
            /\ \/ file' = file
               \/ file[n] # Absent /\ file' = [file EXCEPT ![n].mode = job[t].mode]
        BY <2>4, <3>2 DEF ChangeMode, At
      <4>2. file'[n] # Absent => file[n] # Absent /\ file'[n].body = file[n].body
        BY <1>1, <4>1 DEF Files, Shapes
      <4>3. QED
        BY <2>1, <2>2, <2>4, <4>1, <4>2 DEF WholeAtRest
    <3>3. CASE WriteAll(t)
      <4>1. file'[n].body = Whole(job[t].data)
        BY <1>1, <2>1, <2>4, <3>3 DEF WriteAll, PutBody, At, Shapes, Files
      <4>2. QED
        BY <4>1 DEF WholeAtRest, Whole
    <3>4. CASE WriteSome(t)
      <4>1. pc'[t] = "writing"
        BY <1>1, <3>4 DEF WriteSome, Goto, Shapes
      <4>2. QED
        BY <2>1, <2>2, <2>4, <4>1 DEF WholeAtRest
    <3>5. QED
      BY <1>5, <3>1, <3>2, <3>3, <3>4
  <2>5. QED
    BY <2>3, <2>4
<1>6. CASE Refuse(t) \/ Reply(t) \/ AcquireRead(t) \/ ReleaseRead(t)
            \/ LockForUpload(t) \/ Sync(t) \/ CloseUpload(t)
  BY <1>2, <1>6 DEF Refuse, Reply, AcquireRead, ReleaseRead, L!EnterRead, L!LeaveRead,
                    LockForUpload, Sync, CloseUpload, At, locks
<1>7. CASE Download(t) \/ List(t)
  BY <1>1, <1>2, <1>7, DownloadStep, ListStep DEF locks
<1>8. CASE WriteFails(t)
  BY <1>8 DEF WriteFails
<1>9. QED
  BY <1>3, <1>4, <1>5, <1>6, <1>7, <1>8 DEF Work, Acquire, Release, Upload

(* A step that says nothing, and is not about to say a body, stays whole.  *)
LEMMA QuietStep ==
  ASSUME NEW t \in Threads, SaysWhole(t), sent'[t] = sent[t],
         pc'[t] \notin {"fcntl_read", "send"},
         pc'[t] \in {"reply", "miss", "close_write", "write_unlock"} =>
            "body" \notin DOMAIN res'[t]
  PROVE  SaysWhole(t)'
BY DEF SaysWhole

(* What a worker is about to say stays whole while it says it.             *)
LEMMA AnswersStayWhole ==
  ASSUME Inv, ~IoMayFail, NothingTorn, NEW t \in Threads, Work(t)
  PROVE  SaysWhole(t)'
<1>1. Shapes /\ Fits(t) /\ Held(t) /\ SaysWhole(t)
  BY Knows DEF NothingTorn
<1>2. ASSUME pc[t] \in InReadLock, file[N(t)] # Absent
      PROVE  file[N(t)].body.part = "all"
  <2>1. N(t) \in Names /\ t \in rlock[N(t)]
    BY <1>2, Knows DEF Fits, Held, AboutDownload, InReadLock, At
  <2>2. wlock[N(t)] = {}
    BY <2>1, <1>1 DEF Inv, Alone, Shapes
  <2>3. QED
    BY <1>2, <2>1, <2>2 DEF NothingTorn, WholeAtRest
<1>3. CASE MapFile(t)
  <2>1. sent'[t] = sent[t] /\ pc[t] \in InReadLock
    BY <1>3, MapStep DEF MapFile, At, InReadLock
  <2>2. \/ pc'[t] = "fcntl_read" /\ res'[t] = FileData(file[N(t)].body) /\ CanRead(file[N(t)])
        \/ pc'[t] = "miss" /\ \E c \in {404, 500} : res'[t] = Err(c)
    BY <1>1, <1>3, MapStep DEF Shapes
  <2>3. CASE pc'[t] = "fcntl_read" /\ res'[t] = FileData(file[N(t)].body) /\ CanRead(file[N(t)])
    BY <1>1, <1>2, <2>1, <2>3 DEF SaysWhole, CanRead, FileData
  <2>4. CASE pc'[t] = "miss" /\ \E c \in {404, 500} : res'[t] = Err(c)
    BY <1>1, <2>1, <2>4, NoBody, QuietStep
  <2>5. QED
    BY <2>2, <2>3, <2>4
<1>4. CASE LockForDownload(t) \/ UnmapAndClose(t)
  BY <1>1, <1>4 DEF LockForDownload, UnmapAndClose, At, Goto, SaysWhole, Shapes
<1>5. CASE SendFile(t)
  <2>1. pc[t] = "send" /\ pc'[t] = "unmap" /\ sent'[t].body.part = "all"
    BY <1>1, <1>2, <1>5 DEF SendFile, At, GotoWith, Goto, Shapes, FileData, InReadLock, SaysWhole
  <2>2. QED
    BY <2>1 DEF SaysWhole
<1>6. CASE Refuse(t)
  BY <1>1, <1>6, NoBody DEF Refuse, GotoWith, Goto, SaysWhole, Shapes
<1>7. CASE Reply(t)
  BY <1>1, <1>7 DEF Reply, At, GotoWith, Goto, SaysWhole, Shapes
<1>8. CASE Acquire(t)
  BY <1>1, <1>8 DEF Acquire, AcquireWrite, AcquireRead, At, Fits, Changes, Goto, SaysWhole, Shapes
<1>9. CASE Release(t)
  BY <1>1, <1>9 DEF Release, ReleaseWrite, ReleaseRead, At, Goto, SaysWhole, Shapes
<1>10. CASE Upload(t)
  <2>1. CASE OpenForUpload(t)
    <3>1. /\ sent' = sent
          /\ \/ pc' = [pc EXCEPT ![t] = "fcntl_write"]
             \/ pc' = [pc EXCEPT ![t] = "write_unlock"] /\ res' = [res EXCEPT ![t] = Err(500)]
      BY <2>1 DEF OpenForUpload, Goto, GotoWith
    <3>2. QED
      <4>1. /\ sent'[t] = sent[t]
            /\ \/ pc'[t] = "fcntl_write"
               \/ pc'[t] = "write_unlock" /\ res'[t] = Err(500)
        BY <1>1, <3>1 DEF Shapes
      <4>2. QED
        BY <1>1, <4>1, NoBody, QuietStep
  <2>2. CASE LockForUpload(t) \/ WriteSome(t) \/ WriteAll(t) \/ WriteFails(t)
    BY <1>1, <2>2
       DEF LockForUpload, WriteSome, WriteAll, WriteFails, Goto, GotoWith, SaysWhole, Shapes
  <2>3. CASE Sync(t) \/ CloseUpload(t)
    BY <1>1, <2>3, NoBody DEF Sync, CloseUpload, At, Goto, GotoWith, SaysWhole, Shapes
  <2>4. QED
    BY <1>10, <2>1, <2>2, <2>3 DEF Upload
<1>11. CASE List(t)
  BY <1>1, <1>11, NoBody
     DEF List, OpenDir, StatEntry, EndList, At, Goto, GotoWith, SaysWhole, Shapes
<1>12. CASE Unlink(t) \/ ChangeMode(t)
  <2>1. /\ sent' = sent
        /\ \E a \in {Ok, Err(404)} : GotoWith(t, "write_unlock", a)
    BY <1>12 DEF Unlink, ChangeMode
  <2>2. pc'[t] = "write_unlock" /\ res'[t] \in {Ok, Err(404)}
    BY <1>1, <2>1 DEF GotoWith, Goto, Shapes
  <2>3. QED
    BY <1>1, <2>1, <2>2, NoBody, QuietStep
<1>13. QED
  BY <1>3, <1>4, <1>5, <1>6, <1>7, <1>8, <1>9, <1>10, <1>11, <1>12 DEF Work, Download

(* Unless a system call fails, no download shows part of an upload.        *)
THEOREM DownloadsAreWhole ==
  ASSUME ~IoMayFail
  PROVE  Spec => []DownloadsWhole
<1>1. Init => NothingTorn
  BY DEF Init, NothingTorn, WholeAtRest, SaysWhole
<1>2. Inv /\ NothingTorn /\ [Next]_vars => NothingTorn'
  <2> SUFFICES ASSUME Inv, NothingTorn, [Next]_vars PROVE NothingTorn'
    OBVIOUS
  <2>1. ASSUME NEW t \in Threads, Work(t)
        PROVE  NothingTorn'
    <3>1. ASSUME NEW u \in Threads, u # t
          PROVE  SaysWhole(u)'
      BY <2>1, <3>1, OnlyItself DEF Inv, NothingTorn, SaysWhole
    <3>2. QED
      BY <2>1, <3>1, FilesStayWhole, AnswersStayWhole DEF NothingTorn
  <2>2. ASSUME NEW t \in Threads, NEW r \in Requests, Start(t, r)
        PROVE  NothingTorn'
    <3>1. /\ UNCHANGED <<file, wlock, res>> /\ pc[t] = "idle" /\ pc'[t] = FirstStep(r) /\ sent'[t] = None
          /\ \A u \in Threads : u # t => pc'[u] = pc[u] /\ sent'[u] = sent[u]
      BY <2>2 DEF Start, At, Goto, locks, Inv, Shapes
    <3>2. \A u \in Threads : SaysWhole(u)'
      BY <3>1, RequestShapes DEF NothingTorn, SaysWhole
    <3>3. \A u \in Threads : pc[u] = "writing" => pc'[u] = "writing"
      BY <3>1
    <3>4. \A n \in Names : WholeAtRest(n)'
      BY <3>1, <3>3 DEF NothingTorn, WholeAtRest, Inv, Shapes
    <3>5. QED
      BY <3>2, <3>4 DEF NothingTorn
  <2>3. CASE UNCHANGED <<file, wlock, pc, res, sent>>
    BY <2>3 DEF NothingTorn, WholeAtRest, SaysWhole
  <2>4. QED
    BY <2>1, <2>2, <2>3 DEF Next, vars, locks, ExternalLock, ExternalUnlock
<1>3. NothingTorn => DownloadsWhole
  BY DEF NothingTorn, SaysWhole, DownloadsWhole
<1>4. Inv /\ [Next]_vars => Inv'
  BY NextInv
<1>5. QED
  BY <1>1, <1>2, <1>3, <1>4, InitInv, PTL DEF Spec
=============================================================================
