---------------------------- MODULE AtomicProofs ----------------------------
(***************************************************************************)
(* Proof that Handlers implements AtomicStore, for any workers, names,     *)
(* contents and requests, whether or not system calls fail.                *)
(***************************************************************************)
EXTENDS HandlersProofs

-----------------------------------------------------------------------------
(* What the refinement needs to know besides Inv: how far an upload has    *)
(* come, that a download shows the file it has mapped, and what a listing  *)
(* has collected.                                                          *)
Wrote(t, b) ==
  /\ CanWrite(was[N(t)])
  /\ file[N(t)] = [body |-> b, mode |-> ModeAfterUpload(was[N(t)])]

Outcome(t) ==
  \/ res[t] = Ok /\ Wrote(t, Whole(job[t].data))
  \/ /\ res[t] = Err(500) /\ IoMayFail
     /\ \E b \in Prefixes(job[t].data) : Wrote(t, b)
  \/ /\ res[t] = Err(500) /\ file[N(t)] = was[N(t)]
     /\ ~CanWrite(was[N(t)]) \/ IoMayFail

Progress(t) ==
  /\ At(t, "upload") => file[N(t)] = was[N(t)]
  /\ pc[t] \in {"fcntl_write", "write"} => Wrote(t, Whole(Empty))
  /\ At(t, "writing") => job[t].data # Empty /\ Wrote(t, Part(job[t].data))
  /\ At(t, "fsync") => Wrote(t, Whole(job[t].data))
  /\ pc[t] \in {"close_write", "write_unlock"} /\ job[t].op = "upload" => Outcome(t)

Mapped(t) ==
  pc[t] \in {"fcntl_read", "send"} =>
    file[N(t)] # Absent /\ res[t] = FileData(file[N(t)].body)

Answered(t) ==
  pc[t] \in {"reply", "miss", "fcntl_read", "send", "write_unlock"} => res[t] \in Answers

Collected(t) ==
  /\ rows[t] # <<>> => job[t] # None /\ job[t].op = "list" /\ pc[t] \in {"stat", "reply"}
  /\ DOMAIN rows[t] \subseteq Names
  /\ rows[t] \in [DOMAIN rows[t] -> Files \cup {Absent}]

Exact ==
  /\ rows = [t \in Threads |-> rows[t]] /\ sent = [t \in Threads |-> sent[t]]
  /\ \A t \in Threads : Progress(t) /\ Mapped(t) /\ Answered(t) /\ Collected(t)

(* Nobody else's step touches a file that a worker has locked.             *)
LEMMA FilesOfOthers ==
  ASSUME Inv, NEW t \in Threads, NEW u \in Threads, u # t, Work(t),
         pc[u] \in InWriteLock \cup InReadLock
  PROVE  /\ N(u) \in Names /\ file'[N(u)] = file[N(u)]
         /\ pc[u] \in InWriteLock => was'[N(u)] = was[N(u)]
<1>1. Shapes /\ Fits(t) /\ Held(u) /\ N(u) \in Names
  BY Knows DEF Fits, At, InWriteLock, InReadLock, AboutDownload, InUpload, Opened, Changes
<1>2. pc[t] \in InWriteLock => N(t) # N(u)
  BY Exclusion
<1>3. CASE UNCHANGED <<file, was>>
  BY <1>1, <1>3
<1>4. CASE AcquireWrite(t) \/ ReleaseWrite(t)
  <2>1. UNCHANGED file /\ \E f : was' = [was EXCEPT ![N(t)] = f]
    BY <1>4 DEF AcquireWrite, ReleaseWrite
  <2>2. pc[u] \in InWriteLock => N(t) # N(u)
    <3>1. CASE AcquireWrite(t)
      BY <1>1, <3>1 DEF AcquireWrite, L!EnterWrite, Held
    <3>2. CASE ReleaseWrite(t)
      BY <1>2, <3>2 DEF ReleaseWrite, At, InWriteLock
    <3>3. QED
      BY <1>4, <3>1, <3>2
  <2>3. QED
    BY <1>1, <2>1, <2>2 DEF Shapes
<1>5. CASE OpenForUpload(t) \/ WriteSome(t) \/ WriteAll(t) \/ Unlink(t) \/ ChangeMode(t)
  <2>1. N(u) # N(t) /\ was' = was
    BY <1>2, <1>5 DEF OpenForUpload, WriteSome, WriteAll, Unlink, ChangeMode, At, InWriteLock
  <2>2. file'[N(u)] = file[N(u)]
    BY <1>1, <1>5, <2>1 DEF OpenForUpload, WriteSome, WriteAll, PutBody, Unlink, ChangeMode, Shapes
  <2>3. QED
    BY <1>1, <2>1, <2>2
<1>6. UNCHANGED <<file, was>> \/ AcquireWrite(t) \/ ReleaseWrite(t) \/ OpenForUpload(t)
        \/ WriteSome(t) \/ WriteAll(t) \/ Unlink(t) \/ ChangeMode(t)
  <2>1. CASE Download(t) \/ List(t)
    BY <1>1, <2>1, DownloadStep, ListStep
  <2>2. QED
    BY <2>1 DEF Work, Refuse, Reply, Acquire, AcquireRead, Release, ReleaseRead, Upload,
                LockForUpload, WriteFails, Sync, CloseUpload
<1>7. QED
  BY <1>1, <1>3, <1>4, <1>5, <1>6

(* What holds of a worker goes on while another one works.                 *)
LEMMA OthersExact ==
  ASSUME Inv, Exact, NEW t \in Threads, NEW u \in Threads, u # t, Work(t)
  PROVE  Progress(u)' /\ Mapped(u)' /\ Answered(u)' /\ Collected(u)'
<1>1. /\ pc'[u] = pc[u] /\ job'[u] = job[u] /\ res'[u] = res[u]
      /\ rows'[u] = rows[u] /\ N(u)' = N(u)
  BY OnlyItself DEF Inv, N
<1>2. Progress(u) /\ Mapped(u) /\ Answered(u) /\ Collected(u) /\ Fits(u)
  BY DEF Inv, Exact
<1>3. Progress(u)'
  <2>1. CASE pc[u] \in InWriteLock
    <3>1. file'[N(u)] = file[N(u)] /\ was'[N(u)] = was[N(u)]
      BY <2>1, FilesOfOthers
    <3>2. (\A b : Wrote(u, b)' = Wrote(u, b)) /\ Outcome(u)' = Outcome(u)
      BY <1>1, <3>1 DEF Wrote, Outcome
    <3>3. QED
      BY <1>1, <1>2, <3>1, <3>2 DEF Progress, At
  <2>2. CASE pc[u] \notin InWriteLock
    BY <1>1, <2>2 DEF Progress, At, InWriteLock
  <2>3. QED
    BY <2>1, <2>2
<1>4. Mapped(u)'
  BY <1>1, <1>2, FilesOfOthers DEF Mapped, InReadLock
<1>5. Answered(u)' /\ Collected(u)'
  BY <1>1, <1>2 DEF Answered, Collected
<1>6. QED
  BY <1>3, <1>4, <1>5

(* The answers a handler gives.                                            *)
LEMMA GivenAnswers ==
  /\ Ok \in Answers
  /\ \A c \in {400, 403, 404, 500} : Err(c) \in Answers
  /\ \A b \in Bodies : FileData(b) \in Answers
  /\ \A seen \in [Names -> Files \cup {Absent}] : Listing(seen) \in Answers
  /\ None \notin Answers
  /\ Ok # Err(500)
BY FileServiceAssumption DEF Answers, Ok, Err

(* The steps of an upload.                                                 *)
LEMMA UploadExact ==
  ASSUME Inv, Exact, NEW t \in Threads, Upload(t)
  PROVE  Progress(t)' /\ Answered(t)' /\ Mapped(t)'
<1>1. /\ Shapes /\ job[t] \in Requests /\ job[t].op = "upload" /\ N(t) \in Names
      /\ job[t].data \in Data \cup {Empty} /\ Progress(t) /\ pc[t] \in InUpload
      /\ Ready(t)
  <2>1. pc[t] \in InUpload
    BY DEF Upload, OpenForUpload, LockForUpload, WriteSome, WriteAll, WriteFails, Sync,
           CloseUpload, At, InUpload, Opened
  <2>2. job[t].op = "upload" /\ ~At(t, "idle")
    BY <2>1, Knows DEF Fits, InUpload, Opened, At
  <2>3. QED
    BY <2>1, <2>2, Knows, RequestShapes DEF Changes, Exact
<1>n. PICK n \in Names : n = N(t)
  BY <1>1
<1>2. job' = job /\ was' = was /\ N(t)' = n
  BY <1>n DEF Upload, OpenForUpload, LockForUpload, WriteSome, WriteAll, WriteFails, Sync,
              CloseUpload, N
<1> DEFINE d == job[t].data
           As(b) == [body |-> b, mode |-> ModeAfterUpload(was[n])]
<1>3. Empty \in Data \cup {Empty} /\ Whole(Empty) \in Prefixes(d) /\ Whole(d) \in Prefixes(d)
      /\ (d # Empty => Part(d) \in Prefixes(d))
  BY DEF Prefixes
<1>4. CASE OpenForUpload(t)
  <2>1. /\ pc[t] = "upload" /\ file[n] = was[n]
        /\ \/ /\ CanWrite(was[n]) /\ file' = [file EXCEPT ![n] = As(Whole(Empty))]
              /\ pc' = [pc EXCEPT ![t] = "fcntl_write"]
           \/ /\ ~CanWrite(was[n]) \/ IoMayFail
              /\ file' = file /\ pc' = [pc EXCEPT ![t] = "write_unlock"]
              /\ res' = [res EXCEPT ![t] = Err(500)]
    BY <1>1, <1>4, <1>n DEF OpenForUpload, At, Goto, GotoWith, Progress
  <2> HIDE DEF As
  <2>2. \/ /\ CanWrite(was[n]) /\ file'[n] = As(Whole(Empty)) /\ pc'[t] = "fcntl_write"
        \/ /\ ~CanWrite(was[n]) \/ IoMayFail
           /\ file'[n] = was[n] /\ pc'[t] = "write_unlock" /\ res'[t] = Err(500)
    BY <1>1, <2>1 DEF Shapes
  <2>3. QED
    BY <1>2, <2>2, GivenAnswers DEF Progress, Outcome, Wrote, Answered, Mapped, At, As
<1>5. CASE LockForUpload(t)
  <2>1. /\ file' = file /\ Wrote(t, Whole(Empty))
        /\ \/ pc'[t] = "write"
           \/ IoMayFail /\ pc'[t] = "write_unlock" /\ res'[t] = Err(500)
    BY <1>1, <1>5 DEF LockForUpload, At, Goto, GotoWith, Progress, Shapes
  <2>2. Wrote(t, Whole(Empty))'
    BY <1>2, <1>n, <2>1 DEF Wrote
  <2>3. QED
    BY <1>2, <1>3, <2>1, <2>2, GivenAnswers DEF Progress, Outcome, Answered, Mapped, At
<1>6. CASE WriteSome(t) \/ WriteAll(t)
  <2>1. \E b \in {Whole(Empty), Part(d)} : Wrote(t, b)
    BY <1>1, <1>6 DEF WriteSome, WriteAll, At, Progress
  <2>2. \/ PutBody(n, Part(d)) /\ d # Empty /\ pc'[t] = "writing"
        \/ PutBody(n, Whole(d)) /\ pc'[t] = "fsync"
    BY <1>1, <1>6, <1>n DEF WriteSome, WriteAll, Goto, Shapes
  <2>3. ASSUME NEW b, PutBody(n, b)
        PROVE  Wrote(t, b)'
    BY <1>1, <1>2, <1>n, <2>1, <2>3 DEF PutBody, Wrote, Shapes
  <2>4. QED
    BY <1>2, <2>2, <2>3 DEF Progress, Answered, Mapped, At
<1>7. CASE WriteFails(t)
  <2>1. /\ file' = file /\ IoMayFail /\ pc'[t] = "close_write" /\ res'[t] = Err(500)
        /\ \E b \in Prefixes(d) : Wrote(t, b)
    BY <1>1, <1>3, <1>7 DEF WriteFails, Goto, GotoWith, Progress, Shapes, At
  <2>2. \A b : Wrote(t, b) => Wrote(t, b)'
    BY <1>2, <1>n, <2>1 DEF Wrote
  <2>3. QED
    BY <1>2, <2>1, <2>2 DEF Progress, Outcome, Answered, Mapped, At
<1>8. CASE Sync(t)
  <2>1. /\ file' = file /\ pc'[t] = "close_write" /\ res'[t] = Ok /\ Wrote(t, Whole(d))
    BY <1>1, <1>8 DEF Sync, Goto, GotoWith, Progress, Shapes, At
  <2>2. Wrote(t, Whole(d))'
    BY <1>2, <1>n, <2>1 DEF Wrote
  <2>3. QED
    BY <1>2, <2>1, <2>2 DEF Progress, Outcome, Answered, Mapped, At
<1>9. CASE CloseUpload(t)
  <2>1. /\ file' = file /\ res' = res /\ pc'[t] = "write_unlock" /\ Outcome(t)
    BY <1>1, <1>9 DEF CloseUpload, Goto, Progress, Shapes, At
  <2>2. (\A b : Wrote(t, b)' = Wrote(t, b)) /\ Outcome(t)'
    BY <1>2, <1>n, <2>1 DEF Wrote, Outcome
  <2>3. res'[t] \in Answers
    BY <2>1, GivenAnswers DEF Outcome
  <2>4. QED
    BY <1>2, <2>1, <2>2, <2>3 DEF Progress, Answered, Mapped, At
<1>10. QED
  BY <1>4, <1>5, <1>6, <1>7, <1>8, <1>9 DEF Upload

(* The steps of the other handlers.                                        *)
LEMMA ChangeExact ==
  ASSUME Inv, Exact, NEW t \in Threads, Unlink(t) \/ ChangeMode(t)
  PROVE  Progress(t)' /\ Answered(t)' /\ Mapped(t)'
<1>1. /\ Shapes /\ pc[t] \in {"delete", "chmod"} /\ job[t].op = pc[t] /\ job' = job
      /\ pc' = [pc EXCEPT ![t] = "write_unlock"]
      /\ \E a \in {Ok, Err(404)} : res' = [res EXCEPT ![t] = a]
  BY Knows DEF Unlink, ChangeMode, At, GotoWith, Goto, Fits
<1>2. pc'[t] = "write_unlock" /\ res'[t] \in {Ok, Err(404)}
  BY <1>1 DEF Shapes
<1>3. QED
  BY <1>1, <1>2, GivenAnswers DEF Progress, Answered, Mapped, At

(* The steps of a download.                                                *)
LEMMA DownloadExact ==
  ASSUME Inv, Exact, NEW t \in Threads, Download(t)
  PROVE  Progress(t)' /\ Answered(t)' /\ Mapped(t)'
<1>1. /\ Shapes /\ N(t) \in Names /\ Answered(t) /\ Mapped(t)
      /\ UNCHANGED <<file, job>> /\ N(t)' = N(t)
  <2>1. UNCHANGED <<file, job>> /\ pc[t] \in {"map", "fcntl_read", "send", "unmap"}
    BY DownloadStep
  <2>2. N(t) \in Names
    BY <2>1, Knows DEF Fits, At, AboutDownload, InReadLock
  <2>3. QED
    BY <2>1, <2>2, Knows DEF Exact, N
<1>2. CASE MapFile(t)
  <2>1. \/ /\ CanRead(file[N(t)]) /\ pc'[t] = "fcntl_read"
           /\ res'[t] = FileData(file[N(t)].body)
        \/ pc'[t] = "miss" /\ \E c \in {404, 500} : res'[t] = Err(c)
    BY <1>1, <1>2, MapStep DEF Shapes
  <2>2. file[N(t)] # Absent => file[N(t)].body \in Bodies
    BY <1>1 DEF Shapes, Files
  <2>3. QED
    BY <1>1, <2>1, <2>2, GivenAnswers DEF Progress, Answered, Mapped, CanRead, At
<1>3. CASE LockForDownload(t)
  BY <1>1, <1>3 DEF LockForDownload, Goto, At, Shapes, Progress, Answered, Mapped
<1>4. CASE SendFile(t) \/ UnmapAndClose(t)
  <2>1. pc'[t] \in {"unmap", "read_unlock"}
    BY <1>1, <1>4 DEF SendFile, UnmapAndClose, GotoWith, Goto, Shapes
  <2>2. QED
    BY <2>1 DEF Progress, Answered, Mapped, At
<1>5. QED
  BY <1>2, <1>3, <1>4 DEF Download

(* The steps of a listing and of a refusal.                                *)
LEMMA ListExact ==
  ASSUME Inv, Exact, NEW t \in Threads, List(t) \/ Refuse(t)
  PROVE  Progress(t)' /\ Answered(t)' /\ Mapped(t)' /\ Collected(t)' /\ rows' = [u \in Threads |-> rows'[u]]
<1>1. /\ Shapes /\ Fits(t) /\ Collected(t) /\ job[t] \in Requests /\ job' = job /\ file' = file
      /\ \E l \in {"stat", "reply"} : pc' = [pc EXCEPT ![t] = l]
      /\ rows = [u \in Threads |-> rows[u]]
  BY Knows, ListStep DEF Exact, At
<1>2. pc'[t] \in {"stat", "reply"} /\ Progress(t)' /\ Mapped(t)'
  BY <1>1 DEF Shapes, Progress, Mapped, At
<1>3. CASE OpenDir(t)
  <2> DEFINE seen == [n \in {m \in Names : file[m] = Absent} |-> Absent]
  <2>1. seen \in [DOMAIN seen -> Files \cup {Absent}] /\ DOMAIN seen \subseteq Names
    OBVIOUS
  <2>2. /\ pc[t] = "opendir" /\ job[t].op = "list" /\ job[t] # None
        /\ \/ rows' = [rows EXCEPT ![t] = seen] /\ pc'[t] = "stat"
           \/ rows' = rows /\ res'[t] = Err(500)
    <3>1. pc[t] = "opendir" /\ job[t].op = "list" /\ job[t] # None
      BY <1>1, <1>3, RequestShapes DEF OpenDir, At, Fits
    <3>2. \/ rows' = [rows EXCEPT ![t] = seen] /\ pc' = [pc EXCEPT ![t] = "stat"]
          \/ rows' = rows /\ res' = [res EXCEPT ![t] = Err(500)]
      BY <1>3 DEF OpenDir, GotoWith, Goto
    <3> HIDE DEF seen
    <3>3. t \in DOMAIN pc /\ t \in DOMAIN res
      BY <1>1 DEF Shapes
    <3>4. QED
      BY <3>1, <3>2, <3>3
  <2> HIDE DEF seen
  <2>3. rows' = [u \in Threads |-> rows'[u]] /\ rows'[t] \in {rows[t], seen}
    BY <1>1, <2>2
  <2>4. Collected(t)'
    BY <1>1, <1>2, <2>1, <2>2, <2>3 DEF Collected
  <2>5. QED
    BY <1>2, <2>2, <2>3, <2>4, GivenAnswers DEF Answered
<1>4. ASSUME NEW n \in Names, StatEntry(t, n)
      PROVE  Progress(t)' /\ Answered(t)' /\ Mapped(t)' /\ Collected(t)' /\ rows' = [u \in Threads |-> rows'[u]]
  <2> DEFINE seen == SeenMore(rows[t], [m \in {n} |-> file[n]])
  <2>1. [m \in {n} |-> file[n]] \in [{n} -> Files \cup {Absent}]
    BY <1>1 DEF Shapes
  <2>2. seen \in [DOMAIN seen -> Files \cup {Absent}] /\ DOMAIN seen \subseteq Names
    <3>1. /\ rows[t] \in [DOMAIN rows[t] -> Files \cup {Absent}]
          /\ DOMAIN rows[t] \subseteq Names
      BY <1>1 DEF Collected
    <3>2. /\ seen \in [DOMAIN rows[t] \cup {n} -> Files \cup {Absent}]
          /\ DOMAIN seen = DOMAIN rows[t] \cup {n}
      <4> DEFINE more == [m \in {n} |-> file[n]]
      <4>1. more \in [{n} -> Files \cup {Absent}]
        BY <2>1
      <4> HIDE DEF more
      <4>2. /\ SeenMore(rows[t], more) \in [DOMAIN rows[t] \cup {n} -> Files \cup {Absent}]
            /\ DOMAIN SeenMore(rows[t], more) = DOMAIN rows[t] \cup {n}
        BY <3>1, <4>1 DEF SeenMore
      <4>3. QED
        BY <4>2 DEF more
    <3>3. QED
      BY <3>1, <3>2
  <2>3. /\ pc[t] = "stat" /\ job[t].op = "list" /\ job[t] # None /\ pc' = pc
        /\ rows' = [rows EXCEPT ![t] = seen]
    BY <1>1, <1>4, RequestShapes DEF StatEntry, At, Fits
  <2> HIDE DEF seen
  <2>4. rows' = [u \in Threads |-> rows'[u]] /\ rows'[t] = seen /\ pc'[t] = "stat"
    BY <1>1, <2>3
  <2>5. QED
    BY <1>1, <1>2, <2>2, <2>3, <2>4 DEF Collected, Answered
<1>5. CASE EndList(t)
  <2>1. /\ pc[t] = "stat" /\ job[t].op = "list" /\ job[t] # None /\ rows' = rows
        /\ \/ DOMAIN rows[t] = Names /\ res'[t] = Listing(rows[t])
           \/ res'[t] = Err(500)
    <3>1. pc[t] = "stat" /\ job[t].op = "list" /\ job[t] # None
      BY <1>1, <1>5, RequestShapes DEF EndList, At, Fits
    <3>2. /\ rows' = rows
          /\ \/ DOMAIN rows[t] = Names /\ res' = [res EXCEPT ![t] = Listing(rows[t])]
             \/ res' = [res EXCEPT ![t] = Err(500)]
      BY <1>5 DEF EndList, GotoWith, Goto
    <3>3. t \in DOMAIN res
      BY <1>1 DEF Shapes
    <3>4. QED
      BY <3>1, <3>2, <3>3
  <2>2. res'[t] \in Answers
    BY <1>1, <2>1, GivenAnswers DEF Collected
  <2>3. QED
    BY <1>1, <1>2, <2>1, <2>2 DEF Collected, Answered
<1>6. CASE Refuse(t)
  <2>1. /\ pc[t] = "refuse" /\ job[t].op = "bad" /\ rows' = rows /\ res'[t] = Err(job[t].code)
    BY <1>1, <1>6 DEF Refuse, At, Fits, GotoWith, Goto, Shapes
  <2>2. job[t].code \in {400, 403}
    BY <1>1, <2>1, FileServiceAssumption DEF AllRequests
  <2>3. QED
    BY <1>1, <1>2, <2>1, <2>2, GivenAnswers DEF Collected, Answered
<1>7. QED
  BY <1>3, <1>4, <1>5, <1>6 DEF List

(* Getting and releasing the lock of a file.                               *)
LEMMA LockExact ==
  ASSUME Inv, Exact, NEW t \in Threads, Acquire(t) \/ Release(t)
  PROVE  Progress(t)' /\ Answered(t)' /\ Mapped(t)'
<1>1. /\ Shapes /\ Fits(t) /\ Answered(t) /\ N(t) \in Names /\ job[t] \in Requests
      /\ UNCHANGED <<file, res>>
  <2>1. pc[t] \in {"write_lock", "read_lock", "write_unlock", "read_unlock", "miss"}
    BY DEF Acquire, Release, AcquireWrite, AcquireRead, ReleaseWrite, ReleaseRead, At
  <2>2. QED
    BY <2>1, Knows DEF Fits, At, AboutDownload, InReadLock, Exact,
           Acquire, Release, AcquireWrite, AcquireRead, ReleaseWrite, ReleaseRead
<1>2. CASE AcquireWrite(t)
  <2>1. job[t].op \in Changes /\ job' = job /\ pc'[t] = job[t].op /\ was'[N(t)] = file[N(t)]
    BY <1>1, <1>2 DEF AcquireWrite, At, Fits, Goto, Shapes
  <2>2. QED
    BY <1>1, <2>1 DEF Progress, Answered, Mapped, At, Changes, N
<1>3. CASE AcquireRead(t) \/ Release(t)
  <2>1. \/ pc'[t] \in {"map", "idle"}
        \/ pc'[t] = "reply" /\ pc[t] \in {"write_unlock", "miss"}
    BY <1>1, <1>3 DEF AcquireRead, Release, ReleaseWrite, ReleaseRead, At, Goto, Shapes
  <2>2. QED
    BY <1>1, <2>1 DEF Progress, Answered, Mapped, At
<1>4. QED
  BY <1>2, <1>3 DEF Acquire

(* Nothing is collected unless a listing is served.                        *)
LEMMA NothingCollected ==
  /\ DOMAIN <<>> = {} /\ <<>> \in [{} -> Files \cup {Absent}]
  /\ \A more : more \in [DOMAIN more -> Files \cup {Absent}] => SeenMore(<<>>, more) = more
<1>1. DOMAIN <<>> = {} /\ <<>> \in [{} -> Files \cup {Absent}]
  OBVIOUS
<1>2. QED
  BY <1>1 DEF SeenMore

(* A request that is no listing collects nothing.                          *)
LEMMA CollectedKept ==
  ASSUME NEW t \in Threads, Collected(t), rows' = rows, job[t].op # "list"
  PROVE  Collected(t)'
<1>1. rows[t] = <<>> /\ rows'[t] = <<>>
  BY DEF Collected
<1>2. QED
  BY <1>1, NothingCollected DEF Collected

(* It holds in the initial state.                                          *)
LEMMA ExactInit == Init => Exact
<1> SUFFICES ASSUME Init, NEW t \in Threads
             PROVE  Progress(t) /\ Mapped(t) /\ Answered(t) /\ Collected(t)
  BY DEF Init, Exact
<1>1. pc[t] = "idle" /\ rows[t] = <<>>
  BY DEF Init
<1>2. QED
  BY <1>1, NothingCollected DEF Progress, Mapped, Answered, Collected, At

(* Every step keeps it.                                                    *)
LEMMA ExactNext ==
  ASSUME Inv, Exact, [Next]_vars
  PROVE  Exact'
<1>1. ASSUME NEW t \in Threads, Work(t)
      PROVE  Exact'
  <2>1. Shapes /\ Fits(t) /\ Collected(t)
        /\ rows = [u \in Threads |-> rows[u]] /\ sent = [u \in Threads |-> sent[u]]
    BY Knows DEF Exact
  <2>2. sent' = sent \/ \E a : sent' = [sent EXCEPT ![t] = a]
    <3>1. CASE Download(t) \/ List(t)
      BY <2>1, <3>1, DownloadStep, ListStep
    <3>2. QED
      BY <1>1, <3>1 DEF Work, Refuse, Reply, Acquire, AcquireWrite, AcquireRead, Release,
                  ReleaseWrite, ReleaseRead, Upload, OpenForUpload, LockForUpload, WriteSome,
                  WriteAll, WriteFails, Sync, CloseUpload, Unlink, ChangeMode
  <2>3. sent' = [u \in Threads |-> sent'[u]]
    BY <2>1, <2>2
  <2>4. rows' = [u \in Threads |-> rows'[u]] /\ Progress(t)' /\ Mapped(t)' /\ Answered(t)' /\ Collected(t)'
    <3>1. CASE Upload(t) \/ Unlink(t) \/ ChangeMode(t) \/ Download(t) \/ Acquire(t) \/ Release(t)
      <4>1. rows' = rows
        BY <3>1, DownloadStep
           DEF Upload, OpenForUpload, LockForUpload, WriteSome, WriteAll, WriteFails, Sync,
               CloseUpload, Unlink, ChangeMode, Acquire, AcquireWrite, AcquireRead, Release,
               ReleaseWrite, ReleaseRead
      <4>2. job[t].op # "list"
        <5>1. pc[t] \in InUpload \cup AboutDownload \cup {"delete", "chmod", "write_lock", "write_unlock"}
          BY <3>1, DownloadStep
             DEF Upload, OpenForUpload, LockForUpload, WriteSome, WriteAll, WriteFails, Sync,
                 CloseUpload, Unlink, ChangeMode, Acquire, AcquireWrite, AcquireRead, Release,
                 ReleaseWrite, ReleaseRead, At, InUpload, Opened, AboutDownload, InReadLock
        <5>2. QED
          BY <2>1, <5>1 DEF Fits, Changes
      <4>3. QED
        BY <2>1, <3>1, <4>1, <4>2, CollectedKept, UploadExact, ChangeExact, DownloadExact, LockExact
    <3>2. CASE List(t) \/ Refuse(t)
      BY <3>2, ListExact
    <3>3. CASE Reply(t)
      <4>1. rows' = [rows EXCEPT ![t] = <<>>] /\ pc'[t] = "idle"
        BY <2>1, <3>3 DEF Reply, GotoWith, Goto, Shapes
      <4>2. rows' = [u \in Threads |-> rows'[u]] /\ rows'[t] = <<>>
        BY <2>1, <4>1
      <4>3. QED
        BY <4>1, <4>2, NothingCollected DEF Progress, Mapped, Answered, Collected, At
    <3>4. QED
      BY <1>1, <3>1, <3>2, <3>3 DEF Work
  <2>5. QED
    BY <1>1, <2>3, <2>4, OthersExact DEF Exact
<1>2. ASSUME NEW t \in Threads, NEW r \in Requests, Start(t, r)
      PROVE  Exact'
  <2>1. /\ UNCHANGED <<file, was, res, rows>> /\ pc[t] = "idle" /\ pc'[t] = FirstStep(r)
        /\ sent' = [sent EXCEPT ![t] = None] /\ job[t] = None
        /\ \A u \in Threads : u # t => pc'[u] = pc[u] /\ job'[u] = job[u]
    BY <1>2, Knows DEF Start, At, Goto, Shapes, Fits
  <2>2. sent' = [u \in Threads |-> sent'[u]] /\ rows' = [u \in Threads |-> rows'[u]]
    BY <2>1 DEF Exact
  <2>3. Progress(t)' /\ Mapped(t)' /\ Answered(t)' /\ Collected(t)'
    <3>1. rows[t] = <<>>
      BY <2>1 DEF Exact, Collected
    <3>2. QED
      BY <2>1, <3>1, RequestShapes, NothingCollected
         DEF Progress, Mapped, Answered, Collected, At
  <2>4. ASSUME NEW u \in Threads, u # t
        PROVE  Progress(u)' /\ Mapped(u)' /\ Answered(u)' /\ Collected(u)'
    <3>1. /\ Progress(u) /\ Mapped(u) /\ Answered(u) /\ Collected(u)
          /\ N(u)' = N(u) /\ pc'[u] = pc[u] /\ job'[u] = job[u] /\ res'[u] = res[u]
          /\ rows'[u] = rows[u] /\ file' = file /\ was' = was
      BY <2>1, <2>4 DEF Exact, N
    <3>2. (\A b : Wrote(u, b)' = Wrote(u, b))
      BY <3>1 DEF Wrote
    <3>3. Outcome(u)' = Outcome(u)
      BY <3>1, <3>2 DEF Outcome
    <3>4. QED
      BY <3>1, <3>2, <3>3 DEF Progress, Mapped, Answered, Collected, At
  <2>5. QED
    BY <2>2, <2>3, <2>4 DEF Exact
<1>3. ASSUME UNCHANGED <<file, was, pc, job, res, rows, sent>>
      PROVE  Exact'
  <2>1. ASSUME NEW u \in Threads
        PROVE  Progress(u)' /\ Mapped(u)' /\ Answered(u)' /\ Collected(u)'
    <3>1. Progress(u) /\ Mapped(u) /\ Answered(u) /\ Collected(u) /\ N(u)' = N(u)
      BY <1>3 DEF Exact, N
    <3>2. (\A b : Wrote(u, b)' = Wrote(u, b)) /\ Outcome(u)' = Outcome(u)
      BY <1>3, <3>1 DEF Wrote, Outcome
    <3>3. QED
      BY <1>3, <3>1, <3>2 DEF Progress, Mapped, Answered, Collected, At
  <2>2. QED
    BY <1>3, <2>1 DEF Exact
<1>4. QED
  BY <1>1, <1>2, <1>3 DEF Next, vars, ExternalLock, ExternalUnlock

-----------------------------------------------------------------------------
(* The refinement mapping, one variable after the other.  A worker moves   *)
(* its own request and its own answer only.                                *)
LEMMA MapsMove ==
  ASSUME Inv, NEW t \in Threads, Work(t)
  PROVE  /\ JobsOpen' = [JobsOpen EXCEPT ![t] = JobOf(t)']
         /\ Decided' = [Decided EXCEPT ![t] = AnswerOf(t)']
<1>1. ASSUME NEW u \in Threads, u # t
      PROVE  JobOf(u)' = JobOf(u) /\ AnswerOf(u)' = AnswerOf(u)
  <2>1. pc'[u] = pc[u] /\ job'[u] = job[u] /\ res'[u] = res[u]
    BY <1>1, OnlyItself DEF Inv
  <2>2. QED
    BY <2>1 DEF JobOf, AnswerOf, At
<1>2. QED
  BY <1>1 DEF JobsOpen, Decided

(* Where a name stands for the promise: as it was found while it is under  *)
(* upload, else as it is.                                                  *)
LEMMA Seen ==
  ASSUME Inv, NEW n \in Names
  PROVE  /\ StoreSeen \in [Names -> Files \cup {Absent}]
         /\ StoreSeen[n] = IF Uploading(n) THEN was[n] ELSE file[n]
         /\ \A t \in Threads :
              pc[t] \in InWriteLock \cup InReadLock /\ N(t) = n =>
                (Uploading(n) <=> pc[t] \in InWriteLock /\ job[t].op = "upload")
<1>1. Shapes /\ Alone /\ \A t \in Threads : Held(t)
  BY DEF Inv
<1>2. StoreSeen \in [Names -> Files \cup {Absent}]
  BY <1>1 DEF StoreSeen, Shapes
<1>3. StoreSeen[n] = IF Uploading(n) THEN was[n] ELSE file[n]
  BY DEF StoreSeen
<1>4. ASSUME NEW t \in Threads, pc[t] \in InWriteLock \cup InReadLock, N(t) = n
      PROVE  Uploading(n) <=> pc[t] \in InWriteLock /\ job[t].op = "upload"
  <2>1. CASE pc[t] \in InWriteLock
    BY <1>1, <1>4, <2>1 DEF Held, Alone, Uploading
  <2>2. CASE pc[t] \notin InWriteLock
    BY <1>1, <1>4, <2>2 DEF Held, Alone, Uploading, Shapes
  <2>3. QED
    BY <2>1, <2>2
<1>5. QED
  BY <1>2, <1>3, <1>4

(* A step that touches no file and no lock shows nothing.                  *)
LEMMA StoreSame ==
  ASSUME Inv, UNCHANGED <<file, was, wlock>>,
         \A u \in Threads : pc[u] \in InWriteLock => job'[u] = job[u]
  PROVE  StoreSeen' = StoreSeen
<1>1. ASSUME NEW n \in Names
      PROVE  Uploading(n)' = Uploading(n)
  <2>1. \A u \in wlock[n] : job'[u] = job[u]
    BY DEF Inv, Shapes, Held
  <2>2. QED
    BY <2>1 DEF Uploading
<1>2. QED
  BY <1>1 DEF StoreSeen

(* The promise speaks of requests, files and answers as the handlers do.   *)
LEMMA SameWords ==
  /\ A!Ok = Ok /\ \A c : A!Err(c) = Err(c)
  /\ \A b : A!FileData(b) = FileData(b) /\ A!Whole(b) = Whole(b)
  /\ \A s : A!Listing(s) = Listing(s)
  /\ \A f : /\ A!CanRead(f) <=> CanRead(f)
            /\ A!CanWrite(f) <=> CanWrite(f)
            /\ A!ModeAfterUpload(f) = ModeAfterUpload(f)
  /\ \A d : A!Prefixes(d) = Prefixes(d)
  /\ \A s, m : A!SeenMore(s, m) = SeenMore(s, m)
BY DEF A!Ok, Ok, A!Err, Err, A!FileData, FileData, A!Listing, Listing, A!CanRead, CanRead,
       A!CanWrite, CanWrite, A!ModeAfterUpload, ModeAfterUpload, A!Prefixes, Prefixes,
       A!Whole, Whole, A!Part, Part, A!SeenMore, SeenMore

(* What a listing finds at a name is one of the views the promise allows.  *)
LEMMA InViews ==
  ASSUME Inv, Exact, NEW n \in Names
  PROVE  file[n] \in A!Views(n)
<1>1. CASE ~Uploading(n)
  BY <1>1, Seen DEF A!Views
<1>2. CASE Uploading(n)
  <2>1. PICK u \in Threads : /\ pc[u] \in InWriteLock /\ N(u) = n /\ job[u].op = "upload"
                             /\ Fits(u) /\ Progress(u)
    BY <1>2 DEF Uploading, Inv, Shapes, Held, Exact
  <2>2. pc[u] \in InUpload \cup {"write_unlock"} /\ job[u] # None
    BY <2>1 DEF InWriteLock, InUpload, Opened, Fits, At
  <2>3. JobsOpen[u] = job[u] /\ Decided[u] = None
    BY <2>1, <2>2 DEF JobsOpen, JobOf, Decided, AnswerOf, At, InUpload, Opened
  <2>4. u \in A!UploadsOf(n)
    BY <2>1, <2>2, <2>3 DEF A!UploadsOf, A!Undecided, N
  <2>5. StoreSeen[n] = was[n]
    BY <1>2, Seen
  <2>6. file[n] = was[n] \/ \E b \in Prefixes(job[u].data) : Wrote(u, b)
    BY <2>1, <2>2 DEF Progress, Outcome, Prefixes, At, InUpload, Opened
  <2>7. \/ file[n] = StoreSeen[n]
        \/ \E b \in A!Prefixes(JobsOpen[u].data) :
             file[n] = [body |-> b, mode |-> A!ModeAfterUpload(StoreSeen[n])]
    BY <2>1, <2>3, <2>5, <2>6, SameWords DEF Wrote
  <2> DEFINE V(v) == {[body |-> b, mode |-> A!ModeAfterUpload(StoreSeen[n])] :
                        b \in A!Prefixes(JobsOpen[v].data)}
  <2>8. file[n] \in {StoreSeen[n]} \cup UNION {V(v) : v \in A!UploadsOf(n)}
    <3>1. CASE file[n] = StoreSeen[n]
      BY <3>1
    <3>2. CASE file[n] \in V(u)
      <4> HIDE DEF V
      <4>1. QED
        BY <2>4, <3>2
    <3>3. QED
      BY <2>7, <3>1, <3>2
  <2>9. QED
    BY <2>8 DEF A!Views
<1>3. QED
  BY <1>1, <1>2

-----------------------------------------------------------------------------
(* The steps on the way to an answer show nothing.                         *)
LEMMA HiddenSteps ==
  ASSUME Inv, Exact, NEW t \in Threads,
         \/ AcquireRead(t) \/ ReleaseRead(t)
         \/ LockForUpload(t) \/ WriteFails(t) \/ Sync(t) \/ CloseUpload(t)
         \/ LockForDownload(t) \/ UnmapAndClose(t)
  PROVE  UNCHANGED A!storeVars
<1>1. Work(t) /\ Shapes /\ Fits(t)
  BY Knows DEF Work, Acquire, Release, Upload, Download
<1>2. /\ UNCHANGED <<file, was, wlock, rows, sent>>
      /\ JobOf(t)' = JobOf(t) /\ AnswerOf(t)' = AnswerOf(t)
      /\ pc[t] \in InWriteLock => job'[t] = job[t]
  <2>1. CASE AcquireRead(t)
    BY <1>1, <2>1 DEF AcquireRead, L!EnterRead, Goto, At, JobOf, AnswerOf, Shapes
  <2>2. CASE ReleaseRead(t)
    BY <1>1, <2>2 DEF ReleaseRead, L!LeaveRead, Goto, At, JobOf, AnswerOf, Shapes, InWriteLock
  <2>3. CASE LockForUpload(t) \/ WriteFails(t) \/ Sync(t) \/ CloseUpload(t)
    <3>1. /\ UNCHANGED <<file, was, wlock, rows, sent, job>>
          /\ pc[t] \in {"fcntl_write", "write", "writing", "fsync", "close_write"}
          /\ pc'[t] \in {"write", "close_write", "write_unlock"}
      BY <1>1, <2>3 DEF LockForUpload, WriteFails, Sync, CloseUpload, Goto, GotoWith, At,
                        Shapes, locks
    <3>2. job[t].op = "upload"
      BY <1>1, <3>1 DEF Fits, InUpload, Opened
    <3>3. QED
      BY <3>1, <3>2 DEF JobOf, AnswerOf, At
  <2>4. CASE LockForDownload(t) \/ UnmapAndClose(t)
    BY <1>1, <2>4 DEF LockForDownload, UnmapAndClose, Goto, At, JobOf, AnswerOf, Shapes, locks
  <2>5. QED
    BY <2>1, <2>2, <2>3, <2>4
<1>3. \A u \in Threads : pc[u] \in InWriteLock => job'[u] = job[u]
  BY <1>1, <1>2, OnlyItself
<1>4. StoreSeen' = StoreSeen
  BY <1>2, <1>3, StoreSame
<1>5. JobsOpen' = JobsOpen /\ Decided' = Decided
  BY <1>1, <1>2, MapsMove DEF JobsOpen, Decided
<1>6. QED
  BY <1>2, <1>4, <1>5 DEF A!storeVars

(* An upload shows nothing until it releases its lock.                     *)
LEMMA HiddenUpload ==
  ASSUME Inv, Exact, NEW t \in Threads,
         AcquireWrite(t) \/ OpenForUpload(t) \/ WriteSome(t) \/ WriteAll(t)
  PROVE  UNCHANGED A!storeVars
<1>1. /\ Work(t) /\ Shapes /\ Fits(t) /\ Held(t) /\ N(t) \in Names
      /\ UNCHANGED <<rows, sent, job>>
  <2>1. pc[t] \in {"write_lock", "upload", "write", "writing"}
    BY DEF AcquireWrite, OpenForUpload, WriteSome, WriteAll, At
  <2>2. QED
    BY <2>1, Knows DEF Work, Acquire, Upload, Fits, At, InUpload, Opened, Changes,
           AcquireWrite, OpenForUpload, WriteSome, WriteAll
<1>n. PICK n \in Names : n = N(t)
  BY <1>1
<1>2. CASE AcquireWrite(t)
  <2>1. /\ pc[t] = "write_lock" /\ pc' = [pc EXCEPT ![t] = job[t].op] /\ job[t].op \in Changes
        /\ wlock[n] = {} /\ wlock' = [wlock EXCEPT ![n] = {t}]
        /\ was' = [was EXCEPT ![n] = file[n]] /\ file' = file
    BY <1>1, <1>2, <1>n DEF AcquireWrite, L!EnterWrite, At, Goto, Fits
  <2>2. JobOf(t)' = JobOf(t) /\ AnswerOf(t)' = AnswerOf(t)
    BY <1>1, <2>1 DEF JobOf, AnswerOf, At, Changes, Shapes
  <2>3. ASSUME NEW m \in Names
        PROVE  (IF Uploading(m) THEN was[m] ELSE file[m])'
                 = (IF Uploading(m) THEN was[m] ELSE file[m])
    <3>1. CASE m = n
      BY <1>1, <2>1, <3>1 DEF Uploading, Shapes
    <3>2. CASE m # n
      BY <1>1, <2>1, <3>2 DEF Uploading, Shapes
    <3>3. QED
      BY <3>1, <3>2
  <2>4. StoreSeen' = StoreSeen
    BY <2>3 DEF StoreSeen
  <2>5. QED
    BY <1>1, <2>2, <2>4, MapsMove DEF JobsOpen, Decided, A!storeVars
<1>3. CASE OpenForUpload(t) \/ WriteSome(t) \/ WriteAll(t)
  <2>1. /\ pc[t] \in {"upload", "write", "writing"} /\ job[t].op = "upload"
        /\ pc'[t] \in {"fcntl_write", "write_unlock", "writing", "fsync"}
        /\ wlock' = wlock /\ was' = was
        /\ file' = file \/ \E f : file' = [file EXCEPT ![n] = f]
    BY <1>1, <1>3, <1>n DEF OpenForUpload, WriteSome, WriteAll, PutBody, Goto, GotoWith, At,
                            Fits, InUpload, Opened, Shapes, locks
  <2>2. JobOf(t)' = JobOf(t) /\ AnswerOf(t)' = AnswerOf(t)
    BY <1>1, <2>1 DEF JobOf, AnswerOf, At
  <2>3. t \in wlock[n]
    BY <1>1, <1>n, <2>1 DEF Held, InWriteLock
  <2>4. ASSUME NEW m \in Names
        PROVE  (IF Uploading(m) THEN was[m] ELSE file[m])'
                 = (IF Uploading(m) THEN was[m] ELSE file[m])
    <3>1. CASE m = n
      BY <1>1, <2>1, <2>3, <3>1 DEF Uploading
    <3>2. CASE m # n
      BY <1>1, <2>1, <3>2 DEF Uploading, Shapes
    <3>3. QED
      BY <3>1, <3>2
  <2>5. StoreSeen' = StoreSeen
    BY <2>4 DEF StoreSeen
  <2>6. QED
    BY <1>1, <2>2, <2>5, MapsMove DEF JobsOpen, Decided, A!storeVars
<1>4. QED
  BY <1>2, <1>3

-----------------------------------------------------------------------------
(* The steps that show.  An upload shows when it releases the lock, and a  *)
(* delete or a chmod, which shows earlier, does not then.                  *)
LEMMA ReleaseWriteShows ==
  ASSUME Inv, Exact, NEW t \in Threads, ReleaseWrite(t)
  PROVE  A!Upload(t) \/ UNCHANGED A!storeVars
<1>1. /\ Work(t) /\ Shapes /\ Fits(t) /\ Held(t) /\ Progress(t) /\ N(t) \in Names
      /\ pc[t] = "write_unlock" /\ job[t] # None /\ job[t].op \in Changes
      /\ pc' = [pc EXCEPT ![t] = "reply"] /\ UNCHANGED <<file, job, res, rows, sent>>
  BY Knows DEF ReleaseWrite, Work, Release, Goto, At, Fits, Exact
<1>n. PICK n \in Names : n = N(t)
  BY <1>1
<1>2. wlock' = [wlock EXCEPT ![n] = {}] /\ was' = [was EXCEPT ![n] = Absent]
  BY <1>n DEF ReleaseWrite, L!LeaveWrite
<1>3. /\ JobOf(t) = job[t] /\ JobOf(t)' = job[t] /\ AnswerOf(t)' = res[t]
      /\ AnswerOf(t) = IF job[t].op = "upload" THEN None ELSE res[t]
  BY <1>1 DEF JobOf, AnswerOf, At, Shapes
<1>4. JobsOpen' = JobsOpen /\ JobsOpen[t] = job[t]
  BY <1>1, <1>3, MapsMove DEF JobsOpen
<1>5. Decided' = [Decided EXCEPT ![t] = res[t]] /\ Decided[t] = AnswerOf(t)
  BY <1>1, <1>3, MapsMove DEF Decided
<1>6. StoreSeen' = [StoreSeen EXCEPT ![n] = file[n]]
  <2>1. \A m \in Names : /\ Uploading(m)' <=> (m # n /\ Uploading(m))
                         /\ m # n => was'[m] = was[m]
    BY <1>1, <1>2 DEF Uploading, Shapes
  <2>2. QED
    BY <1>1, <2>1 DEF StoreSeen
<1>7. StoreSeen[n] = IF job[t].op = "upload" THEN was[n] ELSE file[n]
  BY <1>1, <1>n, Seen DEF InWriteLock
<1>8. CASE job[t].op = "upload"
  <2> DEFINE d == job[t].data
  <2>1. Outcome(t) /\ A!Undecided(t, "upload")
    BY <1>1, <1>3, <1>4, <1>5, <1>8 DEF Progress, A!Undecided
  <2>2. StoreSeen[n] = was[n] /\ JobsOpen[t].name = n
    BY <1>4, <1>7, <1>8, <1>n DEF N
  <2>3. A!Decide(t, res[t])
    BY <1>1, <1>4, <1>5 DEF A!Decide
  <2>4. ASSUME NEW b, Wrote(t, b)
        PROVE  /\ A!CanWrite(StoreSeen[n])
               /\ StoreSeen' = [StoreSeen EXCEPT ![n] =
                                 [body |-> b, mode |-> A!ModeAfterUpload(StoreSeen[n])]]
    BY <1>6, <1>n, <2>2, <2>4, SameWords DEF Wrote
  <2>5. file[n] = was[n] => StoreSeen' = StoreSeen
    BY <1>6, <2>2, Seen
  <2>6. CASE res[t] = Ok /\ Wrote(t, Whole(d))
    BY <1>4, <2>1, <2>2, <2>3, <2>4, <2>6, SameWords DEF A!Upload
  <2>7. CASE res[t] = Err(500) /\ IoMayFail /\ \E b \in Prefixes(d) : Wrote(t, b)
    BY <1>4, <2>1, <2>2, <2>3, <2>4, <2>7, SameWords DEF A!Upload
  <2>8. CASE /\ res[t] = Err(500) /\ file[n] = was[n]
             /\ ~CanWrite(was[n]) \/ IoMayFail
    BY <1>4, <2>1, <2>2, <2>3, <2>5, <2>8, SameWords DEF A!Upload
  <2>9. QED
    BY <1>n, <2>1, <2>6, <2>7, <2>8 DEF Outcome
<1>9. CASE job[t].op # "upload"
  <2>1. StoreSeen' = StoreSeen
    BY <1>6, <1>7, <1>9, Seen
  <2>2. Decided' = Decided
    BY <1>3, <1>5, <1>9 DEF Decided
  <2>3. QED
    BY <1>1, <1>4, <2>1, <2>2 DEF A!storeVars
<1>10. QED
  BY <1>8, <1>9

(* Delete and chmod.                                                       *)
LEMMA ChangeShows ==
  ASSUME Inv, Exact, NEW t \in Threads, Unlink(t) \/ ChangeMode(t)
  PROVE  A!Delete(t) \/ A!Chmod(t)
<1>1. /\ Work(t) /\ Shapes /\ Fits(t) /\ N(t) \in Names
      /\ pc[t] \in {"delete", "chmod"} /\ job[t] # None /\ job[t].op = pc[t]
      /\ UNCHANGED <<wlock, was, job, rows, sent>>
      /\ \E a : GotoWith(t, "write_unlock", a)
  BY Knows DEF Unlink, ChangeMode, Work, At, Fits, locks, Changes
<1>n. PICK n \in Names : n = N(t)
  BY <1>1
<1>2. pc'[t] = "write_unlock"
  BY <1>1 DEF GotoWith, Goto, Shapes
<1>3. /\ JobOf(t) = job[t] /\ JobOf(t)' = job[t] /\ AnswerOf(t)' = res'[t]
      /\ AnswerOf(t) = None
  BY <1>1, <1>2 DEF JobOf, AnswerOf, At
<1>4. JobsOpen' = JobsOpen /\ JobsOpen[t] = job[t]
  BY <1>1, <1>3, MapsMove DEF JobsOpen
<1>5. Decided' = [Decided EXCEPT ![t] = res'[t]] /\ Decided[t] = None
  BY <1>1, <1>3, MapsMove DEF Decided
<1>6. ~Uploading(n) /\ StoreSeen[n] = file[n] /\ StoreSeen \in [Names -> Files \cup {Absent}]
  BY <1>1, <1>n, Seen DEF InWriteLock
<1>7. ASSUME NEW f, file' = [file EXCEPT ![n] = f]
      PROVE  StoreSeen' = [StoreSeen EXCEPT ![n] = f]
  <2>1. \A m \in Names : Uploading(m)' = Uploading(m)
    BY <1>1 DEF Uploading
  <2>2. QED
    BY <1>1, <1>6, <1>7, <2>1 DEF StoreSeen, Shapes
<1>8. file' = file => StoreSeen' = StoreSeen
  BY <1>1, StoreSame
<1>9. /\ A!Undecided(t, job[t].op) /\ JobsOpen[t].name = n
      /\ A!Decide(t, res'[t])
  BY <1>1, <1>4, <1>5, <1>n DEF A!Undecided, A!Decide, N
<1>10. CASE Unlink(t)
  <2>1. /\ job[t].op = "delete"
        /\ \/ file[n] # Absent /\ file' = [file EXCEPT ![n] = Absent] /\ res'[t] = Ok
           \/ (file[n] = Absent \/ IoMayFail) /\ file' = file /\ res'[t] = Err(404)
    BY <1>1, <1>10, <1>n DEF Unlink, At, GotoWith, Goto, Shapes
  <2>2. QED
    BY <1>6, <1>7, <1>8, <1>9, <2>1, SameWords DEF A!Delete
<1>11. CASE ChangeMode(t)
  <2>1. /\ job[t].op = "chmod"
        /\ \/ file[n] # Absent /\ file' = [file EXCEPT ![n].mode = job[t].mode] /\ res'[t] = Ok
           \/ (file[n] = Absent \/ IoMayFail) /\ file' = file /\ res'[t] = Err(404)
    BY <1>1, <1>11, <1>n DEF ChangeMode, At, GotoWith, Goto, Shapes
  <2>2. file' = [file EXCEPT ![n].mode = job[t].mode]
          => StoreSeen' = [StoreSeen EXCEPT ![n].mode = JobsOpen[t].mode]
    <3> DEFINE f == [file[n] EXCEPT !.mode = job[t].mode]
    <3>1. SUFFICES ASSUME file' = [file EXCEPT ![n] = f]
                   PROVE  StoreSeen' = [StoreSeen EXCEPT ![n] = f]
      BY <1>4, <1>6
    <3> HIDE DEF f
    <3>2. QED
      BY <3>1, <1>7
  <2>3. QED
    BY <1>6, <1>8, <1>9, <2>1, <2>2, SameWords DEF A!Chmod
<1>12. QED
  BY <1>10, <1>11

(* A download is decided when its file is mapped.                          *)
LEMMA MapShows ==
  ASSUME Inv, Exact, NEW t \in Threads, MapFile(t)
  PROVE  A!Download(t)
<1>1. /\ Work(t) /\ Shapes /\ Fits(t) /\ N(t) \in Names
      /\ pc[t] = "map" /\ job[t] # None /\ job[t].op = "download"
      /\ UNCHANGED <<file, wlock, was, job, rows, sent>>
  BY Knows DEF MapFile, Work, Download, At, Fits, AboutDownload, InReadLock, locks
<1>n. PICK n \in Names : n = N(t)
  BY <1>1
<1>2. /\ pc'[t] \in {"fcntl_read", "miss"}
      /\ \/ CanRead(file[n]) /\ res'[t] = FileData(file[n].body)
         \/ ~CanRead(file[n]) /\ res'[t] = Err(404)
         \/ IoMayFail /\ \E c \in {404, 500} : res'[t] = Err(c)
  BY <1>1, <1>n DEF MapFile, GotoWith, Goto, Shapes
<1>3. /\ JobOf(t) = job[t] /\ JobOf(t)' = job[t] /\ AnswerOf(t)' = res'[t]
      /\ AnswerOf(t) = None
  BY <1>1, <1>2 DEF JobOf, AnswerOf, At
<1>4. JobsOpen' = JobsOpen /\ JobsOpen[t] = job[t]
  BY <1>1, <1>3, MapsMove DEF JobsOpen
<1>5. Decided' = [Decided EXCEPT ![t] = res'[t]] /\ Decided[t] = None
  BY <1>1, <1>3, MapsMove DEF Decided
<1>6. StoreSeen[n] = file[n]
  BY <1>1, <1>n, Seen DEF InReadLock, InWriteLock
<1>7. StoreSeen' = StoreSeen
  BY <1>1, StoreSame
<1>8. /\ A!Undecided(t, "download") /\ JobsOpen[t].name = n
      /\ A!Decide(t, res'[t])
  BY <1>1, <1>4, <1>5, <1>n DEF A!Undecided, A!Decide, N
<1>9. QED
  BY <1>2, <1>6, <1>7, <1>8, SameWords DEF A!Download

(* A response ends the request: of a download, before it cleans up.        *)
LEMMA AnswerShows ==
  ASSUME Inv, Exact, NEW t \in Threads, Reply(t) \/ SendFile(t)
  PROVE  A!Finish(t)
<1>1. /\ Work(t) /\ Shapes /\ Fits(t) /\ Mapped(t) /\ Answered(t) /\ Collected(t)
      /\ pc[t] \in {"reply", "send"} /\ rows = [u \in Threads |-> rows[u]]
      /\ UNCHANGED <<file, wlock, was>>
  BY Knows DEF Reply, SendFile, Work, Download, At, Exact, locks
<1>2. Decided[t] = res[t] /\ res[t] # None
  BY <1>1, GivenAnswers DEF Decided, AnswerOf, Answered, At
<1>3. /\ pc'[t] \in {"idle", "unmap"}
      /\ \/ sent' = [sent EXCEPT ![t] = res[t]]
         \/ IoMayFail /\ res[t].code # 0 /\ UNCHANGED sent
      /\ rows' = [rows EXCEPT ![t] = <<>>]
      /\ pc[t] \notin InWriteLock
  <2>1. CASE Reply(t)
    BY <1>1, <2>1 DEF Reply, GotoWith, Goto, Shapes, At, InWriteLock
  <2>2. CASE SendFile(t)
    <3>1. pc[t] = "send" /\ file[N(t)] # Absent /\ res[t] = FileData(file[N(t)].body)
      BY <1>1, <2>2 DEF SendFile, At, Mapped
    <3>2. job[t].op # "list"
      BY <1>1, <3>1 DEF Fits, AboutDownload, InReadLock
    <3>3. rows[t] = <<>>
      BY <1>1, <3>2 DEF Collected
    <3>4. rows' = [rows EXCEPT ![t] = <<>>]
      BY <1>1, <2>2, <3>3 DEF SendFile
    <3>5. QED
      BY <1>1, <2>2, <3>1, <3>4 DEF SendFile, GotoWith, Goto, Shapes, InWriteLock
  <2>3. QED
    BY <2>1, <2>2
<1>4. JobsOpen' = [JobsOpen EXCEPT ![t] = None] /\ Decided' = [Decided EXCEPT ![t] = None]
  <2>1. JobOf(t)' = None /\ AnswerOf(t)' = None
    BY <1>3 DEF JobOf, AnswerOf, At
  <2>2. QED
    BY <1>1, <2>1, MapsMove
<1>5. StoreSeen' = StoreSeen
  <2>1. \A u \in Threads : u # t => job'[u] = job[u]
    BY <1>1, OnlyItself
  <2>2. QED
    BY <1>1, <1>3, <2>1, StoreSame
<1>6. QED
  BY <1>2, <1>3, <1>4, <1>5 DEF A!Finish

(* A request begins.                                                       *)
LEMMA StartShows ==
  ASSUME Inv, Exact, NEW t \in Threads, NEW r \in Requests, Start(t, r)
  PROVE  A!Begin(t, r)
<1>1. /\ Shapes /\ pc[t] = "idle" /\ pc'[t] = FirstStep(r)
      /\ job' = [job EXCEPT ![t] = r] /\ sent' = [sent EXCEPT ![t] = None]
      /\ UNCHANGED <<file, wlock, was, res, rows>>
      /\ \A u \in Threads : u # t => pc'[u] = pc[u] /\ job'[u] = job[u]
  BY Knows DEF Start, At, Goto, Shapes, locks
<1>2. FirstStep(r) \in {"refuse", "opendir", "read_lock", "write_lock"}
  BY RequestShapes
<1>3. JobOf(t) = None /\ JobOf(t)' = r /\ AnswerOf(t) = None /\ AnswerOf(t)' = None
  BY <1>1, <1>2 DEF JobOf, AnswerOf, At, Shapes
<1>4. \A u \in Threads : u # t => JobOf(u)' = JobOf(u) /\ AnswerOf(u)' = AnswerOf(u)
  BY <1>1 DEF JobOf, AnswerOf, At
<1>5. /\ JobsOpen' = [JobsOpen EXCEPT ![t] = r] /\ JobsOpen[t] = None
      /\ Decided' = Decided
  BY <1>3, <1>4 DEF JobsOpen, Decided
<1>6. StoreSeen' = StoreSeen
  BY <1>1, StoreSame DEF InWriteLock
<1>7. QED
  BY <1>1, <1>5, <1>6 DEF A!Begin

(* A listing looks at names, and says what it saw; a refusal says why.     *)
LEMMA ListShows ==
  ASSUME Inv, Exact, NEW t \in Threads, List(t) \/ Refuse(t)
  PROVE  (\E S \in SUBSET Names : A!Look(t, S)) \/ A!List(t) \/ A!Refuse(t)
<1>1. /\ Work(t) /\ Shapes /\ Fits(t) /\ Collected(t)
      /\ pc[t] \in {"opendir", "stat", "refuse"} /\ job[t] # None
      /\ UNCHANGED <<file, wlock, was, job, sent>>
  BY Knows, ListStep DEF Work, Exact, Fits, At, locks
<1>2. JobOf(t) = job[t] /\ JobOf(t)' = job[t] /\ AnswerOf(t) = None
  <2>1. pc'[t] \in {"stat", "reply"}
    BY <1>1, ListStep DEF Shapes
  <2>2. QED
    BY <1>1, <2>1 DEF JobOf, AnswerOf, At
<1>3. JobsOpen' = JobsOpen /\ JobsOpen[t] = job[t] /\ Decided[t] = None
  BY <1>1, <1>2, MapsMove DEF JobsOpen, Decided
<1>4. Decided' = [Decided EXCEPT ![t] = AnswerOf(t)']
  BY <1>1, MapsMove
<1>5. StoreSeen' = StoreSeen
  BY <1>1, StoreSame
<1>6. A!Undecided(t, job[t].op)
  BY <1>1, <1>3 DEF A!Undecided
<1>7. ASSUME NEW S \in SUBSET Names, S \cap DOMAIN rows[t] = {}, job[t].op = "list",
             NEW view, view = [n \in S |-> file[n]],
             rows' = [rows EXCEPT ![t] = SeenMore(@, view)], AnswerOf(t)' = None
      PROVE  A!Look(t, S)
  <2>1. Decided' = Decided
    BY <1>3, <1>4, <1>7 DEF Decided
  <2>2. \A n \in S : view[n] \in A!Views(n)
    BY <1>7, InViews
  <2>3. view \in [S -> UNION {A!Views(n) : n \in S}]
    BY <1>7, <2>2
  <2>4. QED
    BY <1>3, <1>5, <1>6, <1>7, <1>1, <2>1, <2>2, <2>3, SameWords DEF A!Look
<1>8. ASSUME NEW c, res'[t] = c, pc'[t] = "reply"
      PROVE  A!Decide(t, c) \/ rows' # rows
  BY <1>1, <1>3, <1>4, <1>8 DEF A!Decide, AnswerOf
<1>9. CASE OpenDir(t)
  <2>1. CASE GotoWith(t, "reply", Err(500))
    <3>1. /\ IoMayFail /\ rows' = rows /\ res'[t] = Err(500) /\ pc'[t] = "reply"
          /\ job[t].op = "list"
      BY <1>1, <1>9, <2>1 DEF OpenDir, GotoWith, Goto, Shapes, Fits, At
    <3>2. QED
      BY <1>5, <1>6, <1>8, <3>1, SameWords DEF A!List
  <2>2. CASE ~GotoWith(t, "reply", Err(500))
    <3> DEFINE S == {m \in Names : file[m] = Absent}
               view == [n \in S |-> file[n]]
    <3>1. /\ rows' = [rows EXCEPT ![t] = [n \in S |-> Absent]]
          /\ pc[t] = "opendir" /\ pc'[t] = "stat" /\ job[t].op = "list"
      BY <1>1, <1>9, <2>2 DEF OpenDir, Goto, Shapes, Fits, At
    <3>2. [n \in S |-> Absent] = view
      OBVIOUS
    <3>3. rows[t] = <<>>
      BY <1>1, <3>1 DEF Collected
    <3>4. SeenMore(rows[t], view) = view
      <4>1. view \in [DOMAIN view -> Files \cup {Absent}]
        BY <1>1 DEF Shapes
      <4> HIDE DEF view
      <4>2. QED
        BY <3>3, <4>1, NothingCollected
    <3>5. rows' = [rows EXCEPT ![t] = SeenMore(@, view)]
      BY <3>1, <3>2, <3>4
    <3>6. AnswerOf(t)' = None
      BY <3>1 DEF AnswerOf, At
    <3>7. S \cap DOMAIN rows[t] = {}
      BY <3>3, NothingCollected
    <3>8. S \in SUBSET Names /\ view = [n \in S |-> file[n]]
      OBVIOUS
    <3> HIDE DEF S, view
    <3>9. QED
      BY <1>7, <3>1, <3>5, <3>6, <3>7, <3>8
  <2>3. QED
    BY <2>1, <2>2
<1>10. ASSUME NEW n \in Names, StatEntry(t, n)
       PROVE  A!Look(t, {n})
  <2> DEFINE view == [m \in {n} |-> file[m]]
  <2>1. /\ {n} \cap DOMAIN rows[t] = {} /\ job[t].op = "list" /\ pc'[t] = "stat"
        /\ rows' = [rows EXCEPT ![t] = SeenMore(@, [m \in {n} |-> file[n]])]
    BY <1>1, <1>10 DEF StatEntry, Fits, At
  <2>2. [m \in {n} |-> file[n]] = view
    OBVIOUS
  <2>3. AnswerOf(t)' = None
    BY <2>1 DEF AnswerOf, At
  <2>4. {n} \in SUBSET Names /\ view = [m \in {n} |-> file[m]]
    OBVIOUS
  <2> HIDE DEF view
  <2>5. QED
    BY <1>7, <2>1, <2>2, <2>3, <2>4
<1>11. CASE EndList(t)
  <2>1. /\ job[t].op = "list" /\ pc'[t] = "reply" /\ rows' = rows
        /\ \/ DOMAIN rows[t] = Names /\ res'[t] = Listing(rows[t])
           \/ IoMayFail /\ res'[t] = Err(500)
    BY <1>1, <1>11 DEF EndList, GotoWith, Goto, Shapes, Fits, At
  <2>2. QED
    BY <1>5, <1>6, <1>8, <2>1, SameWords DEF A!List
<1>12. CASE Refuse(t)
  <2>1. /\ job[t].op = "bad" /\ pc'[t] = "reply" /\ rows' = rows
        /\ res'[t] = Err(job[t].code)
    BY <1>1, <1>12 DEF Refuse, GotoWith, Goto, Shapes, Fits, At
  <2>2. QED
    BY <1>3, <1>5, <1>6, <1>8, <2>1, SameWords DEF A!Refuse
<1>13. QED
  BY <1>9, <1>10, <1>11, <1>12 DEF List

-----------------------------------------------------------------------------
(* The promise holds of the initial state.                                 *)
LEMMA InitShows == Init => A!Init
<1> SUFFICES ASSUME Init PROVE A!Init
  OBVIOUS
<1>1. \A n \in Names : ~Uploading(n)
  BY DEF Init, L!Init, Uploading
<1>2. \A t \in Threads : JobOf(t) = None /\ AnswerOf(t) = None
  BY DEF Init, JobOf, AnswerOf, At
<1>3. QED
  BY <1>1, <1>2 DEF Init, A!Init, StoreSeen, JobsOpen, Decided

(* Every step shows as one that is promised, or not at all.                *)
LEMMA StepShows ==
  ASSUME Inv, Exact, [Next]_vars
  PROVE  A!Next \/ UNCHANGED A!storeVars
<1>1. ASSUME NEW t \in Threads, NEW r \in Requests, Start(t, r)
      PROVE  A!Next
  BY <1>1, StartShows DEF A!Next
<1>2. ASSUME NEW t \in Threads, Work(t)
      PROVE  A!Next \/ UNCHANGED A!storeVars
  <2>1. CASE Acquire(t) \/ Release(t)
    BY <2>1, HiddenSteps, HiddenUpload, ReleaseWriteShows DEF Acquire, Release, A!Next
  <2>2. CASE Upload(t)
    BY <2>2, HiddenSteps, HiddenUpload DEF Upload
  <2>3. CASE Download(t) \/ Reply(t)
    BY <2>3, HiddenSteps, MapShows, AnswerShows DEF Download, A!Next
  <2>4. CASE List(t) \/ Refuse(t)
    BY <2>4, ListShows DEF A!Next
  <2>5. CASE Unlink(t) \/ ChangeMode(t)
    BY <2>5, ChangeShows DEF A!Next
  <2>6. QED
    BY <1>2, <2>1, <2>2, <2>3, <2>4, <2>5 DEF Work
<1>3. CASE UNCHANGED <<file, wlock, was, pc, job, res, rows, sent>>
  <2>1. StoreSeen' = StoreSeen
    BY <1>3, StoreSame
  <2>2. \A t \in Threads : JobOf(t)' = JobOf(t) /\ AnswerOf(t)' = AnswerOf(t)
    BY <1>3 DEF JobOf, AnswerOf, At
  <2>3. QED
    BY <1>3, <2>1, <2>2 DEF JobsOpen, Decided, A!storeVars
<1>4. QED
  BY <1>1, <1>2, <1>3 DEF Next, vars, locks, ExternalLock, ExternalUnlock

(* Whatever the workers do at the same time, every upload, download,       *)
(* delete and chmod takes effect at one instant between its request and its*)
(* response, as api_reference.md, section 7, promises.                     *)
THEOREM HandlersAreAtomic == Spec => Atomic
<1>1. Init => Inv /\ Exact
  BY InitInv, ExactInit
<1>2. Inv /\ Exact /\ [Next]_vars => Inv' /\ Exact'
  BY NextInv, ExactNext
<1>3. Inv /\ Exact /\ [Next]_vars => [A!Next]_(A!storeVars)
  BY StepShows
<1>4. QED
  BY <1>1, <1>2, <1>3, InitShows, PTL DEF Spec, Atomic, A!Spec
=============================================================================
