------------------------------ MODULE Handlers ------------------------------
(***************************************************************************)
(* The request handlers of handlers.c on the file operations of fileops.c, *)
(* as the worker threads run them at the same time.                        *)
(*                                                                         *)
(* A step is one system call on a file, one acquire or release of the      *)
(* in-process lock, or one response.  The in-process lock is RWLock, which *)
(* FileLock implements for names whose entry has memory.  An fcntl lock    *)
(* belongs to the whole server process: it does not keep workers apart, and*)
(* the process loses it when any worker unlocks or closes that file.       *)
(***************************************************************************)
EXTENDS FileService

CONSTANT External  \* do other processes lock files with fcntl?

ASSUME HandlersAssumption == External \in BOOLEAN

VARIABLES file,    \* file[n]: the file called n in the storage directory, or Absent
          wlock,   \* wlock[n]: who holds the in-process lock of n as writer
          rlock,   \* rlock[n]: who holds it as reader
          flk,     \* flk[n]: the fcntl lock the server process has on n
          ext,     \* ext[n]: the fcntl lock another process has on n
          pc,      \* pc[t]: where worker t is
          job,     \* job[t]: the request it serves, or None
          res,     \* res[t]: the answer so far; for a download the mapped body
          rows,    \* rows[t]: what its listing has seen
          sent,    \* sent[t]: the response on its connection
          was      \* auxiliary, was[n]: what n's writer found when it got the lock

locks == <<wlock, rlock>>
vars  == <<file, wlock, rlock, flk, ext, pc, job, res, rows, sent, was>>

L == INSTANCE RWLock WITH writer <- wlock, reader <- rlock

FcntlLocks == {"none", "read", "write"}

Init ==
  /\ file = [n \in Names |-> Absent]
  /\ L!Init
  /\ flk = [n \in Names |-> "none"]
  /\ ext = [n \in Names |-> "none"]
  /\ pc = [t \in Threads |-> "idle"]
  /\ job = [t \in Threads |-> None]
  /\ res = [t \in Threads |-> None]
  /\ rows = [t \in Threads |-> <<>>]
  /\ sent = [t \in Threads |-> None]
  /\ was = [n \in Names |-> Absent]

Goto(t, l)       == pc' = [pc EXCEPT ![t] = l]
GotoWith(t, l, a) == Goto(t, l) /\ res' = [res EXCEPT ![t] = a]
At(t, l)         == pc[t] = l
N(t)             == job[t].name

(* dispatch_request_timed calls the handler of the opcode.  A handler sees *)
(* a malformed payload or an invalid name before it locks anything.        *)
FirstStep(r) ==
  CASE r.op = "bad"      -> "refuse"
    [] r.op = "list"     -> "opendir"
    [] r.op = "download" -> "read_lock"
    [] OTHER             -> "write_lock"

Start(t, r) ==
  /\ At(t, "idle")
  /\ job' = [job EXCEPT ![t] = r]
  /\ sent' = [sent EXCEPT ![t] = None]
  /\ Goto(t, FirstStep(r))
  /\ UNCHANGED <<file, locks, flk, ext, res, rows, was>>

Refuse(t) ==
  /\ At(t, "refuse")
  /\ GotoWith(t, "reply", Err(job[t].code))
  /\ UNCHANGED <<file, locks, flk, ext, job, rows, sent, was>>

(* send_message or send_error, then process_job closes the connection.  An *)
(* error for which send_error finds no memory is not sent at all.          *)
Reply(t) ==
  /\ At(t, "reply")
  /\ \/ sent' = [sent EXCEPT ![t] = res[t]]
     \/ IoMayFail /\ res[t].code # 0 /\ UNCHANGED sent
  /\ job' = [job EXCEPT ![t] = None]
  /\ rows' = [rows EXCEPT ![t] = <<>>]
  /\ GotoWith(t, "idle", None)
  /\ UNCHANGED <<file, locks, flk, ext, was>>

(* fileops_lock_acquire_write and fileops_lock_release_write               *)
AcquireWrite(t) ==
  /\ At(t, "write_lock")
  /\ L!EnterWrite(t, N(t))
  /\ was' = [was EXCEPT ![N(t)] = file[N(t)]]
  /\ Goto(t, job[t].op)
  /\ UNCHANGED <<file, flk, ext, job, res, rows, sent>>

ReleaseWrite(t) ==
  /\ At(t, "write_unlock")
  /\ L!LeaveWrite(t, N(t))
  /\ was' = [was EXCEPT ![N(t)] = Absent]
  /\ Goto(t, "reply")
  /\ UNCHANGED <<file, flk, ext, job, res, rows, sent>>

-----------------------------------------------------------------------------
(* handle_upload_timed.  open truncates an existing file and keeps its     *)
(* mode.                                                                   *)
OpenForUpload(t) ==
  /\ At(t, "upload")
  /\ LET f == file[N(t)]
     IN  \/ /\ CanWrite(f)
            /\ file' = [file EXCEPT ![N(t)] = [body |-> Whole(Empty), mode |-> ModeAfterUpload(f)]]
            /\ Goto(t, "fcntl_write")
            /\ UNCHANGED res
         \/ /\ ~CanWrite(f) \/ IoMayFail
            /\ GotoWith(t, "write_unlock", Err(500))
            /\ UNCHANGED file
  /\ UNCHANGED <<locks, flk, ext, job, rows, sent, was>>

(* fileops_lock_fd waits for other processes; when it fails the file stays *)
(* as open left it, and closing it drops the process's lock on it.         *)
LockForUpload(t) ==
  /\ At(t, "fcntl_write")
  /\ \/ /\ ext[N(t)] = "none"
        /\ flk' = [flk EXCEPT ![N(t)] = "write"]
        /\ Goto(t, "write")
        /\ UNCHANGED res
     \/ /\ IoMayFail
        /\ flk' = [flk EXCEPT ![N(t)] = "none"]
        /\ GotoWith(t, "write_unlock", Err(500))
  /\ UNCHANGED <<file, locks, ext, job, rows, sent, was>>

PutBody(n, b) == file' = [file EXCEPT ![n].body = b]

(* The one write call: bytes appear while it runs, and when it returns     *)
(* short or fails what it wrote stays.                                     *)
WriteSome(t) ==
  /\ At(t, "write") /\ job[t].data # Empty
  /\ PutBody(N(t), Part(job[t].data))
  /\ Goto(t, "writing")
  /\ UNCHANGED <<locks, flk, ext, job, res, rows, sent, was>>

WriteAll(t) ==
  /\ pc[t] \in {"write", "writing"}
  /\ PutBody(N(t), Whole(job[t].data))
  /\ Goto(t, "fsync")
  /\ UNCHANGED <<locks, flk, ext, job, res, rows, sent, was>>

WriteFails(t) ==
  /\ IoMayFail
  /\ pc[t] \in {"write", "writing"} /\ job[t].data # Empty
  /\ GotoWith(t, "close_write", Err(500))
  /\ UNCHANGED <<file, locks, flk, ext, job, rows, sent, was>>

(* The result of fsync is ignored.                                         *)
Sync(t) ==
  /\ At(t, "fsync")
  /\ GotoWith(t, "close_write", Ok)
  /\ UNCHANGED <<file, locks, flk, ext, job, rows, sent, was>>

CloseUpload(t) ==
  /\ At(t, "close_write")
  /\ flk' = [flk EXCEPT ![N(t)] = "none"]
  /\ Goto(t, "write_unlock")
  /\ UNCHANGED <<file, locks, ext, job, res, rows, sent, was>>

-----------------------------------------------------------------------------
(* handle_delete and handle_chmod answer 404 for every failure.  The locks *)
(* of other processes stay with the file that lost its name.               *)
Unlink(t) ==
  /\ At(t, "delete")
  /\ \/ /\ file[N(t)] # Absent
        /\ file' = [file EXCEPT ![N(t)] = Absent]
        /\ ext' = [ext EXCEPT ![N(t)] = "none"]
        /\ GotoWith(t, "write_unlock", Ok)
     \/ /\ file[N(t)] = Absent \/ IoMayFail
        /\ GotoWith(t, "write_unlock", Err(404))
        /\ UNCHANGED <<file, ext>>
  /\ UNCHANGED <<locks, flk, job, rows, sent, was>>

ChangeMode(t) ==
  /\ At(t, "chmod")
  /\ \/ /\ file[N(t)] # Absent
        /\ file' = [file EXCEPT ![N(t)].mode = job[t].mode]
        /\ GotoWith(t, "write_unlock", Ok)
     \/ /\ file[N(t)] = Absent \/ IoMayFail
        /\ GotoWith(t, "write_unlock", Err(404))
        /\ UNCHANGED file
  /\ UNCHANGED <<locks, flk, ext, job, rows, sent, was>>

-----------------------------------------------------------------------------
(* handle_download                                                         *)
AcquireReadAnyway(t) ==
  /\ At(t, "read_lock")
  /\ rlock' = [rlock EXCEPT ![N(t)] = @ \cup {t}]
  /\ Goto(t, "map")
  /\ UNCHANGED <<file, wlock, flk, ext, job, res, rows, sent, was>>

AcquireRead(t) ==
  /\ At(t, "read_lock")
  /\ L!EnterRead(t, N(t))
  /\ Goto(t, "map")
  /\ UNCHANGED <<file, flk, ext, job, res, rows, sent, was>>

MapFileLeaksLock(t) ==
  /\ At(t, "map")
  /\ LET f == file[N(t)]
     IN  \/ CanRead(f) /\ GotoWith(t, "fcntl_read", FileData(f.body))
         \/ (~CanRead(f) \/ IoMayFail) /\ GotoWith(t, "reply", Err(404))
  /\ UNCHANGED <<file, locks, flk, ext, job, rows, sent, was>>

(* fileops_open_for_mmap_read: a file that cannot be opened or examined is *)
(* reported as not found, one that cannot be mapped as an internal error.  *)
(* Closing it after a failure drops the process's fcntl lock on it.        *)
MapFile(t) ==
  /\ At(t, "map")
  /\ LET f == file[N(t)]
     IN  \/ CanRead(f) /\ GotoWith(t, "fcntl_read", FileData(f.body)) /\ UNCHANGED flk
         \/ (~CanRead(f) \/ IoMayFail) /\ GotoWith(t, "miss", Err(404)) /\ UNCHANGED flk
         \/ /\ IoMayFail /\ CanRead(f)
            /\ \E c \in {404, 500} :
                 (c = 500 => f.body # Whole(Empty)) /\ GotoWith(t, "miss", Err(c))
            /\ flk' = [flk EXCEPT ![N(t)] = "none"]
  /\ UNCHANGED <<file, locks, ext, job, rows, sent, was>>

(* The result of fileops_lock_fd is ignored.                               *)
LockForDownload(t) ==
  /\ At(t, "fcntl_read")
  /\ \/ ext[N(t)] # "write" /\ flk' = [flk EXCEPT ![N(t)] = "read"]
     \/ IoMayFail /\ UNCHANGED flk
  /\ Goto(t, "send")
  /\ UNCHANGED <<file, locks, ext, job, res, rows, sent, was>>

(* The header gives the size found by fstat, the body is what the mapping  *)
(* shows now.                                                              *)
SendFile(t) ==
  /\ At(t, "send")
  /\ sent' = [sent EXCEPT ![t] = IF file[N(t)] = Absent THEN res[t]
                                 ELSE FileData(file[N(t)].body)]
  /\ GotoWith(t, "unmap", None)
  /\ UNCHANGED <<file, locks, flk, ext, job, rows, was>>

(* fileops_unlock_fd and fileops_close_mmap drop the lock of the process,  *)
(* whichever worker took it.                                               *)
UnmapAndClose(t) ==
  /\ At(t, "unmap")
  /\ flk' = [flk EXCEPT ![N(t)] = "none"]
  /\ Goto(t, "read_unlock")
  /\ UNCHANGED <<file, locks, ext, job, res, rows, sent, was>>

ReleaseRead(t) ==
  /\ pc[t] \in {"miss", "read_unlock"}
  /\ L!LeaveRead(t, N(t))
  /\ \/ At(t, "miss") /\ Goto(t, "reply") /\ UNCHANGED job
     \/ At(t, "read_unlock") /\ Goto(t, "idle") /\ job' = [job EXCEPT ![t] = None]
  /\ UNCHANGED <<file, flk, ext, res, rows, sent, was>>

-----------------------------------------------------------------------------
(* handle_list takes no lock.  readdir gets the names with one system call *)
(* (a directory of many entries needs several); each entry is looked at    *)
(* later, and left out when it is gone by then.                            *)
OpenDir(t) ==
  /\ At(t, "opendir")
  /\ \/ /\ rows' = [rows EXCEPT ![t] = [n \in {m \in Names : file[m] = Absent} |-> Absent]]
        /\ Goto(t, "stat")
        /\ UNCHANGED res
     \/ IoMayFail /\ GotoWith(t, "reply", Err(500)) /\ UNCHANGED rows
  /\ UNCHANGED <<file, locks, flk, ext, job, sent, was>>

StatEntry(t, n) ==
  /\ At(t, "stat") /\ n \notin DOMAIN rows[t]
  /\ rows' = [rows EXCEPT ![t] = SeenMore(@, [m \in {n} |-> file[n]])]
  /\ UNCHANGED <<file, locks, flk, ext, pc, job, res, sent, was>>

EndList(t) ==
  /\ At(t, "stat")
  /\ \/ DOMAIN rows[t] = Names /\ GotoWith(t, "reply", Listing(rows[t]))
     \/ IoMayFail /\ GotoWith(t, "reply", Err(500))
  /\ UNCHANGED <<file, locks, flk, ext, job, rows, sent, was>>

-----------------------------------------------------------------------------
(* Another process that uses fcntl locks, as handlers.c expects of it.     *)
Compatible(k, held) == held = "none" \/ (k = "read" /\ held = "read")

ExternalLock(n, k) ==
  /\ External /\ file[n] # Absent /\ ext[n] = "none"
  /\ Compatible(k, flk[n])
  /\ ext' = [ext EXCEPT ![n] = k]
  /\ UNCHANGED <<file, locks, flk, pc, job, res, rows, sent, was>>

ExternalUnlock(n) ==
  /\ ext[n] # "none"
  /\ ext' = [ext EXCEPT ![n] = "none"]
  /\ UNCHANGED <<file, locks, flk, pc, job, res, rows, sent, was>>

-----------------------------------------------------------------------------
Upload(t)   == OpenForUpload(t) \/ LockForUpload(t) \/ WriteSome(t) \/ WriteAll(t)
                 \/ WriteFails(t) \/ Sync(t) \/ CloseUpload(t)
Download(t) == MapFile(t) \/ LockForDownload(t) \/ SendFile(t) \/ UnmapAndClose(t)
List(t)     == OpenDir(t) \/ (\E n \in Names : StatEntry(t, n)) \/ EndList(t)
Acquire(t)  == AcquireWrite(t) \/ AcquireRead(t)
Release(t)  == ReleaseWrite(t) \/ ReleaseRead(t)

(* A worker on its own, from a request to its response.                    *)
Work(t) ==
  \/ Refuse(t) \/ Reply(t)
  \/ Acquire(t) \/ Release(t)
  \/ Upload(t) \/ Download(t) \/ List(t)
  \/ Unlink(t) \/ ChangeMode(t)

Next ==
  \/ \E t \in Threads, r \in Requests : Start(t, r)
  \/ \E t \in Threads : Work(t)
  \/ \E n \in Names : (\E k \in {"read", "write"} : ExternalLock(n, k)) \/ ExternalUnlock(n)

Spec == Init /\ [][Next]_vars

(* Sending a file or a listing takes as long as the client likes; every    *)
(* other response fits the socket's buffer.                                *)
AtClient(t) == At(t, "send") \/ (At(t, "reply") /\ job[t].op = "list")

(* Every worker runs on unless it waits for its client, and so does another*)
(* process that holds a lock.                                              *)
FairSpec ==
  /\ Spec
  /\ \A t \in Threads : WF_vars(~AtClient(t) /\ Work(t))
  /\ \A n \in Names : WF_vars(ExternalUnlock(n))

-----------------------------------------------------------------------------
Locations ==
  {"idle", "refuse", "reply", "write_lock", "write_unlock", "read_lock", "read_unlock",
   "upload", "fcntl_write", "write", "writing", "fsync", "close_write",
   "delete", "chmod", "map", "miss", "fcntl_read", "send", "unmap", "opendir", "stat"}

InWriteLock == {"upload", "fcntl_write", "write", "writing", "fsync", "close_write",
                "delete", "chmod", "write_unlock"}
InReadLock  == {"map", "miss", "fcntl_read", "send", "unmap", "read_unlock"}

(* Type correctness, with the tie between where a worker is and what it    *)
(* holds: every path through a handler releases the lock it took, once.    *)
TypeOK ==
  /\ file \in [Names -> Files \cup {Absent}]
  /\ was \in [Names -> Files \cup {Absent}]
  /\ flk \in [Names -> FcntlLocks] /\ ext \in [Names -> FcntlLocks]
  /\ pc \in [Threads -> Locations]
  /\ \A t \in Threads :
       /\ job[t] \in IF At(t, "idle") THEN {None} ELSE Requests
       /\ \A n \in Names :
            /\ t \in wlock[n] <=> pc[t] \in InWriteLock /\ n = N(t)
            /\ t \in rlock[n] <=> pc[t] \in InReadLock /\ n = N(t)

(* "it never reads a half written file" (api_reference.md, section 7):     *)
(* what a client downloads is a whole upload, however many workers serve   *)
(* the file at the time.                                                   *)
DownloadsWhole ==
  \A t \in Threads :
    sent[t] # None /\ "body" \in DOMAIN sent[t] => sent[t].body.part = "all"

(* "cross process writer lock on the fd itself, safe even if another       *)
(* process opens the file" (handlers.c): while an upload writes and syncs  *)
(* its file the process has the fcntl lock for writing.  Such a lock       *)
(* belongs to the process, so a close or an unlock by any other worker     *)
(* that had the file open would drop it.                                   *)
UploadKeepsFcntlLock ==
  \A t \in Threads :
    pc[t] \in {"write", "writing", "fsync"} => flk[N(t)] = "write"

(* Once no new request arrives, and no other process locks a file again,   *)
(* every request gets its response: no handler waits for another for ever, *)
(* and none leaves a lock behind that another one needs.  A client that    *)
(* does not read what it asked for holds up itself, and those who want to  *)
(* change that one file; downloads of it, and other files, go on.          *)
HeldUp(t) ==
  \/ AtClient(t)
  \/ At(t, "write_lock") /\ \E u \in Threads : At(u, "send") /\ N(u) = N(t)

QuietEventually ==
  <>[][/\ ~\E t \in Threads, r \in Requests : Start(t, r)
       /\ ~\E n \in Names, k \in {"read", "write"} : ExternalLock(n, k)]_vars

OnlyClientsHoldUp ==
  QuietEventually => \A t \in Threads : ~At(t, "idle") ~> At(t, "idle") \/ HeldUp(t)

(* The promise.  A download is decided when it maps the file, an upload    *)
(* when it releases its lock (before that its file counts as it was), a    *)
(* delete or a chmod by its system call; an answered request is over when  *)
(* its response is sent, before a download's clean-up.                     *)
Uploading(n) == \E t \in wlock[n] : job[t].op = "upload"

JobOf(t) == IF pc[t] \in {"idle", "unmap", "read_unlock"} THEN None ELSE job[t]

AnswerOf(t) ==
  IF \/ pc[t] \in {"reply", "miss", "fcntl_read", "send"}
     \/ At(t, "write_unlock") /\ job[t].op # "upload"
  THEN res[t] ELSE None

StoreSeen == [n \in Names |-> IF Uploading(n) THEN was[n] ELSE file[n]]
JobsOpen  == [t \in Threads |-> JobOf(t)]
Decided   == [t \in Threads |-> AnswerOf(t)]

A == INSTANCE AtomicStore WITH store <- StoreSeen, job <- JobsOpen, ans <- Decided

Atomic == A!Spec
=============================================================================
