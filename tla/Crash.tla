------------------------------- MODULE Crash -------------------------------
(***************************************************************************)
(* Handlers with what is on the disk: the server may be killed, and the    *)
(* machine may lose power, between any two steps, and the server starts    *)
(* again.  handlers.c syncs a file once, after the write of an upload; it  *)
(* never syncs a directory.                                                *)
(*                                                                         *)
(* The file system is the weakest POSIX allows: what is not synced may be  *)
(* on the disk or not.  fsync makes the bytes and the mode of the file     *)
(* durable, not the name under which it was created.                       *)
(***************************************************************************)
EXTENDS Handlers

VARIABLES disk,  \* disk[n]: what a loss of power may leave under the name n
          good   \* auxiliary, good[n]: the content the last upload of n wrote
                 \* and synced, or None if that did not succeed or is undone

crashVars == <<vars, disk, good>>

(* disk[n].now: the states in which the file that is called n now may be   *)
(* found; disk[n].before: what may be found in its place.                  *)
CrashInit ==
  /\ Init
  /\ disk = [n \in Names |-> [now |-> {}, before |-> {Absent}]]
  /\ good = [n \in Names |-> None]

Found(n) == disk[n].now \cup disk[n].before

(* Any of the earlier bytes with any of the earlier modes.                 *)
WithBodies(files, bodies) == files \cup {[f EXCEPT !.body = b] : f \in files, b \in bodies}
WithMode(files, m)        == files \cup {[f EXCEPT !.mode = m] : f \in files}

OpenOnDisk(t) ==
  /\ OpenForUpload(t)
  /\ disk' = IF pc'[t] = "write_unlock" THEN disk
             ELSE [disk EXCEPT ![N(t)].now =
                     IF file[N(t)] = Absent THEN {file'[N(t)]} ELSE WithBodies(@, {Whole(Empty)})]
  /\ UNCHANGED good

WriteOnDisk(t) ==
  /\ WriteSome(t) \/ WriteAll(t)
  /\ disk' = [disk EXCEPT ![N(t)].now = WithBodies(@, Prefixes(job[t].data))]
  /\ UNCHANGED good

GiveUpAndUnlink(t) ==
  \/ /\ LockForUpload(t)
     /\ good' = IF res'[t] = Err(500) THEN [good EXCEPT ![N(t)] = None] ELSE good
     /\ UNCHANGED disk
  \/ /\ IoMayFail /\ pc[t] \in {"write", "writing"}
     /\ file' = [file EXCEPT ![N(t)] = Absent]
     /\ GotoWith(t, "close_write", Err(500))
     /\ disk' = [disk EXCEPT ![N(t)] = [now |-> {}, before |-> Found(N(t)) \cup {Absent}]]
     /\ good' = [good EXCEPT ![N(t)] = None]
     /\ UNCHANGED <<locks, flk, ext, job, rows, sent, was>>

(* The upload fails after open has truncated the file.                     *)
GiveUp(t) ==
  /\ LockForUpload(t) \/ WriteFails(t)
  /\ good' = IF res'[t] = Err(500) THEN [good EXCEPT ![N(t)] = None] ELSE good
  /\ UNCHANGED disk

(* The result of fsync is ignored.                                         *)
SyncSkipped(t) ==
  /\ Sync(t)
  /\ good' = [good EXCEPT ![N(t)] = job[t].data]
  /\ UNCHANGED disk

SyncOnDisk(t) ==
  /\ Sync(t)
  /\ \/ /\ disk' = [disk EXCEPT ![N(t)].now = {file[N(t)]}]
        /\ good' = [good EXCEPT ![N(t)] = job[t].data]
     \/ /\ IoMayFail
        /\ good' = [good EXCEPT ![N(t)] = None]
        /\ UNCHANGED disk

(* The file stays on the disk under its name until the directory is        *)
(* written.                                                                *)
UnlinkOnDisk(t) ==
  /\ Unlink(t)
  /\ LET n == N(t)
     IN  IF file[n] # Absent /\ file'[n] = Absent
         THEN /\ disk' = [disk EXCEPT ![n] = [now |-> {}, before |-> Found(n) \cup {Absent}]]
              /\ good' = [good EXCEPT ![n] = None]
         ELSE UNCHANGED <<disk, good>>

ChmodOnDisk(t) ==
  /\ ChangeMode(t)
  /\ disk' = IF res'[t] = Ok THEN [disk EXCEPT ![N(t)].now = WithMode(@, job[t].mode)] ELSE disk
  /\ UNCHANGED good

-----------------------------------------------------------------------------
(* Either way the server starts again without connections and locks.       *)
Restart ==
  /\ wlock' = [n \in Names |-> {}]
  /\ rlock' = [n \in Names |-> {}]
  /\ flk' = [n \in Names |-> "none"]
  /\ pc' = [t \in Threads |-> "idle"]
  /\ job' = [t \in Threads |-> None]
  /\ res' = [t \in Threads |-> None]
  /\ rows' = [t \in Threads |-> <<>>]
  /\ sent' = [t \in Threads |-> None]
  /\ was' = [n \in Names |-> Absent]

(* The content an upload put under n, unless another one was at work.      *)
Settled(n) == IF Uploading(n) THEN None ELSE good[n]

Killed ==
  /\ Restart
  /\ good' = [n \in Names |-> Settled(n)]
  /\ UNCHANGED <<file, ext, disk>>

PowerLoss ==
  /\ Restart
  /\ file' \in {f \in [Names -> UNION {Found(n) : n \in Names}] : \A n \in Names : f[n] \in Found(n)}
  /\ disk' = [n \in Names |-> IF file'[n] = Absent THEN [now |-> {}, before |-> {Absent}]
                                                   ELSE [now |-> {file'[n]}, before |-> {}]]
  /\ good' = [n \in Names |-> IF file'[n] \in disk[n].now THEN Settled(n) ELSE None]
  /\ ext' = [n \in Names |-> "none"]

-----------------------------------------------------------------------------
OnDisk(t) ==
  \/ OpenOnDisk(t) \/ WriteOnDisk(t) \/ GiveUp(t) \/ SyncOnDisk(t)
  \/ UnlinkOnDisk(t) \/ ChmodOnDisk(t)

OffDisk(t) ==
  /\ \/ Refuse(t) \/ Reply(t) \/ Acquire(t) \/ Release(t)
     \/ CloseUpload(t) \/ Download(t) \/ List(t)
  /\ UNCHANGED <<disk, good>>

Others ==
  /\ \/ \E t \in Threads, r \in Requests : Start(t, r)
     \/ \E n \in Names : (\E k \in {"read", "write"} : ExternalLock(n, k)) \/ ExternalUnlock(n)
  /\ UNCHANGED <<disk, good>>

CrashNext ==
  \/ \E t \in Threads : OnDisk(t) \/ OffDisk(t)
  \/ Others
  \/ Killed
  \/ PowerLoss

CrashSpec == CrashInit /\ [][CrashNext]_crashVars

-----------------------------------------------------------------------------
(* fsync before the lock is released and the answer is sent: if it         *)
(* succeeded, all of an upload whose client was told it is done is found   *)
(* after a crash, for as long as the file itself is found and nobody has   *)
(* begun to change it.  The client is told the same when fsync failed, and *)
(* then nothing is promised here: good is None.                            *)
UploadsSurvive ==
  \A n \in Names :
    ~Uploading(n) /\ good[n] # None =>
      \A f \in disk[n].now \cup {file[n]} : f.body = Whole(good[n])

(* "It never reads a half written file" (api_reference.md, section 7), and *)
(* not an outdated one: what a download sends is what the last upload of   *)
(* the name put there and synced, unless a crash cut that upload off or    *)
(* took it away.                                                           *)
DownloadsLastUpload ==
  \A t \in Threads :
    At(t, "unmap") /\ good[N(t)] # None => sent[t].body = Whole(good[N(t)])

(* The promise, with crashes: every change is decided at one instant, and  *)
(* a kill of the server, at whatever step of however many handlers, undoes *)
(* none that was decided and leaves of the uploads under way a part at     *)
(* most; a loss of power leaves nothing that was never written.            *)
C == INSTANCE CrashStore WITH
       store <- StoreSeen, job <- JobsOpen, ans <- Decided, may <- [n \in Names |-> Found(n)]

AtomicDespiteCrashes == C!StoreSpec
=============================================================================
