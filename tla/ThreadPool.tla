----------------------------- MODULE ThreadPool -----------------------------
(***************************************************************************)
(* The worker pool of threadpool.c: a job queue under queue_lock, workers  *)
(* that sleep on queue_cond, and the main thread, which submits and in the *)
(* end shuts the pool down.                                                *)
(*                                                                         *)
(* A step is one critical section of queue_lock, up to the unlock or the   *)
(* pthread_cond_wait that gives the lock back, or one stage of process_job.*)
(* A job stands for the connection it carries.                             *)
(***************************************************************************)
EXTENDS Naturals, Sequences, FiniteSets, Functions

CONSTANTS Workers,
          Conns,
          WithPayload,  \* connections whose header announces a payload
          MemMayFail,   \* may malloc fail?
          None

ASSUME ThreadPoolAssumption ==
  /\ IsFiniteSet(Workers) /\ Workers # {}
  /\ WithPayload \subseteq Conns
  /\ MemMayFail \in BOOLEAN
  /\ None \notin Conns

VARIABLES queue,    \* the list from queue_head to queue_tail
          running,  \* pool_running
          wpc,      \* where each worker is
          cur,      \* the job it processes, or None
          closed,   \* connections whose descriptor the pool has closed
          served,   \* connections that got as far as a handler
          joining   \* the main thread: "no", "yes" in threadpool_shutdown, "done"

poolVars == <<queue, running, wpc, cur, closed, served, joining>>

(* "top"   about to get queue_lock, also after a wakeup                    *)
(* "wait"  blocked in pthread_cond_wait                                    *)
(* "recv"  in process_job, reading the payload                             *)
(* "serve" in dispatch_request_timed, at work for its answer               *)
(* "send"  still there, in send_full until the client has read the answer  *)
(* "exit"  returned from worker_main                                       *)
Places == {"top", "wait", "recv", "serve", "send", "exit"}

InState(l) == {w \in Workers : wpc[w] = l}

Init ==
  /\ queue = <<>>
  /\ running = TRUE
  /\ wpc = [w \in Workers |-> "top"]
  /\ cur = [w \in Workers |-> None]
  /\ closed = {}
  /\ served = {}
  /\ joining = "no"

Goto(w, l) == wpc' = [wpc EXCEPT ![w] = l]

(* pthread_cond_signal wakes a sleeper if there is one.                    *)
NoSignal == UNCHANGED wpc

Signal ==
  \/ InState("wait") = {} /\ UNCHANGED wpc
  \/ \E w \in InState("wait") : Goto(w, "top")

(* threadpool_submit: the pool takes over the descriptor.                  *)
SubmitAtHead(c) ==
  /\ queue' = <<c>> \o queue
  /\ Signal
  /\ UNCHANGED closed

Submit(c) ==
  \/ /\ queue' = Append(queue, c)
     /\ Signal
     /\ UNCHANGED closed
  \/ /\ MemMayFail
     /\ closed' = closed \cup {c}
     /\ UNCHANGED <<queue, wpc>>

(* The connections the pool has been given.                                *)
InPool == Range(queue) \cup Range(cur) \cup closed

SubmitNew(c) ==
  /\ joining = "no"
  /\ c \notin InPool
  /\ Submit(c)
  /\ UNCHANGED <<running, cur, served, joining>>

(* worker_main: take a job, sleep, or leave once the pool has stopped and  *)
(* the queue is empty.                                                     *)
FirstStage(c) == IF c \in WithPayload THEN "recv" ELSE "serve"

PeekJob(w) ==
  /\ wpc[w] = "top" /\ queue # <<>>
  /\ cur' = [cur EXCEPT ![w] = Head(queue)]
  /\ Goto(w, FirstStage(Head(queue)))
  /\ UNCHANGED <<queue, running, closed, served, joining>>

TakeJob(w) ==
  /\ wpc[w] = "top" /\ queue # <<>>
  /\ cur' = [cur EXCEPT ![w] = Head(queue)]
  /\ queue' = Tail(queue)
  /\ Goto(w, FirstStage(Head(queue)))
  /\ UNCHANGED <<running, closed, served, joining>>

Sleep(w) ==
  /\ wpc[w] = "top" /\ queue = <<>> /\ running
  /\ Goto(w, "wait")
  /\ UNCHANGED <<queue, running, cur, closed, served, joining>>

MayExitWithWork == ~running

MayExit == queue = <<>> /\ ~running

Exit(w) ==
  /\ wpc[w] = "top" /\ MayExit
  /\ Goto(w, "exit")
  /\ UNCHANGED <<queue, running, cur, closed, served, joining>>

(* POSIX lets pthread_cond_wait return without a signal.                   *)
SpuriousWakeup(w) ==
  /\ wpc[w] = "wait"
  /\ Goto(w, "top")
  /\ UNCHANGED <<queue, running, cur, closed, served, joining>>

(* Every way out of process_job closes the descriptor.                     *)
LeakAndReturn(w) ==
  /\ cur' = [cur EXCEPT ![w] = None]
  /\ Goto(w, "top")
  /\ UNCHANGED closed

CloseAndReturn(w) ==
  /\ closed' = closed \cup {cur[w]}
  /\ cur' = [cur EXCEPT ![w] = None]
  /\ Goto(w, "top")

(* No memory for the payload.                                              *)
RecvNoMemory(w) ==
  /\ wpc[w] = "recv" /\ MemMayFail
  /\ CloseAndReturn(w)
  /\ UNCHANGED <<queue, running, served, joining>>

(* The client sent the payload.                                            *)
RecvAll(w) ==
  /\ wpc[w] = "recv"
  /\ Goto(w, "serve")
  /\ UNCHANGED <<queue, running, cur, closed, served, joining>>

(* The client closed early, or read failed (also interrupted by SIGINT).   *)
RecvShort(w) ==
  /\ wpc[w] = "recv"
  /\ CloseAndReturn(w)
  /\ UNCHANGED <<queue, running, served, joining>>

(* The handler has its answer.  A short one fits the buffer of the socket, *)
(* for others it waits in send_full until the client reads or is gone.     *)
Serve(w) ==
  /\ wpc[w] = "serve"
  /\ Goto(w, "send")
  /\ UNCHANGED <<queue, running, cur, closed, served, joining>>

Return(w) ==
  /\ wpc[w] = "send"
  /\ served' = served \cup {cur[w]}
  /\ CloseAndReturn(w)
  /\ UNCHANGED <<queue, running, joining>>

(* threadpool_shutdown: stop, wake everybody, join every worker.           *)
BroadcastOne == Signal

Broadcast == wpc' = [w \in Workers |-> IF wpc[w] = "wait" THEN "top" ELSE wpc[w]]

Shutdown ==
  /\ joining = "no"
  /\ running' = FALSE
  /\ Broadcast
  /\ joining' = "yes"
  /\ UNCHANGED <<queue, cur, closed, served>>

Joined ==
  /\ joining = "yes" /\ InState("exit") = Workers
  /\ joining' = "done"
  /\ UNCHANGED <<queue, running, wpc, cur, closed, served>>

(* What a worker does without its client, and what it needs the client for:*)
(* to send its payload or to read its answer, or to hang up.               *)
Work(w)   == TakeJob(w) \/ Sleep(w) \/ Exit(w) \/ Serve(w)
Client(w) == RecvAll(w) \/ RecvShort(w) \/ Return(w)

Next ==
  \/ \E c \in Conns : SubmitNew(c)
  \/ \E w \in Workers : Work(w) \/ Client(w) \/ RecvNoMemory(w) \/ SpuriousWakeup(w)
  \/ Shutdown
  \/ Joined

Spec == Init /\ [][Next]_poolVars

(* The main thread joins and workers run.  Of a handler this is what       *)
(* Handlers shows, once other processes have given back their fcntl locks: *)
(* it comes to its answer, unless another one sends all the while and has  *)
(* the file locked.  Nothing is assumed of clients, no call that waits for *)
(* one has a timeout.                                                      *)
WorksOn(w) ==
  \/ TakeJob(w) \/ Sleep(w) \/ Exit(w)
  \/ Serve(w) /\ InState("send") = {}

WorkersFair == WF_poolVars(Joined) /\ \A w \in Workers : WF_poolVars(WorksOn(w))

FairSpec == Spec /\ WorkersFair

-----------------------------------------------------------------------------
(* Type correctness, with the tie between a worker's place and its job.    *)
TypeOK ==
  /\ queue \in Seq(Conns)
  /\ running \in BOOLEAN
  /\ wpc \in [Workers -> Places]
  /\ cur \in [Workers -> Conns \cup {None}]
  /\ \A w \in Workers : cur[w] = None <=> wpc[w] \notin {"recv", "serve", "send"}
  /\ closed \subseteq Conns /\ served \subseteq closed
  /\ joining \in {"no", "yes", "done"}

(* A connection belongs to one job: it is not queued twice, not processed  *)
(* by two workers, and not processed or queued again once closed.  Closing *)
(* a descriptor twice could hit a connection accepted in the meantime.     *)
OneOwner ==
  /\ IsInjective(queue)
  /\ \A v, w \in Workers : v # w /\ cur[v] # None => cur[v] # cur[w]
  /\ \A w \in Workers : cur[w] \notin Range(queue)
  /\ closed \cap (Range(queue) \cup Range(cur)) = {}

(* No wakeup is lost: while a worker sleeps, there are at least as many    *)
(* workers on their way to the queue as there are jobs in it.  So a job    *)
(* never waits for a busy worker while an idle one sleeps, although submit *)
(* signals once per job and a woken worker may find its job taken.         *)
NoOversleeping == InState("wait") # {} => Len(queue) <= Cardinality(InState("top"))

(* After the stop flag nobody sleeps, and nobody leaves jobs behind.       *)
StopReachesAll ==
  /\ ~running => InState("wait") = {}
  /\ InState("exit") # {} => ~running /\ queue = <<>>

(* Only clients hold the pool up.  A connection submitted is closed in the *)
(* end, unless its own client keeps its worker for ever, or clients keep   *)
(* all of them: as long as one worker comes back, queued jobs go on.  And  *)
(* shutdown returns unless a client keeps one worker for ever.             *)
WithClient(w) == wpc[w] \in {"recv", "send"}

HeldUp(w) ==
  \/ WithClient(w)
  \/ wpc[w] = "serve" /\ InState("send") # {}


ShutdownReturns ==
  joining = "yes" ~> joining = "done" \/ \E w \in Workers : [](WithClient(w))

(* The pool implements the queue.                                          *)
Q == INSTANCE JobQueue WITH
       todo      <- queue,
       doing     <- Range(cur) \ {None},
       ended     <- closed,
       down      <- joining = "done",
       MayRefuse <- MemMayFail

QueueSpec == Q!Spec
=============================================================================
