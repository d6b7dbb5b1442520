------------------------------- MODULE Server -------------------------------
(***************************************************************************)
(* The server process around the handlers: the select loop of net.c, which *)
(* accepts connections, reads headers and hands connections to the pool,   *)
(* the SIGINT flag and the shutdown of main.c, and the pool of ThreadPool. *)
(*                                                                         *)
(* A connection stands for its descriptor, so a descriptor closed twice or *)
(* used by two owners shows as a connection in two places.                 *)
(***************************************************************************)
EXTENDS Naturals, Sequences, FiniteSets, Functions

CONSTANTS Workers, Conns, WithPayload, None,
          MemMayFail,   \* may malloc, or accept for want of descriptors, fail?
          MaxClients    \* NERVFS_MAX_CLIENTS

ASSUME ServerAssumption ==
  /\ IsFiniteSet(Workers) /\ Workers # {}
  /\ WithPayload \subseteq Conns
  /\ MemMayFail \in BOOLEAN
  /\ None \notin Conns
  /\ MaxClients \in Nat \ {0}

VARIABLES queue, running, wpc, cur, closed, served, joining,   \* the pool's
          client,     \* client[c]: what the client has done on its connection
          backlog,    \* connections the kernel holds for accept
          slots,      \* client_fds, with None for -1
          dropped,    \* connections the select loop has closed
          lpc,        \* where the main thread is in net_run_select_loop
          i,          \* the slot it looks at next after select
          readable,   \* the client bits that select left in read_set
          knocking,   \* the listener's bit
          go          \* nervfs_running

pool  == <<queue, running, wpc, cur, closed, served, joining>>
loop  == <<backlog, slots, dropped, lpc, i, readable, knocking, go>>
vars  == <<pool, client, loop>>

P == INSTANCE ThreadPool

(* "away" not connected, "quiet" nothing sent yet, "part" some bytes of the*)
(* header, "full" a header with magic and version, "bad" one without,      *)
(* "gone" closed before a whole header.                                    *)
Deeds == {"away", "quiet", "part", "full", "bad", "gone"}
Slots == 1..MaxClients

Init ==
  /\ P!Init
  /\ client = [c \in Conns |-> "away"]
  /\ backlog = {} /\ dropped = {}
  /\ slots = [s \in Slots |-> None]
  /\ lpc = "check" /\ i = 1 /\ readable = {} /\ knocking = FALSE
  /\ go = TRUE

-----------------------------------------------------------------------------
(* The clients.                                                            *)
Connect(c) ==
  /\ client[c] = "away"
  /\ client' = [client EXCEPT ![c] = "quiet"]
  /\ backlog' = backlog \cup {c}
  /\ UNCHANGED <<pool, slots, dropped, lpc, i, readable, knocking, go>>

SendPart(c) ==
  /\ client[c] = "quiet"
  /\ client' = [client EXCEPT ![c] = "part"]
  /\ UNCHANGED <<pool, loop>>

EndHeader(c) ==
  /\ client[c] \in {"quiet", "part"}
  /\ \E d \in {"full", "bad", "gone"} : client' = [client EXCEPT ![c] = d]
  /\ UNCHANGED <<pool, loop>>

-----------------------------------------------------------------------------
(* The loop's condition; the read set is built from the slots.             *)
Check ==
  /\ lpc = "check"
  /\ lpc' = IF go THEN "select" ELSE "close_all"
  /\ UNCHANGED <<pool, client, backlog, slots, dropped, i, readable, knocking, go>>

WatchedButLast == {slots[s] : s \in Slots \ {MaxClients}} \ {None}

Watched == Range(slots) \ {None}

Select ==
  /\ lpc = "select"
  /\ readable' = {c \in Watched : client[c] # "quiet"}
  /\ knocking' = (backlog # {})
  /\ readable' # {} \/ knocking'
  /\ lpc' = "accept"
  /\ UNCHANGED <<pool, client, backlog, slots, dropped, i, go>>

(* The first free slot gets the connection; without one it is closed.      *)
FreeSlots == {s \in Slots : slots[s] = None}

Enter(c) ==
  IF FreeSlots = {}
  THEN dropped' = dropped \cup {c} /\ UNCHANGED slots
  ELSE LET first == CHOOSE s \in FreeSlots : \A r \in FreeSlots : s <= r
       IN  slots' = [slots EXCEPT ![first] = c] /\ UNCHANGED dropped

AcceptConn ==
  /\ lpc = "accept" /\ knocking
  /\ \E c \in backlog : backlog' = backlog \ {c} /\ Enter(c)
  /\ lpc' = "scan"
  /\ UNCHANGED <<pool, client, i, readable, knocking, go>>

(* Nobody knocks, or accept fails, for one for want of descriptors.        *)
NoAccept ==
  /\ lpc = "accept" /\ (knocking => MemMayFail)
  /\ lpc' = "scan"
  /\ UNCHANGED <<pool, client, backlog, slots, dropped, i, readable, knocking, go>>

(* client_fds[i] = -1, whoever owns the descriptor now.                    *)
KeepSlot == UNCHANGED slots

FreeSlot == slots' = [slots EXCEPT ![i] = None]

DropConn == dropped' = dropped \cup {slots[i]}

SkipSlot ==
  /\ lpc = "scan" /\ i \in Slots
  /\ slots[i] \notin readable
  /\ i' = i + 1
  /\ UNCHANGED <<pool, client, backlog, slots, dropped, lpc, readable, knocking, go>>

(* handle_client_readable: reads the whole header, waiting for it when only*)
(* a part is there, and submits the connection or has it closed.           *)
HandleReadable ==
  /\ lpc = "scan" /\ i \in Slots
  /\ slots[i] \in readable
  /\ \/ /\ client[slots[i]] = "full"
        /\ P!Submit(slots[i])
        /\ UNCHANGED dropped
     \/ /\ client[slots[i]] \in {"bad", "gone"}
        /\ DropConn
        /\ UNCHANGED <<queue, wpc, closed>>
  /\ FreeSlot
  /\ i' = i + 1
  /\ UNCHANGED <<running, cur, served, joining, client, backlog, lpc, readable, knocking, go>>

EndScan ==
  /\ lpc = "scan" /\ i > MaxClients
  /\ lpc' = "check"
  /\ i' = 1 /\ readable' = {} /\ knocking' = FALSE
  /\ UNCHANGED <<pool, client, backlog, slots, dropped, go>>

(* After the loop: close what was accepted and not handed over.            *)
ForgetSlots ==
  /\ lpc = "close_all"
  /\ slots' = [s \in Slots |-> None]
  /\ lpc' = "stopped"
  /\ UNCHANGED <<pool, client, backlog, dropped, i, readable, knocking, go>>

CloseAll ==
  /\ lpc = "close_all"
  /\ dropped' = dropped \cup Watched
  /\ slots' = [s \in Slots |-> None]
  /\ lpc' = "stopped"
  /\ UNCHANGED <<pool, client, backlog, i, readable, knocking, go>>

(* main calls threadpool_shutdown when the loop has returned.              *)
FlagCleared == ~go

LoopReturned == lpc = "stopped"

Shutdown == LoopReturned /\ P!Shutdown /\ UNCHANGED <<client, loop>>

Joined == P!Joined /\ UNCHANGED <<client, loop>>

(* SIGINT.  Its handler runs in the main thread, and the system call the   *)
(* thread is blocked in fails with EINTR: select goes back to the loop's   *)
(* condition, the read of a header has the connection closed.  A signal    *)
(* between the loop's condition and select (lpc is "select" there too), or *)
(* anywhere else outside a blocked call, only clears the flag.             *)
Sigint ==
  /\ go
  /\ go' = FALSE
  /\ \/ /\ lpc = "select"
        /\ lpc' = "check"
        /\ UNCHANGED <<dropped, slots, i>>
     \/ /\ lpc = "scan" /\ i \in Slots
        /\ slots[i] \in readable /\ client[slots[i]] = "part"
        /\ DropConn /\ FreeSlot
        /\ i' = i + 1
        /\ UNCHANGED lpc
     \/ UNCHANGED <<dropped, slots, lpc, i>>
  /\ UNCHANGED <<pool, client, backlog, readable, knocking>>

Loop == Check \/ Select \/ AcceptConn \/ NoAccept \/ SkipSlot \/ HandleReadable \/ EndScan \/ CloseAll

WorkerStep(w) == P!Work(w) /\ UNCHANGED <<client, loop>>
PeerStep(w) == P!Client(w) /\ UNCHANGED <<client, loop>>
WorkerTrouble(w) == (P!RecvNoMemory(w) \/ P!SpuriousWakeup(w)) /\ UNCHANGED <<client, loop>>

Next ==
  \/ \E c \in Conns : Connect(c) \/ SendPart(c) \/ EndHeader(c)
  \/ Loop \/ Shutdown \/ Joined \/ Sigint
  \/ \E w \in Workers : WorkerStep(w) \/ PeerStep(w) \/ WorkerTrouble(w)

Spec == Init /\ [][Next]_vars

(* The main thread and the workers run as far as no client keeps them, and *)
(* accept does not fail for ever.                                          *)
ServerFair ==
  /\ WF_vars(Loop) /\ WF_vars(Shutdown) /\ WF_vars(Joined) /\ SF_vars(AcceptConn)
  /\ \A w \in Workers : WF_vars(P!WorksOn(w) /\ UNCHANGED <<client, loop>>)

(* A client that has connected sends a header and the payload it announced *)
(* and reads its answer, or hangs up.                                      *)
ClientsFair ==
  /\ \A c \in Conns : WF_vars(EndHeader(c))
  /\ \A w \in Workers : WF_vars(PeerStep(w))

FairSpec       == Spec /\ ServerFair /\ ClientsFair
ServerFairSpec == Spec /\ ServerFair

-----------------------------------------------------------------------------
Queued  == Range(queue)
Handled == Range(cur) \ {None}
Places  == <<backlog, Watched, Queued, Handled, dropped, closed>>

(* Type correctness, with the tie between the main thread's place and the  *)
(* pool: shutdown starts when the loop has let go of everything.           *)
TypeOK ==
  /\ P!TypeOK
  /\ client \in [Conns -> Deeds]
  /\ backlog \subseteq Conns /\ dropped \subseteq Conns /\ readable \subseteq Conns
  /\ slots \in [Slots -> Conns \cup {None}]
  /\ lpc \in {"check", "select", "accept", "scan", "close_all", "stopped"}
  /\ i \in 1..(MaxClients + 1)
  /\ {knocking, go} \subseteq BOOLEAN
  /\ joining # "no" => lpc = "stopped" /\ Watched = {}

(* "result 2 means the thread pool owns the fd now" (net.c): a descriptor  *)
(* has one owner at a time, and none once it is closed.                    *)
OneOwner ==
  /\ \A a, b \in DOMAIN Places : a # b => Places[a] \cap Places[b] = {}
  /\ \A r, s \in Slots : r # s /\ slots[r] # None => slots[r] # slots[s]
  /\ P!OneOwner

(* No descriptor is lost: a client that connected waits for accept, has an *)
(* owner, or has been closed; and when main is about to return everything  *)
(* accepted has been closed.                                               *)
NoneLost ==
  /\ \A c \in Conns : client[c] = "away" <=> \A a \in DOMAIN Places : c \notin Places[a]
  /\ joining = "done" => \A c \in Conns : client[c] # "away" => c \in backlog \cup dropped \cup closed

(* The loop uses the pool as ThreadPool assumes: it never submits a        *)
(* connection again, and nothing once shutdown has begun.                  *)
PoolSpec == P!Spec

(* A client that connects is served or turned away, unless the server is   *)
(* told to stop or a client does not do its part: this one itself, one     *)
(* that leaves the loop with a part of a header, or as many as there are   *)
(* workers, who send no payload or read no answer.                         *)
Done(c) == c \in closed \cup dropped

MidHeader == lpc = "scan" /\ i \in Slots /\ slots[i] \in readable /\ client[slots[i]] = "part"

HeldUp(c) ==
  \/ client[c] \in {"quiet", "part"}
  \/ MidHeader
  \/ \E w \in Workers : cur[w] = c /\ P!HeldUp(w)
  \/ \A w \in Workers : P!HeldUp(w)

EveryClientServed ==
  \A c \in Conns : client[c] # "away" ~> Done(c) \/ ~go \/ [](HeldUp(c))

(* "all connected client fds multiplexed without one blocking another"     *)
(* (readme.md): a client whose header has arrived gets to the pool, or is  *)
(* turned away, whatever the other clients do.                             *)
HeadersNotBlocked ==
  \A c \in Conns : client[c] = "full" ~> c \notin backlog \cup Watched \/ ~go

(* "SIGINT sets a flag and drains the thread pool" (readme.md), "let the   *)
(* while condition above notice and stop cleanly" (net.c).                 *)
SigintStopsServer == ~go ~> joining = "done"
=============================================================================
