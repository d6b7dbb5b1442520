---------------------------- MODULE ServerProofs ----------------------------
(***************************************************************************)
(* Proofs about Server, for any workers, connections and number of slots.  *)
(***************************************************************************)
EXTENDS Server, WellFoundedInduction, TLAPS

(* What is proved of the pool alone.                                       *)
PP == INSTANCE ThreadPoolProofs

-----------------------------------------------------------------------------
(* The inductive invariant.  The pool has its own (PP!Inv), which says who *)
(* owns what inside it; for the loop the pool is one owner among four.     *)
Owned == Queued \cup Handled \cup closed

Shapes ==
  /\ client \in [Conns -> Deeds]
  /\ backlog \subseteq Conns /\ dropped \subseteq Conns /\ readable \subseteq Conns
  /\ slots \in [Slots -> Conns \cup {None}]
  /\ lpc \in {"check", "select", "accept", "scan", "close_all", "stopped"}
  /\ i \in 1..(MaxClients + 1)
  /\ knocking \in BOOLEAN /\ go \in BOOLEAN

Apart ==
  /\ backlog \cap Watched = {} /\ backlog \cap dropped = {} /\ backlog \cap Owned = {}
  /\ Watched \cap dropped = {} /\ Watched \cap Owned = {}
  /\ dropped \cap Owned = {}
  /\ \A r, s \in Slots : r # s /\ slots[r] # None => slots[r] # slots[s]

Arrived ==
  \A c \in Conns : client[c] = "away" <=> c \notin backlog \cup Watched \cup dropped \cup Owned

Stopping ==
  /\ joining # "no" => lpc = "stopped"
  /\ lpc = "stopped" => Watched = {}
  /\ joining = "done" => \A w \in Workers : wpc[w] = "exit"

LoopInv == Shapes /\ Apart /\ Arrived /\ Stopping

Inv == PP!Inv /\ LoopInv

(* What the pool's proofs assume.                                          *)
LEMMA PoolAssumed == PP!ThreadPoolAssumption
BY ServerAssumption DEF PP!ThreadPoolAssumption, PP!IsFiniteSet, IsFiniteSet

(* The pool of Server is the one of the pool's proofs.                     *)
LEMMA SamePool ==
  /\ P!Init <=> PP!Init
  /\ P!Next <=> PP!Next
  /\ P!poolVars = PP!poolVars
  /\ P!TypeOK <=> PP!TypeOK
  /\ P!OneOwner <=> PP!OneOwner
<1> USE DEF P!Goto, PP!Goto, P!InState, PP!InState, P!FirstStage, PP!FirstStage,
            P!CloseAndReturn, PP!CloseAndReturn, P!Places, PP!Places,
            P!Range, PP!Range, P!IsInjective, PP!IsInjective
<1>1. P!Init <=> PP!Init
  BY DEF P!Init, PP!Init
<1>2. \A c \in Conns : P!SubmitNew(c) <=> PP!SubmitNew(c)
  BY DEF P!SubmitNew, PP!SubmitNew, P!Submit, PP!Submit, P!Signal, PP!Signal,
         P!InPool, PP!InPool
<1>3. \A w \in Workers : P!Work(w) <=> PP!Work(w)
  BY DEF P!Work, PP!Work, P!TakeJob, PP!TakeJob, P!Sleep, PP!Sleep, P!Exit, PP!Exit,
         P!Serve, PP!Serve, P!MayExit, PP!MayExit
<1>4. \A w \in Workers : /\ P!Client(w) <=> PP!Client(w)
                         /\ P!RecvNoMemory(w) <=> PP!RecvNoMemory(w)
                         /\ P!SpuriousWakeup(w) <=> PP!SpuriousWakeup(w)
  BY DEF P!Client, PP!Client, P!RecvAll, PP!RecvAll, P!RecvShort, PP!RecvShort,
         P!Return, PP!Return,
         P!RecvNoMemory, PP!RecvNoMemory, P!SpuriousWakeup, PP!SpuriousWakeup
<1>5. (P!Shutdown <=> PP!Shutdown) /\ (P!Joined <=> PP!Joined)
  BY DEF P!Shutdown, PP!Shutdown, P!Broadcast, PP!Broadcast, P!Joined, PP!Joined
<1>6. P!poolVars = PP!poolVars
  BY DEF P!poolVars, PP!poolVars
<1>7. (P!TypeOK <=> PP!TypeOK) /\ (P!OneOwner <=> PP!OneOwner)
  BY DEF P!TypeOK, PP!TypeOK, P!OneOwner, PP!OneOwner
<1>8. QED
  BY <1>1, <1>2, <1>3, <1>4, <1>5, <1>6, <1>7 DEF P!Next, PP!Next

(* The members of a list of connections, of the slots, of the jobs.        *)
LEMMA Members ==
  ASSUME Shapes
  PROVE  /\ \A s \in Slots : slots[s] # None => slots[s] \in Watched
         /\ \A c \in Watched : c \in Conns /\ \E s \in Slots : slots[s] = c
         /\ None \notin Conns
<1>1. DOMAIN slots = Slots
  BY DEF Shapes
<1>2. QED
  BY <1>1, ServerAssumption DEF Shapes, Watched, Range

(* Whatever the server does, its pool does what ThreadPool says.           *)
LEMMA PoolSteps ==
  ASSUME Inv, [Next]_vars
  PROVE  P!Next \/ UNCHANGED P!poolVars
<1>1. CASE HandleReadable
  <2>1. slots[i] \in Conns /\ i \in Slots /\ joining = "no"
    BY <1>1 DEF HandleReadable, Inv, LoopInv, Shapes, Stopping, PP!Inv, PP!TypeOK
  <2>2. CASE /\ P!Submit(slots[i])
    <3>1. slots[i] \in Watched
      BY <2>1, Members, ServerAssumption DEF Inv, LoopInv
    <3>2. slots[i] \notin Owned
      BY <3>1 DEF Inv, LoopInv, Apart
    <3>3. slots[i] # None
      BY <2>1, ServerAssumption
    <3>4. slots[i] \notin P!InPool
      BY <3>2, <3>3 DEF P!InPool, Owned, Queued, Handled, P!Range, Range
    <3>5. P!SubmitNew(slots[i])
      BY <1>1, <2>1, <2>2, <3>4 DEF HandleReadable, P!SubmitNew
    <3>6. QED
      BY <2>1, <3>5 DEF P!Next
  <2>3. CASE UNCHANGED <<queue, wpc, closed>>
    BY <1>1, <2>3 DEF HandleReadable, P!poolVars
  <2>4. QED
    BY <1>1, <2>2, <2>3 DEF HandleReadable
<1>2. CASE UNCHANGED pool
  BY <1>2 DEF pool, P!poolVars
<1>3. CASE Shutdown \/ Joined
  BY <1>3 DEF Shutdown, Joined, P!Next
<1>4. ASSUME NEW w \in Workers, WorkerStep(w) \/ PeerStep(w) \/ WorkerTrouble(w)
      PROVE  P!Next
  BY <1>4 DEF WorkerStep, PeerStep, WorkerTrouble, P!Next
<1>5. CASE \/ \E c \in Conns : Connect(c) \/ SendPart(c) \/ EndHeader(c)
           \/ Check \/ Select \/ AcceptConn \/ NoAccept \/ SkipSlot \/ EndScan \/ CloseAll
           \/ Sigint \/ UNCHANGED vars
  BY <1>5, <1>2 DEF Connect, SendPart, EndHeader, Check, Select, AcceptConn, NoAccept, SkipSlot,
                    EndScan, CloseAll, Sigint, vars
<1>6. QED
  BY <1>1, <1>3, <1>4, <1>5 DEF Next, Loop

(* So what the pool's proofs say of a step holds here.                     *)
LEMMA PoolInv ==
  ASSUME Inv, [Next]_vars
  PROVE  PP!Inv'
<1>1. [PP!Next]_(PP!poolVars)
  BY PoolSteps, SamePool DEF P!poolVars, PP!poolVars
<1>2. PP!Inv /\ [PP!Next]_(PP!poolVars) => PP!Inv'
  BY PP!NextInv, PoolAssumed
<1>3. QED
  BY <1>1, <1>2 DEF Inv

(* A submitted connection is the pool's, also when there is no memory.     *)
LEMMA SubmitOwns ==
  ASSUME PP!Inv, NEW c \in Conns, P!Submit(c), cur' = cur
  PROVE  Owned' = Owned \cup {c}
<1>1. CASE queue' = Append(queue, c) /\ closed' = closed
  <2>1. PP!Range(Append(queue, c)) = PP!Range(queue) \cup {c}
    <3>1. queue \in Seq(Conns)
      BY DEF PP!Inv, PP!TypeOK
    <3>2. QED
      BY <3>1, PP!RangeOfAppend, PoolAssumed
  <2>2. Range(queue') = Range(queue) \cup {c}
    BY <1>1, <2>1 DEF Range, PP!Range
  <2>3. QED
    BY <1>1, <2>2 DEF Owned, Queued, Handled
<1>2. CASE closed' = closed \cup {c} /\ UNCHANGED queue
  BY <1>2 DEF Owned, Queued, Handled
<1>3. QED
  BY <1>1, <1>2 DEF P!Submit

(* The work of the pool moves connections inside it.                       *)
LEMMA WorkOwns ==
  ASSUME PP!Inv, NEW w \in Workers,
         P!Work(w) \/ P!Client(w) \/ P!RecvNoMemory(w) \/ P!SpuriousWakeup(w)
  PROVE  Owned' = Owned
<1>1. /\ cur \in [Workers -> Conns \cup {None}] /\ queue \in Seq(Conns)
      /\ cur[w] = None <=> wpc[w] \notin {"recv", "serve", "send"}
      /\ PP!IsInjective(queue) /\ None \notin Conns
  BY ServerAssumption DEF PP!Inv, PP!TypeOK, PP!OneOwner
<1>2. CASE P!TakeJob(w)
  <2>1. /\ queue # <<>> /\ cur[w] = None /\ closed' = closed
        /\ queue' = Tail(queue) /\ cur' = [cur EXCEPT ![w] = Head(queue)]
    BY <1>1, <1>2 DEF P!TakeJob
  <2>2. /\ Head(queue) \in Conns /\ Head(queue) \in PP!Range(queue)
        /\ PP!Range(Tail(queue)) = PP!Range(queue) \ {Head(queue)}
    BY <1>1, <2>1, PP!RangeOfTail, PoolAssumed
  <2>3. Queued = Queued' \cup {Head(queue)}
    BY <2>1, <2>2 DEF Queued, Range, PP!Range
  <2> DEFINE h == Head(queue)
  <2>4. h \in Conns /\ cur' = [cur EXCEPT ![w] = h]
    BY <2>1, <2>2
  <2> HIDE DEF h
  <2>5. Handled' = Handled \cup {h}
    BY <1>1, <2>1, <2>4 DEF Handled, Range
  <2>6. QED
    BY <2>1, <2>3, <2>5 DEF Owned, h
<1>3. CASE UNCHANGED <<queue, cur, closed>>
  BY <1>3 DEF Owned, Queued, Handled
<1>4. CASE P!CloseAndReturn(w) /\ wpc[w] \in {"recv", "send"} /\ queue' = queue
  <2>1. /\ cur[w] # None /\ closed' = closed \cup {cur[w]} /\ cur' = [cur EXCEPT ![w] = None]
    BY <1>1, <1>4 DEF P!CloseAndReturn
  <2>2. Handled' \subseteq Handled /\ Handled \subseteq Handled' \cup {cur[w]} /\ cur[w] \in Handled
    BY <1>1, <2>1 DEF Handled, Range
  <2>3. QED
    BY <1>4, <2>1, <2>2 DEF Owned, Queued
<1>5. QED
  BY <1>2, <1>3, <1>4
     DEF P!Work, P!Sleep, P!Exit, P!Serve, P!Client, P!RecvAll, P!RecvShort, P!RecvNoMemory,
         P!Return, P!SpuriousWakeup

-----------------------------------------------------------------------------
(* When a slot is free there is a first one.                               *)
LEMMA FirstSlot ==
  ASSUME FreeSlots # {}
  PROVE  LET first == CHOOSE s \in FreeSlots : \A r \in FreeSlots : s <= r
         IN  first \in FreeSlots
<1>1. FreeSlots \subseteq Nat /\ \A s \in FreeSlots : s \in Int
  BY ServerAssumption DEF FreeSlots, Slots
<1> DEFINE R == OpToRel(<, Nat)
<1>2. IsWellFoundedOn(R, Nat)
  BY NatLessThanWellFounded
<1>3. \A x, y \in Nat : x < y => <<x, y>> \in R
  BY DEF OpToRel
<1> HIDE DEF R
<1>4. PICK s \in FreeSlots : \A r \in FreeSlots : <<r, s>> \notin R
  BY <1>1, <1>2, WFMin
<1>5. ASSUME NEW r \in FreeSlots
      PROVE  s <= r
  <2>1. r \in Nat /\ s \in Nat /\ ~(r < s)
    BY <1>1, <1>3, <1>4
  <2>2. QED
    BY <2>1
<1>6. QED
  BY <1>5

(* A connection that gets a slot.                                          *)
LEMMA SlotFilled ==
  ASSUME Shapes, Apart, NEW s \in Slots, slots[s] = None, NEW c \in Conns, c \notin Watched,
         slots' = [slots EXCEPT ![s] = c]
  PROVE  /\ slots' \in [Slots -> Conns \cup {None}] /\ Watched' = Watched \cup {c}
         /\ \A r, q \in Slots : r # q /\ slots'[r] # None => slots'[r] # slots'[q]
<1>1. slots \in [Slots -> Conns \cup {None}] /\ None \notin Conns
  BY ServerAssumption DEF Shapes
<1>2. Watched' = Watched \cup {c}
  BY <1>1 DEF Watched, Range
<1>3. \A r \in Slots : slots[r] # c
  BY <1>1, Members
<1>4. QED
  BY <1>1, <1>2, <1>3 DEF Apart

(* A connection that loses its slot.                                       *)
LEMMA SlotFreed ==
  ASSUME Shapes, Apart, NEW s \in Slots, NEW c \in Conns, slots[s] = c,
         slots' = [slots EXCEPT ![s] = None]
  PROVE  /\ slots' \in [Slots -> Conns \cup {None}] /\ Watched' = Watched \ {c} /\ c \in Watched
         /\ \A r, q \in Slots : r # q /\ slots'[r] # None => slots'[r] # slots'[q]
<1>1. slots \in [Slots -> Conns \cup {None}] /\ None \notin Conns
  BY ServerAssumption DEF Shapes
<1>2. \A r \in Slots : r # s => slots[r] # c
  BY <1>1 DEF Apart
<1>3. Watched' = Watched \ {c} /\ c \in Watched
  BY <1>1, <1>2 DEF Watched, Range
<1>4. QED
  BY <1>1, <1>2, <1>3 DEF Apart

(* The clients' steps.                                                     *)
LEMMA ClientStep ==
  ASSUME Inv, NEW c \in Conns, Connect(c) \/ SendPart(c) \/ EndHeader(c)
  PROVE  LoopInv'
<1>1. Shapes /\ Apart /\ Arrived /\ Stopping
  BY DEF Inv, LoopInv
<1>2. UNCHANGED <<pool, slots, dropped, lpc, i, readable, knocking, go>>
  BY DEF Connect, SendPart, EndHeader, loop
<1>3. Watched' = Watched /\ Owned' = Owned /\ Stopping'
  BY <1>1, <1>2 DEF Watched, Owned, Queued, Handled, pool, Stopping
<1>4. CASE Connect(c)
  <2>1. /\ client[c] = "away" /\ client' = [client EXCEPT ![c] = "quiet"]
        /\ backlog' = backlog \cup {c}
    BY <1>4 DEF Connect
  <2>2. c \notin backlog \cup Watched \cup dropped \cup Owned
    BY <1>1, <2>1 DEF Arrived
  <2>3. Shapes'
    BY <1>1, <1>2, <2>1 DEF Shapes, Deeds
  <2>4. Apart' /\ Arrived'
    BY <1>1, <1>2, <1>3, <2>1, <2>2 DEF Apart, Arrived, Shapes
  <2>5. QED
    BY <1>3, <2>3, <2>4 DEF LoopInv
<1>5. CASE SendPart(c) \/ EndHeader(c)
  <2>1. /\ client[c] # "away" /\ backlog' = backlog
        /\ \E d \in Deeds \ {"away"} : client' = [client EXCEPT ![c] = d]
    BY <1>5 DEF SendPart, EndHeader, loop, Deeds
  <2>2. Shapes'
    BY <1>1, <1>2, <2>1 DEF Shapes
  <2>3. Apart' /\ Arrived'
    BY <1>1, <1>2, <1>3, <2>1 DEF Apart, Arrived, Shapes
  <2>4. QED
    BY <1>3, <2>2, <2>3 DEF LoopInv
<1>6. QED
  BY <1>4, <1>5

(* Steps of the main thread that move no connection.                       *)
LEMMA IdleStep ==
  ASSUME Inv, \/ Check \/ Select \/ NoAccept \/ SkipSlot \/ EndScan \/ UNCHANGED vars
  PROVE  LoopInv'
<1>1. Shapes /\ Apart /\ Arrived /\ Stopping
  BY DEF Inv, LoopInv
<1>2. UNCHANGED <<pool, client, backlog, slots, dropped, go>>
  BY DEF Check, Select, NoAccept, SkipSlot, EndScan, vars, loop
<1>3. Watched' = Watched /\ Owned' = Owned
  BY <1>2 DEF Watched, Owned, Queued, Handled, pool
<1>4. Shapes' /\ (lpc' = lpc \/ (lpc # "stopped" /\ lpc' # "stopped"))
  <2>1. /\ \/ lpc' = lpc
           \/ lpc # "stopped" /\ lpc' \in {"check", "select", "accept", "scan", "close_all"}
        /\ readable' = readable \/ readable' = {} \/ readable' = {c \in Watched : client[c] # "quiet"}
        /\ knocking' = knocking \/ knocking' = FALSE \/ knocking' = (backlog # {})
    BY DEF Check, Select, NoAccept, SkipSlot, EndScan, vars, loop
  <2>2. i' = i \/ i' = 1 \/ (i \in Slots /\ i' = i + 1)
    BY DEF Check, Select, NoAccept, SkipSlot, EndScan, vars, loop
  <2>3. i' \in 1..(MaxClients + 1)
    BY <1>1, <2>2, ServerAssumption DEF Shapes, Slots
  <2>4. readable' \subseteq Conns /\ knocking' \in BOOLEAN
    BY <1>1, <2>1, Members DEF Shapes
  <2>5. QED
    BY <1>1, <1>2, <2>1, <2>3, <2>4 DEF Shapes
<1>5. Apart' /\ Arrived' /\ Stopping'
  BY <1>1, <1>2, <1>3, <1>4 DEF Apart, Arrived, Stopping, pool
<1>6. QED
  BY <1>4, <1>5 DEF LoopInv

(* A connection is accepted: it gets the first free slot, or is closed.    *)
LEMMA AcceptStep ==
  ASSUME Inv, AcceptConn
  PROVE  LoopInv'
<1>1. Shapes /\ Apart /\ Arrived /\ Stopping
  BY DEF Inv, LoopInv
<1>2. /\ UNCHANGED <<pool, client, i, readable, knocking, go>>
      /\ lpc = "accept" /\ lpc' = "scan"
  BY DEF AcceptConn
<1>3. Owned' = Owned
  BY <1>2 DEF Owned, Queued, Handled, pool
<1>4. PICK c \in backlog : backlog' = backlog \ {c} /\ Enter(c)
  BY DEF AcceptConn
<1>5. c \in Conns /\ c \notin Watched /\ c \notin dropped /\ c \notin Owned
  BY <1>1 DEF Shapes, Apart
<1>6. Stopping'
  BY <1>1, <1>2 DEF Stopping, pool
<1>7. CASE FreeSlots = {}
  <2>1. dropped' = dropped \cup {c} /\ slots' = slots
    BY <1>4, <1>7 DEF Enter
  <2>2. Watched' = Watched
    BY <2>1 DEF Watched
  <2>3. Shapes'
    BY <1>1, <1>2, <1>4, <1>5, <2>1 DEF Shapes
  <2>4. Apart'
    BY <1>1, <1>3, <1>4, <1>5, <2>1, <2>2 DEF Apart
  <2>5. Arrived'
    BY <1>1, <1>2, <1>3, <1>4, <2>1, <2>2 DEF Arrived
  <2>6. QED
    BY <1>6, <2>3, <2>4, <2>5 DEF LoopInv
<1>8. CASE FreeSlots # {}
  <2>1. PICK s \in FreeSlots : slots' = [slots EXCEPT ![s] = c] /\ dropped' = dropped
    BY <1>4, <1>8, FirstSlot DEF Enter
  <2>2. s \in Slots /\ slots[s] = None
    BY DEF FreeSlots
  <2>3. /\ slots' \in [Slots -> Conns \cup {None}] /\ Watched' = Watched \cup {c}
        /\ \A r, q \in Slots : r # q /\ slots'[r] # None => slots'[r] # slots'[q]
    BY <1>1, <1>5, <2>1, <2>2, SlotFilled
  <2>4. Shapes'
    BY <1>1, <1>2, <1>4, <2>1, <2>3 DEF Shapes
  <2>5. Apart'
    BY <1>1, <1>3, <1>4, <1>5, <2>1, <2>3 DEF Apart
  <2>6. Arrived'
    BY <1>1, <1>2, <1>3, <1>4, <2>1, <2>3 DEF Arrived
  <2>7. QED
    BY <1>6, <2>4, <2>5, <2>6 DEF LoopInv
<1>9. QED
  BY <1>7, <1>8

(* A readable connection leaves its slot: to the pool, or closed.  So does *)
(* one whose header a signal keeps the loop from reading.                  *)
LEMMA LeaveSlot ==
  ASSUME LoopInv, i \in Slots, NEW c \in Conns, c = slots[i], lpc \notin {"stopped", "close_all"},
         FreeSlot, i' = i + 1,
         \/ dropped' = dropped \cup {c} /\ Owned' = Owned
         \/ dropped' = dropped /\ Owned' = Owned \cup {c},
         UNCHANGED <<client, backlog, lpc, readable, knocking, joining>>, go' \in BOOLEAN
  PROVE  LoopInv'
<1>1. Shapes /\ Apart /\ Arrived /\ Stopping
  BY DEF LoopInv
<1>2. /\ slots' \in [Slots -> Conns \cup {None}] /\ Watched' = Watched \ {c} /\ c \in Watched
      /\ \A r, q \in Slots : r # q /\ slots'[r] # None => slots'[r] # slots'[q]
  BY <1>1, SlotFreed DEF FreeSlot
<1>3. c \notin backlog /\ c \notin dropped /\ c \notin Owned
  BY <1>1, <1>2 DEF Apart
<1>4. i' \in 1..(MaxClients + 1)
  BY ServerAssumption DEF Slots
<1>5. Shapes'
  BY <1>1, <1>2, <1>4 DEF Shapes
<1>6. Apart'
  BY <1>1, <1>2, <1>3 DEF Apart
<1>7. Arrived'
  BY <1>1, <1>2 DEF Arrived
<1>8. Stopping'
  BY <1>1 DEF Stopping
<1>9. QED
  BY <1>5, <1>6, <1>7, <1>8 DEF LoopInv

(* The loop handles a readable connection.                                 *)
LEMMA HandleStep ==
  ASSUME Inv, HandleReadable
  PROVE  LoopInv'
<1>1. /\ lpc = "scan" /\ i \in Slots /\ slots[i] \in Conns /\ FreeSlot /\ i' = i + 1
      /\ UNCHANGED <<client, backlog, lpc, readable, knocking, joining, go, cur>>
  BY DEF HandleReadable, Inv, LoopInv, Shapes
<1>2. CASE P!Submit(slots[i]) /\ dropped' = dropped
  <2>1. Owned' = Owned \cup {slots[i]}
    BY <1>1, <1>2, SubmitOwns DEF Inv
  <2>2. QED
    BY <1>1, <1>2, <2>1, LeaveSlot DEF Inv, LoopInv, Shapes
<1>3. CASE DropConn /\ UNCHANGED <<queue, wpc, closed>>
  <2>1. Owned' = Owned
    BY <1>1, <1>3 DEF Owned, Queued, Handled
  <2>2. QED
    BY <1>1, <1>3, <2>1, LeaveSlot DEF Inv, LoopInv, Shapes, DropConn
<1>4. QED
  BY <1>2, <1>3 DEF HandleReadable

(* A signal.                                                               *)
LEMMA SignalStep ==
  ASSUME Inv, Sigint
  PROVE  LoopInv'
<1>1. Shapes /\ Apart /\ Arrived /\ Stopping
  BY DEF Inv, LoopInv
<1>2. go' = FALSE /\ UNCHANGED <<pool, client, backlog, readable, knocking>>
  BY DEF Sigint
<1>3. Owned' = Owned
  BY <1>2 DEF Owned, Queued, Handled, pool
<1>4. CASE DropConn
  <2>1. CASE /\ lpc = "scan" /\ i \in Slots /\ slots[i] \in readable
             /\ FreeSlot /\ i' = i + 1 /\ lpc' = lpc
    BY <1>1, <1>2, <1>3, <1>4, <2>1, LeaveSlot DEF Inv, Shapes, DropConn, pool
  <2>2. CASE UNCHANGED <<dropped, slots, i>>
    <3>1. Watched' = Watched
      BY <2>2 DEF Watched
    <3>2. lpc' = lpc \/ (lpc # "stopped" /\ lpc' = "check")
      BY <1>1, <2>2, ServerAssumption DEF Sigint, Shapes, Slots
    <3>3. QED
      BY <1>1, <1>2, <1>3, <2>2, <3>1, <3>2
         DEF Inv, LoopInv, Shapes, Apart, Arrived, Stopping, pool
  <2>3. QED
    BY <2>1, <2>2 DEF Sigint
<1>5. CASE ~DropConn
  <2>1. /\ UNCHANGED <<dropped, slots, i>>
        /\ lpc' = lpc \/ (lpc # "stopped" /\ lpc' = "check")
    BY <1>5 DEF Sigint
  <2>2. Watched' = Watched
    BY <2>1 DEF Watched
  <2>3. QED
    BY <1>1, <1>2, <1>3, <2>1, <2>2 DEF Inv, LoopInv, Shapes, Apart, Arrived, Stopping, pool
<1>6. QED
  BY <1>4, <1>5

(* The loop ends: what is in the slots is closed.                          *)
LEMMA CloseStep ==
  ASSUME Inv, CloseAll
  PROVE  LoopInv'
<1>1. Shapes /\ Apart /\ Arrived /\ Stopping
  BY DEF Inv, LoopInv
<1>2. /\ UNCHANGED <<pool, client, backlog, i, readable, knocking, go>>
      /\ dropped' = dropped \cup Watched /\ slots' = [s \in Slots |-> None]
      /\ lpc = "close_all" /\ lpc' = "stopped"
  BY DEF CloseAll
<1>3. Owned' = Owned
  BY <1>2 DEF Owned, Queued, Handled, pool
<1>4. Watched' = {}
  BY <1>2 DEF Watched, Range
<1>5. Shapes'
  BY <1>1, <1>2, Members DEF Shapes
<1>6. Apart' /\ Arrived'
  BY <1>1, <1>2, <1>3, <1>4 DEF Apart, Arrived
<1>7. Stopping'
  BY <1>1, <1>2, <1>4 DEF Stopping, pool
<1>8. QED
  BY <1>5, <1>6, <1>7 DEF LoopInv

(* The workers, and main in threadpool_shutdown.                           *)
LEMMA PoolMoves ==
  ASSUME Inv,
         \/ Shutdown \/ Joined
         \/ \E w \in Workers : WorkerStep(w) \/ PeerStep(w) \/ WorkerTrouble(w)
  PROVE  LoopInv'
<1>1. Shapes /\ Apart /\ Arrived /\ Stopping /\ PP!Inv
  BY DEF Inv, LoopInv
<1>2. UNCHANGED <<client, backlog, slots, dropped, lpc, i, readable, knocking, go>>
  BY DEF Shutdown, Joined, WorkerStep, PeerStep, WorkerTrouble, loop
<1>3. Watched' = Watched
  BY <1>2 DEF Watched
<1>4. Owned' = Owned
  <2>1. CASE Shutdown \/ Joined
    BY <2>1 DEF Shutdown, Joined, P!Shutdown, P!Joined, Owned, Queued, Handled
  <2>2. ASSUME NEW w \in Workers, WorkerStep(w) \/ PeerStep(w) \/ WorkerTrouble(w)
        PROVE  Owned' = Owned
    BY <1>1, <2>2, WorkOwns DEF WorkerStep, PeerStep, WorkerTrouble
  <2>3. QED
    BY <2>1, <2>2
<1>5. Shapes' /\ Apart' /\ Arrived'
  BY <1>1, <1>2, <1>3, <1>4 DEF Shapes, Apart, Arrived
<1>6. wpc \in [Workers -> P!Places]
  BY <1>1, SamePool DEF PP!Inv, P!TypeOK
<1>7. Stopping'
  <2>1. CASE Shutdown
    BY <1>1, <1>2, <1>3, <2>1 DEF Shutdown, P!Shutdown, LoopReturned, Stopping
  <2>2. CASE Joined
    BY <1>1, <1>2, <1>3, <2>2 DEF Joined, P!Joined, P!InState, Stopping
  <2>3. ASSUME NEW w \in Workers, WorkerStep(w) \/ PeerStep(w) \/ WorkerTrouble(w)
        PROVE  Stopping'
    <3>1. joining' = joining /\ wpc[w] # "exit"
      BY <2>3 DEF WorkerStep, PeerStep, WorkerTrouble, P!Work, P!TakeJob, P!Sleep, P!Exit,
                  P!Serve, P!Return, P!Client, P!RecvAll, P!RecvShort, P!RecvNoMemory,
                  P!SpuriousWakeup
    <3>2. QED
      BY <1>1, <1>2, <1>3, <3>1 DEF Stopping
  <2>4. QED
    BY <2>1, <2>2, <2>3
<1>8. QED
  BY <1>5, <1>7 DEF LoopInv

(* The invariant holds in the initial state.                               *)
LEMMA InvInit == Init => Inv
<1> SUFFICES ASSUME Init PROVE Inv
  OBVIOUS
<1>1. PP!Inv
  BY SamePool, PP!InitInv, PoolAssumed DEF Init
<1>2. Watched = {} /\ Owned = {}
  <2>1. Watched = {}
    BY DEF Init, Watched, Range
  <2>2. queue = <<>> /\ cur = [w \in Workers |-> None] /\ closed = {}
    BY DEF Init, P!Init
  <2>3. QED
    BY <2>1, <2>2 DEF Owned, Queued, Handled, Range
<1>3. Shapes
  <2>1. 1 \in 1..(MaxClients + 1)
    BY ServerAssumption
  <2>2. /\ client = [c \in Conns |-> "away"] /\ backlog = {} /\ dropped = {} /\ readable = {}
        /\ slots = [s \in Slots |-> None] /\ lpc = "check" /\ i = 1
        /\ knocking = FALSE /\ go = TRUE
    BY DEF Init
  <2>3. client \in [Conns -> Deeds]
    BY <2>2 DEF Deeds
  <2>4. QED
    BY <2>1, <2>2, <2>3 DEF Shapes
<1>4. Apart /\ Arrived /\ Stopping
  BY <1>2 DEF Init, P!Init, Apart, Arrived, Stopping
<1>5. QED
  BY <1>1, <1>3, <1>4 DEF Inv, LoopInv

(* Every step keeps the invariant.                                         *)
LEMMA InvNext == Inv /\ [Next]_vars => Inv'
<1> SUFFICES ASSUME Inv, [Next]_vars PROVE LoopInv'
  BY PoolInv DEF Inv
<1>1. CASE Loop
  BY <1>1, IdleStep, AcceptStep, HandleStep, CloseStep DEF Loop
<1>2. CASE UNCHANGED vars
  BY <1>2, IdleStep
<1>3. QED
  BY <1>1, <1>2, ClientStep, SignalStep, PoolMoves DEF Next

-----------------------------------------------------------------------------
(* The invariant has everything in range.                                  *)
LEMMA InvTypes == Inv => TypeOK
BY SamePool DEF Inv, LoopInv, Shapes, Stopping, PP!Inv, TypeOK

(* Pairwise disjoint owners are what OneOwner says of the six places.      *)
LEMMA InvOwners == Inv => OneOwner
<1> SUFFICES ASSUME Inv PROVE OneOwner
  OBVIOUS
<1>1. P!OneOwner
  BY SamePool DEF Inv, PP!Inv
<1>2. Queued \cap Handled = {} /\ Queued \cap closed = {} /\ Handled \cap closed = {}
  <2>1. /\ \A w \in Workers : cur[w] \notin Range(queue)
        /\ closed \cap (Range(queue) \cup Range(cur)) = {}
        /\ DOMAIN cur = Workers
    BY SamePool DEF Inv, PP!Inv, PP!OneOwner, PP!TypeOK, PP!Range, Range
  <2>2. \A c \in Range(cur) : c \notin Range(queue)
    BY <2>1 DEF Range
  <2>3. QED
    BY <2>1, <2>2 DEF Queued, Handled
<1>3. \A a, b \in DOMAIN Places : a # b => Places[a] \cap Places[b] = {}
  <2>1. /\ DOMAIN Places = 1..6
        /\ Places[1] = backlog /\ Places[2] = Watched /\ Places[3] = Queued
        /\ Places[4] = Handled /\ Places[5] = dropped /\ Places[6] = closed
    BY DEF Places
  <2>2. 1..6 = {1, 2, 3, 4, 5, 6}
    OBVIOUS
  <2>3. /\ backlog \cap Watched = {} /\ backlog \cap dropped = {} /\ backlog \cap Owned = {}
        /\ Watched \cap dropped = {} /\ Watched \cap Owned = {}
        /\ dropped \cap Owned = {}
    BY DEF Inv, LoopInv, Apart
  <2>4. QED
    BY <1>2, <2>1, <2>2, <2>3 DEF Owned
<1>4. QED
  BY <1>1, <1>3 DEF OneOwner, Inv, LoopInv, Apart

(* A connection that has arrived is in a place; in the end, in three.      *)
LEMMA InvNoneLost == Inv => NoneLost
<1> SUFFICES ASSUME Inv PROVE NoneLost
  OBVIOUS
<1>1. /\ DOMAIN Places = 1..6
      /\ Places[1] = backlog /\ Places[2] = Watched /\ Places[3] = Queued
      /\ Places[4] = Handled /\ Places[5] = dropped /\ Places[6] = closed
  BY DEF Places
<1>2. \A c \in Conns : client[c] = "away" <=> \A a \in DOMAIN Places : c \notin Places[a]
  BY <1>1 DEF Inv, LoopInv, Arrived, Owned
<1>3. ASSUME joining = "done", NEW c \in Conns, client[c] # "away"
      PROVE  c \in backlog \cup dropped \cup closed
  <2>1. c \in backlog \cup Watched \cup dropped \cup Owned
    BY <1>3 DEF Inv, LoopInv, Arrived
  <2>2. Watched = {} /\ \A w \in Workers : wpc[w] = "exit"
    BY <1>3 DEF Inv, LoopInv, Stopping
  <2>3. queue = <<>> /\ \A w \in Workers : cur[w] = None
    BY <2>2, ServerAssumption
       DEF Inv, PP!Inv, PP!StopReachesAll, PP!TypeOK, PP!InState
  <2>4. DOMAIN cur = Workers
    BY DEF Inv, PP!Inv, PP!TypeOK
  <2>5. Queued = {} /\ Handled = {}
    BY <2>3, <2>4 DEF Queued, Handled, Range
  <2>6. QED
    BY <2>1, <2>2, <2>5 DEF Owned
<1>4. QED
  BY <1>2, <1>3 DEF NoneLost

(* The main thread shuts the pool down only after it has let go of every   *)
(* slot, and everything stays in range.                                    *)
THEOREM TypeCorrect == Spec => []TypeOK
BY InvInit, InvNext, InvTypes, PTL DEF Spec

(* A descriptor has one owner at a time, and none once it is closed: the   *)
(* kernel, the loop or the pool.                                           *)
THEOREM DescriptorsOwned == Spec => []OneOwner
BY InvInit, InvNext, InvOwners, PTL DEF Spec

(* No connection is lost, and when main returns everything accepted has    *)
(* been closed.                                                            *)
THEOREM DescriptorsClosed == Spec => []NoneLost
BY InvInit, InvNext, InvNoneLost, PTL DEF Spec

(* The loop and main use the pool as ThreadPool says, so that everything   *)
(* proved of the pool holds in the server.                                 *)
THEOREM PoolUsedRight == Spec => PoolSpec
<1>1. Init => P!Init
  BY DEF Init
<1>2. Inv /\ [Next]_vars => [P!Next]_(P!poolVars)
  BY PoolSteps
<1>3. QED
  BY <1>1, <1>2, InvInit, InvNext, PTL DEF Spec, PoolSpec, P!Spec

(* The promise of the pool reads the same in Server as in its proofs.      *)
LEMMA SameQueue ==
  /\ PP!Q!Init => P!Q!Init
  /\ PP!Q!Next => P!Q!Next
<1> USE DEF PP!Q!Cardinality, P!Q!Cardinality, PP!Q!Range, P!Q!Range, PP!Range, P!Range
<1>1. PP!Q!Init => P!Q!Init
  BY DEF PP!Q!Init, P!Q!Init
<1>2. \A c : /\ PP!Q!Put(c) => P!Q!Put(c)
             /\ PP!Q!PutRefused(c) => P!Q!PutRefused(c)
             /\ PP!Q!End(c) => P!Q!End(c)
  BY DEF PP!Q!Put, P!Q!Put, PP!Q!PutRefused, P!Q!PutRefused, PP!Q!End, P!Q!End
<1>3. PP!Q!Begin => P!Q!Begin
  BY DEF PP!Q!Begin, P!Q!Begin
<1>4. PP!Q!Down => P!Q!Down
  BY DEF PP!Q!Down, P!Q!Down
<1>5. QED
  BY <1>1, <1>2, <1>3, <1>4 DEF PP!Q!Next, P!Q!Next

(* In the whole server, too, a connection handed over is worked on once, in*)
(* the order of submission, and main gets past the shutdown only when none *)
(* is left.                                                                *)
THEOREM ConnectionsServedOnce == Spec => P!QueueSpec
<1>1. Spec => PP!Spec
  <2>1. Init => PP!Init
    BY SamePool DEF Init
  <2>2. Inv /\ [Next]_vars => [PP!Next]_(PP!poolVars)
    BY PoolSteps, SamePool DEF P!poolVars, PP!poolVars
  <2>3. QED
    BY <2>1, <2>2, InvInit, InvNext, PTL DEF Spec, PP!Spec
<1>2. PP!Spec => PP!QueueSpec
  BY PP!ImplementsJobQueue, PoolAssumed
<1>3. [PP!Q!Next]_(PP!Q!queueVars) => [P!Q!Next]_(P!Q!queueVars)
  BY SameQueue DEF PP!Q!queueVars, P!Q!queueVars, PP!Range, P!Range
<1>4. QED
  BY <1>1, <1>2, <1>3, SameQueue, PTL DEF PP!QueueSpec, P!QueueSpec, PP!Q!Spec, P!Q!Spec
=============================================================================
