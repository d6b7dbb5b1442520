-------------------------- MODULE ThreadPoolProofs --------------------------
(***************************************************************************)
(* Proofs about ThreadPool for any workers and any connections.            *)
(***************************************************************************)
EXTENDS ThreadPool, FiniteSetTheorems, SequenceTheorems, TLAPS

(* The sets of workers in one place can be counted.                        *)
LEMMA PlacesFinite ==
  ASSUME NEW l
  PROVE  IsFiniteSet(InState(l)) /\ Cardinality(InState(l)) \in Nat
<1>1. IsFiniteSet(InState(l))
  BY ThreadPoolAssumption, FS_Subset DEF InState
<1>2. QED
  BY <1>1, FS_CardinalityType

(* What appending to a list of connections does to its members.            *)
LEMMA RangeOfAppend ==
  ASSUME NEW s \in Seq(Conns), NEW c \in Conns
  PROVE  Range(Append(s, c)) = Range(s) \cup {c}
<1>1. DOMAIN Append(s, c) = 1..(Len(s) + 1) /\ DOMAIN s = 1..Len(s)
  OBVIOUS
<1>2. Append(s, c)[Len(s) + 1] = c
  OBVIOUS
<1>3. \A k \in 1..Len(s) : Append(s, c)[k] = s[k]
  OBVIOUS
<1>4. Len(s) \in Nat
  OBVIOUS
<1>5. 1..(Len(s) + 1) = (1..Len(s)) \cup {Len(s) + 1}
  BY <1>4
<1>6. QED
  BY <1>1, <1>2, <1>3, <1>5, Zenon DEF Range

(* A list without repetitions stays one when something new is appended.    *)
LEMMA InjectiveAppend ==
  ASSUME NEW s \in Seq(Conns), NEW c \in Conns, IsInjective(s), c \notin Range(s)
  PROVE  IsInjective(Append(s, c))
<1>1. /\ DOMAIN Append(s, c) = 1..(Len(s) + 1) /\ DOMAIN s = 1..Len(s) /\ Len(s) \in Nat
      /\ Append(s, c)[Len(s) + 1] = c
      /\ \A k \in 1..Len(s) : Append(s, c)[k] = s[k]
  OBVIOUS
<1>2. \A k \in 1..Len(s) : s[k] # c
  BY <1>1 DEF Range
<1>3. \A a, b \in 1..Len(s) : s[a] = s[b] => a = b
  BY <1>1 DEF IsInjective
<1>4. \A a, b \in 1..(Len(s) + 1) : Append(s, c)[a] = Append(s, c)[b] => a = b
  BY <1>1, <1>2, <1>3
<1>5. QED
  BY <1>1, <1>4 DEF IsInjective

(* Taking the head off a list without repetitions removes just its head.   *)
LEMMA RangeOfTail ==
  ASSUME NEW s \in Seq(Conns), s # <<>>, IsInjective(s)
  PROVE  /\ Head(s) \in Conns /\ Head(s) \in Range(s)
         /\ Tail(s) \in Seq(Conns) /\ Len(Tail(s)) = Len(s) - 1
         /\ Range(Tail(s)) = Range(s) \ {Head(s)}
         /\ IsInjective(Tail(s))
<1>1. /\ Len(s) \in Nat \ {0} /\ DOMAIN s = 1..Len(s)
      /\ Head(s) = s[1] /\ Head(s) \in Conns
      /\ Tail(s) \in Seq(Conns) /\ Len(Tail(s)) = Len(s) - 1
      /\ DOMAIN Tail(s) = 1..(Len(s) - 1)
      /\ \A k \in 1..(Len(s) - 1) : Tail(s)[k] = s[k + 1]
  BY HeadTailProperties
<1>2. Head(s) \in Range(s)
  BY <1>1 DEF Range
<1>3. Range(Tail(s)) \subseteq Range(s) \ {Head(s)}
  BY <1>1 DEF Range, IsInjective
<1>4. Range(s) \ {Head(s)} \subseteq Range(Tail(s))
  <2> SUFFICES ASSUME NEW k \in 1..Len(s), s[k] # s[1]
               PROVE  s[k] \in Range(Tail(s))
    BY <1>1 DEF Range
  <2>1. k - 1 \in 1..(Len(s) - 1) /\ Tail(s)[k - 1] = s[k]
    BY <1>1
  <2>2. QED
    BY <2>1, <1>1 DEF Range
<1>5. IsInjective(Tail(s))
  BY <1>1 DEF IsInjective
<1>6. QED
  BY <1>1, <1>2, <1>3, <1>4, <1>5

-----------------------------------------------------------------------------
(* The inductive invariant.  TypeOK says that a worker has a job exactly   *)
(* when it processes one; StopFlag adds that pool_running is cleared by    *)
(* threadpool_shutdown and by nothing else, so that nothing is submitted   *)
(* to a pool that its workers have begun to leave.                         *)
StopFlag == running <=> joining = "no"

Inv == TypeOK /\ OneOwner /\ NoOversleeping /\ StopReachesAll /\ StopFlag

(* The initial state satisfies the invariant.                              *)
LEMMA InitInv == Init => Inv
<1> SUFFICES ASSUME Init PROVE Inv
  OBVIOUS
<1>1. TypeOK
  BY ThreadPoolAssumption, EmptySeq DEF Init, TypeOK, Places
<1>2. OneOwner
  BY EmptySeq DEF Init, OneOwner, IsInjective, Range
<1>3. NoOversleeping /\ StopReachesAll /\ StopFlag
  BY DEF Init, NoOversleeping, StopReachesAll, StopFlag, InState
<1>4. QED
  BY <1>1, <1>2, <1>3 DEF Inv

(* A worker that moves from one place to another one joins its set.       *)
LEMMA Moves ==
  ASSUME TypeOK, NEW w \in Workers, NEW l \in Places, l # wpc[w], Goto(w, l)
  PROVE  /\ w \notin InState(l)
         /\ InState(l)' = InState(l) \cup {w}
         /\ \A k : k # l /\ k # wpc[w] => InState(k)' = InState(k)
<1>1. \A v \in Workers : wpc'[v] = IF v = w THEN l ELSE wpc[v]
  BY DEF TypeOK, Goto
<1>2. InState(l)' = InState(l) \cup {w} /\ w \notin InState(l)
  BY <1>1 DEF InState
<1>3. \A k : k # l /\ k # wpc[w] => InState(k)' = InState(k)
  BY <1>1 DEF InState
<1>4. QED
  BY <1>2, <1>3

-----------------------------------------------------------------------------
(* Submitting a connection adds one job and wakes one sleeper, if any.     *)
LEMMA SubmitStep ==
  ASSUME Inv, NEW c \in Conns, SubmitNew(c)
  PROVE  Inv'
<1> USE DEF Inv
<1>0. joining = "no" /\ running /\ c \notin Range(queue) /\ c \notin Range(cur) /\ c \notin closed
      /\ running' = running /\ cur' = cur /\ served' = served /\ joining' = joining
      /\ \A v \in Workers : cur[v] # c
  <2>1. cur \in [Workers -> Conns \cup {None}]
    BY DEF TypeOK
  <2>2. \A v \in Workers : cur[v] \in Range(cur)
    BY <2>1 DEF Range
  <2>3. QED
    BY <2>2 DEF SubmitNew, InPool, StopFlag
<1>1. CASE queue' = Append(queue, c) /\ Signal /\ UNCHANGED closed
  <2>1. /\ queue \in Seq(Conns) /\ queue' \in Seq(Conns)
        /\ Len(queue) \in Nat /\ Len(queue') = Len(queue) + 1
        /\ Range(queue') = Range(queue) \cup {c}
        /\ IsInjective(queue')
    <3>1. queue \in Seq(Conns) /\ IsInjective(queue) /\ queue' = Append(queue, c)
      BY <1>1 DEF TypeOK, OneOwner
    <3>2. Range(queue') = Range(queue) \cup {c} /\ IsInjective(queue')
      BY <3>1, <1>0, RangeOfAppend, InjectiveAppend
    <3>3. queue' \in Seq(Conns) /\ Len(queue) \in Nat /\ Len(queue') = Len(queue) + 1
      BY <3>1
    <3>4. QED
      BY <3>1, <3>2, <3>3
  <2>2. CASE InState("wait") = {} /\ UNCHANGED wpc
    <3>1. TypeOK'
      BY <1>0, <1>1, <2>1, <2>2 DEF TypeOK
    <3>2. OneOwner'
      BY <1>0, <1>1, <2>1, <2>2 DEF OneOwner
    <3>3. NoOversleeping' /\ StopReachesAll' /\ StopFlag'
      BY <1>0, <2>2 DEF NoOversleeping, StopReachesAll, StopFlag, InState
    <3>4. QED
      BY <3>1, <3>2, <3>3
  <2>3. ASSUME NEW w \in InState("wait"), Goto(w, "top")
        PROVE  Inv'
    <3>0. w \in Workers /\ wpc[w] = "wait"
      BY DEF InState
    <3>1. TypeOK'
      BY <1>0, <1>1, <2>1, <2>3, <3>0 DEF TypeOK, Goto, Places
    <3>2. OneOwner'
      BY <1>0, <1>1, <2>1 DEF OneOwner
    <3>3. /\ w \notin InState("top") /\ InState("top")' = InState("top") \cup {w}
          /\ InState("exit")' = InState("exit")
      BY <3>0, <2>3, Moves DEF Places
    <3>4. NoOversleeping'
      <4>1. Cardinality(InState("top")') = Cardinality(InState("top")) + 1
        BY <3>3, PlacesFinite, FS_AddElement
      <4>2. Len(queue) <= Cardinality(InState("top"))
        BY <2>3 DEF NoOversleeping
      <4>3. QED
        BY <4>1, <4>2, <2>1, PlacesFinite DEF NoOversleeping
    <3>5. StopReachesAll' /\ StopFlag'
      BY <1>0, <3>3 DEF StopReachesAll, StopFlag
    <3>6. QED
      BY <3>1, <3>2, <3>4, <3>5
  <2>4. QED
    BY <1>1, <2>2, <2>3 DEF Signal
<1>2. CASE closed' = closed \cup {c} /\ UNCHANGED <<queue, wpc>>
  <2>1. TypeOK'
    BY <1>0, <1>2 DEF TypeOK
  <2>2. OneOwner'
    BY <1>0, <1>2 DEF OneOwner
  <2>3. NoOversleeping' /\ StopReachesAll' /\ StopFlag'
    BY <1>0, <1>2 DEF NoOversleeping, StopReachesAll, StopFlag, InState
  <2>4. QED
    BY <2>1, <2>2, <2>3
<1>3. QED
  BY <1>1, <1>2 DEF SubmitNew, Submit

(* Taking a job removes it from the queue and its worker from "top".       *)
LEMMA TakeStep ==
  ASSUME Inv, NEW w \in Workers, TakeJob(w)
  PROVE  Inv'
<1> USE DEF Inv
<1> DEFINE h == Head(queue)
<1>1. /\ queue # <<>> /\ wpc[w] = "top" /\ cur[w] = None
      /\ queue' = Tail(queue) /\ cur' = [cur EXCEPT ![w] = h]
      /\ UNCHANGED <<running, closed, served, joining>>
  BY DEF TakeJob, TypeOK
<1>2. /\ h \in Conns /\ h \in Range(queue)
      /\ queue' \in Seq(Conns) /\ Len(queue') = Len(queue) - 1
      /\ Range(queue') = Range(queue) \ {h}
      /\ IsInjective(queue')
  BY <1>1, RangeOfTail DEF TypeOK, OneOwner
<1> HIDE DEF h
<1>3. \E l \in {"recv", "serve"} : Goto(w, l)
  BY DEF TakeJob, FirstStage
<1>4. /\ w \in InState("top") /\ InState("top")' = InState("top") \ {w}
      /\ InState("wait")' = InState("wait") /\ InState("exit")' = InState("exit")
  BY <1>1, <1>3 DEF TypeOK, InState, Goto
<1>5. TypeOK'
  BY <1>1, <1>2, <1>3, ThreadPoolAssumption DEF TypeOK, Goto, Places
<1>6. OneOwner'
  <2>1. Range(cur)' \subseteq Range(cur) \cup {h}
    BY <1>1, <1>2 DEF Range, TypeOK
  <2>2. h \notin Range(cur) /\ h \notin closed
    BY <1>2 DEF OneOwner, TypeOK, Range
  <2>3. \A u, v \in Workers : u # v /\ cur'[u] # None => cur'[u] # cur'[v]
    BY <1>1, <1>2, <2>2 DEF OneOwner, TypeOK, Range
  <2>4. \A u \in Workers : cur'[u] \notin Range(queue')
    BY <1>1, <1>2 DEF OneOwner, TypeOK
  <2>5. closed' \cap (Range(queue') \cup Range(cur)') = {}
    BY <1>1, <1>2, <2>1, <2>2 DEF OneOwner
  <2>6. QED
    BY <1>2, <2>3, <2>4, <2>5 DEF OneOwner, Range
<1>7. NoOversleeping'
  <2>1. Cardinality(InState("top")') = Cardinality(InState("top")) - 1
    BY <1>4, PlacesFinite, FS_RemoveElement
  <2>2. Len(queue) \in Nat
    BY DEF TypeOK
  <2>3. QED
    BY <1>2, <1>4, <2>1, <2>2, PlacesFinite DEF NoOversleeping
<1>8. StopReachesAll' /\ StopFlag'
  BY <1>1, <1>4 DEF StopReachesAll, StopFlag
<1>9. QED
  BY <1>5, <1>6, <1>7, <1>8

(* A worker goes to sleep only when there is no job.                       *)
LEMMA SleepStep ==
  ASSUME Inv, NEW w \in Workers, Sleep(w)
  PROVE  Inv'
<1> USE DEF Inv
<1>1. /\ wpc[w] = "top" /\ queue = <<>> /\ running /\ Goto(w, "wait")
      /\ UNCHANGED <<queue, running, cur, closed, served, joining>>
  BY DEF Sleep
<1>2. TypeOK' /\ OneOwner'
  BY <1>1 DEF TypeOK, OneOwner, Goto, Places
<1>3. NoOversleeping'
  <2>1. Cardinality(InState("top")') \in Nat
    BY ThreadPoolAssumption, FS_Subset, FS_CardinalityType DEF InState
  <2>2. Len(queue') = 0
    BY <1>1
  <2>3. QED
    BY <2>1, <2>2 DEF NoOversleeping
<1>4. StopReachesAll' /\ StopFlag'
  BY <1>1, Moves DEF StopReachesAll, StopFlag, Places
<1>5. QED
  BY <1>2, <1>3, <1>4

(* A worker leaves when there is no job and the stop flag is down.         *)
LEMMA ExitStep ==
  ASSUME Inv, NEW w \in Workers, Exit(w)
  PROVE  Inv'
<1> USE DEF Inv
<1>1. /\ wpc[w] = "top" /\ queue = <<>> /\ ~running /\ Goto(w, "exit")
      /\ UNCHANGED <<queue, running, cur, closed, served, joining>>
  BY DEF Exit, MayExit
<1>2. TypeOK' /\ OneOwner'
  BY <1>1 DEF TypeOK, OneOwner, Goto, Places
<1>3. InState("wait")' = {}
  BY <1>1, Moves DEF StopReachesAll, Places
<1>4. NoOversleeping' /\ StopReachesAll' /\ StopFlag'
  BY <1>1, <1>3 DEF NoOversleeping, StopReachesAll, StopFlag
<1>5. QED
  BY <1>2, <1>4

(* A worker that comes back to the queue, for whatever reason, can only    *)
(* help: one more is on its way to the jobs.                               *)
LEMMA ComeBack ==
  ASSUME Inv, NEW w \in Workers, wpc[w] # "top", wpc[w] # "exit", Goto(w, "top"),
         queue' = queue, running' = running, joining' = joining
  PROVE  NoOversleeping' /\ StopReachesAll' /\ StopFlag'
<1> USE DEF Inv
<1>1. /\ w \notin InState("top") /\ InState("top")' = InState("top") \cup {w}
      /\ InState("exit")' = InState("exit")
  BY Moves DEF Places
<1>2. InState("wait")' \subseteq InState("wait")
  BY DEF InState, Goto, TypeOK
<1>3. Cardinality(InState("top")') = Cardinality(InState("top")) + 1
  BY <1>1, PlacesFinite, FS_AddElement
<1>4. Len(queue) \in Nat
  BY DEF TypeOK
<1>5. NoOversleeping'
  BY <1>2, <1>3, <1>4, PlacesFinite DEF NoOversleeping
<1>6. QED
  BY <1>1, <1>2, <1>5 DEF StopReachesAll, StopFlag

(* A sleeper that wakes for no reason disturbs nothing.                    *)
LEMMA SpuriousStep ==
  ASSUME Inv, NEW w \in Workers, SpuriousWakeup(w)
  PROVE  Inv'
<1> USE DEF Inv
<1>1. /\ wpc[w] = "wait" /\ Goto(w, "top")
      /\ UNCHANGED <<queue, running, cur, closed, served, joining>>
  BY DEF SpuriousWakeup
<1>2. TypeOK' /\ OneOwner'
  BY <1>1 DEF TypeOK, OneOwner, Goto, Places
<1>3. QED
  BY <1>1, <1>2, ComeBack

(* Every way out of process_job: the connection moves from its worker to   *)
(* the closed ones.                                                        *)
LEMMA CloseStep ==
  ASSUME Inv, NEW w \in Workers, wpc[w] \in {"recv", "send"}, CloseAndReturn(w),
         UNCHANGED <<queue, running, joining>>,
         served' \subseteq served \cup {cur[w]}
  PROVE  Inv'
<1> USE DEF Inv
<1>1. /\ Goto(w, "top") /\ cur' = [cur EXCEPT ![w] = None]
      /\ closed' = closed \cup {cur[w]}
  BY DEF CloseAndReturn
<1>2. cur \in [Workers -> Conns \cup {None}] /\ cur[w] \in Conns /\ cur[w] # None
  BY DEF TypeOK
<1>3. TypeOK'
  BY <1>1, <1>2 DEF TypeOK, Goto, Places
<1>4. OneOwner'
  <2>1. \A u, v \in Workers : u # v /\ cur'[u] # None => cur'[u] # cur'[v]
    BY <1>1, <1>2 DEF OneOwner
  <2>2. \A u \in Workers : cur'[u] \notin Range(queue')
    <3>1. None \notin Range(queue)
      BY ThreadPoolAssumption, RangeOfSeq DEF TypeOK
    <3>2. QED
      BY <3>1, <1>1, <1>2 DEF OneOwner
  <2>3. cur[w] \notin Range(queue) /\ cur[w] \notin Range(cur)'
    BY <1>1, <1>2 DEF OneOwner, Range
  <2>4. Range(cur)' \subseteq Range(cur) \cup {None}
    BY <1>1, <1>2 DEF Range
  <2>5. None \notin closed'
    BY <1>3, ThreadPoolAssumption DEF TypeOK
  <2>6. closed' \cap (Range(queue') \cup Range(cur)') = {}
    BY <1>1, <2>3, <2>4, <2>5 DEF OneOwner
  <2>7. QED
    BY <2>1, <2>2, <2>6 DEF OneOwner
<1>5. QED
  BY <1>1, <1>3, <1>4, ComeBack

(* The payload or the answer is there: only the worker's place changes.    *)
LEMMA StageStep ==
  ASSUME Inv, NEW w \in Workers, RecvAll(w) \/ Serve(w)
  PROVE  Inv'
<1> USE DEF Inv
<1>1. /\ wpc[w] \in {"recv", "serve"} /\ \E l \in {"serve", "send"} : Goto(w, l)
      /\ UNCHANGED <<queue, running, cur, closed, served, joining>>
  BY DEF RecvAll, Serve
<1>2. TypeOK' /\ OneOwner'
  BY <1>1 DEF TypeOK, OneOwner, Goto, Places
<1>3. /\ InState("wait")' = InState("wait") /\ InState("top")' = InState("top")
      /\ InState("exit")' = InState("exit")
  BY <1>1 DEF TypeOK, InState, Goto
<1>4. QED
  BY <1>1, <1>2, <1>3 DEF NoOversleeping, StopReachesAll, StopFlag

(* threadpool_shutdown leaves nobody asleep.                               *)
LEMMA ShutdownStep ==
  ASSUME Inv, Shutdown
  PROVE  Inv'
<1> USE DEF Inv
<1>1. /\ joining = "no" /\ joining' = "yes" /\ running /\ running' = FALSE
      /\ Broadcast /\ UNCHANGED <<queue, cur, closed, served>>
  BY DEF Shutdown, StopFlag
<1>2. InState("wait")' = {} /\ InState("exit")' = {}
  BY <1>1 DEF Broadcast, InState, StopReachesAll
<1>3. TypeOK' /\ OneOwner'
  BY <1>1 DEF TypeOK, OneOwner, Broadcast, Places
<1>4. QED
  BY <1>1, <1>2, <1>3 DEF NoOversleeping, StopReachesAll, StopFlag

-----------------------------------------------------------------------------
(* Every step keeps the invariant.                                         *)
LEMMA NextInv == Inv /\ [Next]_poolVars => Inv'
<1> SUFFICES ASSUME Inv, [Next]_poolVars
             PROVE  Inv'
  OBVIOUS
<1>1. ASSUME NEW c \in Conns, SubmitNew(c)
      PROVE  Inv'
  BY <1>1, SubmitStep
<1>2. ASSUME NEW w \in Workers, Work(w)
      PROVE  Inv'
  BY <1>2, TakeStep, SleepStep, ExitStep, StageStep DEF Work
<1>3. ASSUME NEW w \in Workers, Client(w) \/ RecvNoMemory(w)
      PROVE  Inv'
  <2>1. CASE RecvShort(w) \/ RecvNoMemory(w) \/ Return(w)
    BY <2>1, CloseStep DEF RecvShort, RecvNoMemory, Return
  <2>2. QED
    BY <1>3, <2>1, StageStep DEF Client
<1>4. ASSUME NEW w \in Workers, SpuriousWakeup(w)
      PROVE  Inv'
  BY <1>4, SpuriousStep
<1>5. CASE Shutdown
  BY <1>5, ShutdownStep
<1>6. CASE Joined
  BY <1>6 DEF Joined, Inv, TypeOK, OneOwner, NoOversleeping, StopReachesAll, StopFlag, InState
<1>7. CASE UNCHANGED poolVars
  BY <1>7 DEF poolVars, Inv, TypeOK, OneOwner, NoOversleeping, StopReachesAll, StopFlag, InState
<1>8. QED
  BY <1>1, <1>2, <1>3, <1>4, <1>5, <1>6, <1>7 DEF Next

(* The invariant holds throughout.                                         *)
LEMMA InvHolds == Spec => []Inv
BY InitInv, NextInv, PTL DEF Spec

-----------------------------------------------------------------------------
(* Every reachable state is type correct, and a worker has a job exactly   *)
(* while it processes one.                                                 *)
THEOREM TypeCorrect == Spec => []TypeOK
<1>1. Inv => TypeOK
  BY DEF Inv
<1>2. QED
  BY <1>1, InvHolds, PTL

(* A connection has one owner and is not touched again once closed, for    *)
(* any number of workers and connections and whatever mallocs fail.        *)
THEOREM ConnectionsOwned == Spec => []OneOwner
<1>1. Inv => OneOwner
  BY DEF Inv
<1>2. QED
  BY <1>1, InvHolds, PTL

(* One signal for each submission is enough: while a worker sleeps, every  *)
(* queued job has a worker on its way to it.                               *)
THEOREM WakeupsEnough == Spec => []NoOversleeping
<1>1. Inv => NoOversleeping
  BY DEF Inv
<1>2. QED
  BY <1>1, InvHolds, PTL

(* threadpool_shutdown reaches every worker, and no worker leaves while    *)
(* there are jobs.                                                         *)
THEOREM StopSeen == Spec => []StopReachesAll
<1>1. Inv => StopReachesAll
  BY DEF Inv
<1>2. QED
  BY <1>1, InvHolds, PTL

-----------------------------------------------------------------------------
(* The connections being worked on, as JobQueue sees them.                 *)
Doing == Range(cur) \ {None}

(* The library operators JobQueue uses are the ones used here.             *)
LEMMA SameOperators ==
  /\ \A S : Q!Cardinality(S) = Cardinality(S)
  /\ \A f : Q!Range(f) = Range(f)
<1>1. ASSUME NEW S PROVE Q!Cardinality(S) = Cardinality(S)
  BY Zenon DEF Q!Cardinality, Cardinality
<1>2. ASSUME NEW f PROVE Q!Range(f) = Range(f)
  BY Zenon DEF Q!Range, Range
<1>3. QED
  BY <1>1, <1>2

(* Fewer connections than workers are worked on while a worker is idle.    *)
LEMMA IdleMeansRoom ==
  ASSUME Inv, NEW w \in Workers, cur[w] = None
  PROVE  Cardinality(Doing) < Cardinality(Workers)
<1>1. /\ cur \in [Workers -> Conns \cup {None}]
      /\ \A u, v \in Workers : u # v /\ cur[u] # None => cur[u] # cur[v]
  BY DEF Inv, TypeOK, OneOwner
<1> DEFINE Who == [c \in Doing |-> CHOOSE v \in Workers : cur[v] = c]
<1>2. \A c \in Doing : Who[c] \in Workers \ {w} /\ cur[Who[c]] = c
  <2> SUFFICES ASSUME NEW c \in Doing
               PROVE  Who[c] \in Workers \ {w} /\ cur[Who[c]] = c
    OBVIOUS
  <2>1. c # None /\ \E v \in Workers : cur[v] = c
    BY <1>1 DEF Doing, Range
  <2>2. QED
    BY <2>1
<1>3. Who \in [Doing -> Workers \ {w}]
  BY <1>2
<1>4. Who \in Injection(Doing, Workers \ {w})
  BY <1>2, <1>3 DEF Injection, IsInjective
<1>5. /\ IsFiniteSet(Workers \ {w})
      /\ Cardinality(Workers \ {w}) = Cardinality(Workers) - 1
  BY ThreadPoolAssumption, FS_RemoveElement
<1>6. IsFiniteSet(Doing) /\ Cardinality(Doing) <= Cardinality(Workers \ {w})
  <2> HIDE DEF Who
  <2>1. QED
    BY <1>4, <1>5, FS_Injection
<1>7. Cardinality(Workers) \in Nat /\ Cardinality(Doing) \in Nat
  BY <1>6, ThreadPoolAssumption, FS_CardinalityType
<1>8. QED
  BY <1>5, <1>6, <1>7

(* A worker leaving process_job ends its job.                              *)
LEMMA CloseIsEnd ==
  ASSUME Inv, NEW w \in Workers, wpc[w] \in {"recv", "send"}, CloseAndReturn(w),
         UNCHANGED <<queue, running, joining>>
  PROVE  Q!Next
<1>1. /\ cur \in [Workers -> Conns \cup {None}] /\ cur[w] \in Conns /\ cur[w] # None
      /\ \A u, v \in Workers : u # v /\ cur[u] # None => cur[u] # cur[v]
  BY DEF Inv, TypeOK, OneOwner
<1>2. cur' = [cur EXCEPT ![w] = None] /\ closed' = closed \cup {cur[w]}
  BY DEF CloseAndReturn
<1>3. cur[w] \in Range(cur) \ {None}
  BY <1>1 DEF Range
<1>4. (Range(cur) \ {None})' = (Range(cur) \ {None}) \ {cur[w]}
  BY <1>1, <1>2 DEF Range
<1>5. Q!End(cur[w])
  BY <1>2, <1>3, <1>4 DEF Q!End
<1>6. QED
  BY <1>1, <1>5 DEF Q!Next

(* Taking a job begins it.                                                 *)
LEMMA TakeIsBegin ==
  ASSUME Inv, NEW w \in Workers, TakeJob(w)
  PROVE  Q!Next
<1>1. /\ cur \in [Workers -> Conns \cup {None}] /\ cur[w] = None
      /\ queue \in Seq(Conns) /\ queue # <<>> /\ None \notin Conns
  BY ThreadPoolAssumption DEF Inv, TypeOK, TakeJob
<1>2. /\ queue' = Tail(queue) /\ cur' = [cur EXCEPT ![w] = Head(queue)]
      /\ UNCHANGED <<closed, joining>>
  BY DEF TakeJob
<1>3. Head(queue) \in Conns
  BY <1>1, HeadTailProperties
<1>4. (Range(cur) \ {None})' = (Range(cur) \ {None}) \cup {Head(queue)}
  <2> DEFINE h == Head(queue)
  <2> HIDE DEF h
  <2>1. cur' = [cur EXCEPT ![w] = h] /\ h # None
    BY <1>1, <1>2, <1>3 DEF h
  <2>2. (Range(cur) \ {None})' = (Range(cur) \ {None}) \cup {h}
    BY <2>1, <1>1 DEF Range
  <2>3. QED
    BY <2>2 DEF h
<1>5. Cardinality(Range(cur) \ {None}) < Cardinality(Workers)
  BY <1>1, IdleMeansRoom DEF Doing
<1>6. Q!Begin
  BY <1>1, <1>2, <1>4, <1>5, SameOperators DEF Q!Begin
<1>7. QED
  BY <1>6 DEF Q!Next

(* The pool implements the job queue: every connection submitted is worked *)
(* on once, in order, and shutdown returns only when none is left.         *)
THEOREM ImplementsJobQueue == Spec => QueueSpec
<1>1. Init => Q!Init
  <2> SUFFICES ASSUME Init PROVE Q!Init
    OBVIOUS
  <2>1. Range(cur) \ {None} = {}
    BY DEF Init, Range
  <2>2. QED
    BY <2>1 DEF Init, Q!Init
<1>2. Inv /\ [Next]_poolVars => [Q!Next]_(Q!queueVars)
  <2> SUFFICES ASSUME Inv, [Next]_poolVars
               PROVE  Q!Next \/ UNCHANGED Q!queueVars
    OBVIOUS
  <2>1. ASSUME NEW c \in Conns, SubmitNew(c)
        PROVE  Q!Next
    <3>1. c \notin Q!Range(queue) \cup (Range(cur) \ {None}) \cup closed
      BY <2>1, SameOperators DEF SubmitNew, InPool
    <3>2. cur' = cur /\ joining' = joining
      BY <2>1 DEF SubmitNew
    <3>3. CASE queue' = Append(queue, c) /\ closed' = closed
      BY <3>1, <3>2, <3>3 DEF Q!Next, Q!Put
    <3>4. CASE MemMayFail /\ closed' = closed \cup {c} /\ queue' = queue
      BY <3>1, <3>2, <3>4 DEF Q!Next, Q!PutRefused
    <3>5. QED
      BY <2>1, <3>3, <3>4 DEF SubmitNew, Submit
  <2>2. ASSUME NEW w \in Workers, Work(w)
        PROVE  Q!Next \/ UNCHANGED Q!queueVars
    <3>1. CASE Sleep(w) \/ Exit(w) \/ Serve(w)
      BY <3>1 DEF Sleep, Exit, Serve, Q!queueVars
    <3>2. QED
      BY <2>2, <3>1, TakeIsBegin DEF Work
  <2>3. ASSUME NEW w \in Workers, Client(w) \/ RecvNoMemory(w) \/ SpuriousWakeup(w)
        PROVE  Q!Next \/ UNCHANGED Q!queueVars
    <3>1. CASE RecvShort(w) \/ RecvNoMemory(w) \/ Return(w)
      BY <3>1, CloseIsEnd DEF RecvShort, RecvNoMemory, Return
    <3>2. CASE RecvAll(w) \/ SpuriousWakeup(w)
      BY <3>2 DEF RecvAll, SpuriousWakeup, Q!queueVars
    <3>3. QED
      BY <2>3, <3>1, <3>2 DEF Client
  <2>4. CASE Shutdown
    BY <2>4 DEF Shutdown, Q!queueVars
  <2>5. CASE Joined
    <3>1. /\ Workers # {} /\ InState("exit") = Workers
          /\ \A w \in Workers : wpc[w] = "exit"
      BY <2>5, ThreadPoolAssumption DEF Joined, InState
    <3>2. queue = <<>>
      BY <3>1 DEF Inv, StopReachesAll
    <3>3. Range(cur) \ {None} = {}
      BY <3>1 DEF Inv, TypeOK, Range
    <3>4. Q!Down
      BY <2>5, <3>2, <3>3 DEF Joined, Q!Down
    <3>5. QED
      BY <3>4 DEF Q!Next
  <2>6. CASE UNCHANGED poolVars
    BY <2>6 DEF poolVars, Q!queueVars
  <2>7. QED
    BY <2>1, <2>2, <2>3, <2>4, <2>5, <2>6 DEF Next
<1>3. QED
  BY <1>1, <1>2, InvHolds, PTL DEF Spec, QueueSpec, Q!Spec
=============================================================================
