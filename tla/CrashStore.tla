----------------------------- MODULE CrashStore -----------------------------
(***************************************************************************)
(* AtomicStore when the server may be killed and the machine may lose      *)
(* power, after which it starts again.  A kill undoes nothing that was     *)
(* decided; each upload under way takes effect wholly, in part, or not at  *)
(* all.  A loss of power may undo a lot, but a file it leaves under a name *)
(* has a content and a mode that some request put there.                   *)
(*                                                                         *)
(* Crash is shown to implement this specification.                         *)
(***************************************************************************)
EXTENDS AtomicStore

VARIABLE may  \* may[n]: what a loss of power may leave under the name n

StoreInit == Init /\ may = [n \in Names |-> {Absent}]

(* What the file system may make of the states a name was in: the content  *)
(* of one with the mode of another.                                        *)
MadeOf(f, S) ==
  f # Absent => \E g, h \in S \ {Absent} : f = [body |-> g.body, mode |-> h.mode]

NothingInvented ==
  \A n \in Names :
    LET S == may[n] \cup Views(n) \cup {store'[n]}
    IN  \A f \in may'[n] : MadeOf(f, S)

Serve == (UNCHANGED storeVars \/ Next) /\ NothingInvented

(* The server starts again without connections.                            *)
Forget ==
  /\ job' = [t \in Threads |-> None]
  /\ rows' = [t \in Threads |-> <<>>]
  /\ ans' = [t \in Threads |-> None]
  /\ sent' = [t \in Threads |-> None]

Kill ==
  /\ Forget
  /\ DOMAIN store' = Names /\ \A n \in Names : store'[n] \in Views(n)
  /\ UNCHANGED may

LosePower ==
  /\ Forget
  /\ DOMAIN store' = Names
  /\ \A n \in Names : store'[n] \in may[n] /\ may'[n] \subseteq may[n]

StoreNext == Serve \/ Kill \/ LosePower

StoreSpec == StoreInit /\ [][StoreNext]_<<storeVars, may>>
=============================================================================
