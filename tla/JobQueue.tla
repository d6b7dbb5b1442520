------------------------------ MODULE JobQueue ------------------------------
(***************************************************************************)
(* What the thread pool promises the select loop: a submitted connection   *)
(* is worked on once, in the order of submission, and shutdown is over     *)
(* only when nothing submitted is left (threadpool.h).                     *)
(***************************************************************************)
EXTENDS Naturals, Sequences, FiniteSets, Functions

CONSTANTS Workers,   \* the worker threads
          Conns,     \* connections whose header has been read
          MayRefuse  \* may a submission fail for want of memory?

VARIABLES todo,   \* submitted and not yet begun, in order
          doing,  \* being worked on
          ended,  \* finished or refused: the connection is closed
          down    \* shutdown has returned

queueVars == <<todo, doing, ended, down>>

Init == todo = <<>> /\ doing = {} /\ ended = {} /\ down = FALSE

Put(c) ==
  /\ c \notin Range(todo) \cup doing \cup ended
  /\ todo' = Append(todo, c)
  /\ UNCHANGED <<doing, ended, down>>

PutRefused(c) ==
  /\ MayRefuse
  /\ c \notin Range(todo) \cup doing \cup ended
  /\ ended' = ended \cup {c}
  /\ UNCHANGED <<todo, doing, down>>

Begin ==
  /\ todo # <<>> /\ Cardinality(doing) < Cardinality(Workers)
  /\ doing' = doing \cup {Head(todo)}
  /\ todo' = Tail(todo)
  /\ UNCHANGED <<ended, down>>

End(c) ==
  /\ c \in doing
  /\ doing' = doing \ {c}
  /\ ended' = ended \cup {c}
  /\ UNCHANGED <<todo, down>>

Down ==
  /\ ~down /\ todo = <<>> /\ doing = {}
  /\ down' = TRUE
  /\ UNCHANGED <<todo, doing, ended>>

Next ==
  \/ \E c \in Conns : Put(c) \/ PutRefused(c) \/ End(c)
  \/ Begin
  \/ Down

Spec == Init /\ [][Next]_queueVars
=============================================================================
