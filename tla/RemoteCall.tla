----------------------------- MODULE RemoteCall -----------------------------
(***************************************************************************)
(* What the users of the clients may rely on: a command is carried out at  *)
(* most once, and its whole effect comes with it; a client ends with       *)
(* status 0 only afterwards.  Status 1 says nothing: the command may have  *)
(* been carried out, may still be, or an upload may have left a part of    *)
(* its file.                                                               *)
(*                                                                         *)
(* Client is shown to implement this specification.                        *)
(***************************************************************************)
EXTENDS Naturals

CONSTANTS Clients, DefaultMode, None

VARIABLES store,    \* the files, by their names
          decided,  \* decided[c]: the server has decided on c's request
          did,      \* did[c]: what it did for it: with or on which file, or None
          exit      \* exit[c]: the exit status of c, or None

callVars == <<store, decided, did, exit>>

Init ==
  /\ store = <<>>
  /\ decided = [c \in Clients |-> FALSE]
  /\ did = [c \in Clients |-> None]
  /\ exit = [c \in Clients |-> None]

With(n, f) == [m \in DOMAIN store \cup {n} |-> IF m = n THEN f ELSE store[m]]
Without(n) == [m \in DOMAIN store \ {n} |-> store[m]]

ModeOf(n) == IF n \in DOMAIN store THEN store[n].mode ELSE DefaultMode

(* An upload makes c the owner of the content under the name.              *)
Uploaded(c, n, f) == f.of = c /\ f.mode = ModeOf(n) /\ store' = With(n, f)

Effect(c, d) ==
  \/ d.op = "list" /\ UNCHANGED store
  \/ d.op = "upload" /\ Uploaded(c, d.name, d.file)
  \/ /\ d.name \in DOMAIN store
     /\ LET f == store[d.name]
        IN  \/ d.op = "download" /\ d.file = f /\ UNCHANGED store
            \/ d.op = "delete" /\ d.file = f /\ store' = Without(d.name)
            \/ /\ d.op = "chmod" /\ d.file = [f EXCEPT !.mode = d.file.mode]
               /\ store' = With(d.name, d.file)

(* The one time the server acts for c.                                     *)
CarryOut(c) ==
  /\ did'[c] # None
  /\ did' = [did EXCEPT ![c] = did'[c]]
  /\ Effect(c, did'[c])

LeavePart(c) ==
  /\ \E n \in DOMAIN store' : Uploaded(c, n, store'[n])
  /\ UNCHANGED did

Decide(c) ==
  /\ ~decided[c]
  /\ decided' = [decided EXCEPT ![c] = TRUE]
  /\ CarryOut(c) \/ LeavePart(c) \/ UNCHANGED <<store, did>>
  /\ UNCHANGED exit

End(c) ==
  /\ exit[c] = None
  /\ \E s \in {0, 1} : (s = 0 => did[c] # None) /\ exit' = [exit EXCEPT ![c] = s]
  /\ UNCHANGED <<store, decided, did>>

Next == \E c \in Clients : Decide(c) \/ End(c)

Spec == Init /\ [][Next]_callVars
=============================================================================
