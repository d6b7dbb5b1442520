---------------------------- MODULE FileService ----------------------------
(***************************************************************************)
(* The vocabulary of the file service: names, contents, modes, requests    *)
(* and answers, shared by the promise (AtomicStore) and by the code's      *)
(* handlers (Handlers).                                                    *)
(***************************************************************************)
EXTENDS FiniteSets

CONSTANTS Threads,      \* the workers, each serving one connection at a time
          Names,        \* file names
          Data,         \* contents of uploads that are not empty
          Empty,        \* the content of no bytes
          Modes,        \* permission bits
          Readable,     \* modes with which the server can open for reading
          Writable,     \* modes with which the server can open for writing
          DefaultMode,  \* the mode of a file an upload creates
          Absent,       \* the state of a name without a file
          None,         \* no request, no answer
          Requests,     \* the requests clients may send
          IoMayFail     \* may system calls on files and malloc fail?

(* The bytes of a file: some upload's content, or the first part of it.    *)
Whole(d) == [of |-> d, part |-> "all"]
Part(d)  == [of |-> d, part |-> "some"]
Bodies   == {Whole(d) : d \in Data \cup {Empty}} \cup {Part(d) : d \in Data}
Files    == [body : Bodies, mode : Modes]

(* What a file may hold after an upload of d that failed or is under way.  *)
Prefixes(d) == {Whole(Empty), Whole(d)} \cup (IF d = Empty THEN {} ELSE {Part(d)})

AllRequests ==
       [op : {"upload"}, name : Names, data : Data \cup {Empty}]
  \cup [op : {"download", "delete"}, name : Names]
  \cup [op : {"chmod"}, name : Names, mode : Modes]
  \cup {[op |-> "list"]}
  \cup [op : {"bad"}, code : {400, 403}]

Ok            == [code |-> 0]
Err(c)        == [code |-> c]
FileData(b)   == [code |-> 0, body |-> b]
Listing(seen) == [code |-> 0, seen |-> seen]

Answers ==
       {Ok} \cup {Err(c) : c \in {400, 403, 404, 500}} \cup {FileData(b) : b \in Bodies}
  \cup {Listing(seen) : seen \in [Names -> Files \cup {Absent}]}

(* An upload keeps the mode of the file it overwrites.                     *)
ModeAfterUpload(f) == IF f = Absent THEN DefaultMode ELSE f.mode

CanRead(f)  == f # Absent /\ f.mode \in Readable
CanWrite(f) == f # Absent => f.mode \in Writable

(* What a listing has seen, and now sees of more names.                    *)
SeenMore(seen, more) ==
  [n \in DOMAIN seen \cup DOMAIN more |-> IF n \in DOMAIN more THEN more[n] ELSE seen[n]]

ASSUME FileServiceAssumption ==
  /\ IsFiniteSet(Threads) /\ IsFiniteSet(Names)
  /\ Readable \subseteq Modes /\ Writable \subseteq Modes
  /\ DefaultMode \in Readable \cap Writable
  /\ Empty \notin Data
  /\ Absent \notin Files
  /\ None \notin AllRequests \cup Answers
  /\ Requests \subseteq AllRequests
  /\ IoMayFail \in BOOLEAN
=============================================================================
