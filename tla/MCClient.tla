------------------------------ MODULE MCClient ------------------------------
(* Instances of Client for TLC, with narrow integers: names of at most 2   *)
(* bytes, 4 for 2^16, 20 for 2^32, and a write call that moves 2 bytes.    *)
EXTENDS Client

CONSTANTS a, b, x, slash, dot, nul

TwoClients == {a, b}
FourBytes == {x, slash, dot, nul}

Named(op, n) == [op |-> op, name |-> n]
Send(n, s)   == [op |-> "upload", name |-> n, size |-> s]
Raw(f)       == [op |-> "raw", frame |-> f]

ShortName == <<x>>
Names403  == {<<>>, <<x, x, x>>, <<x, slash>>, <<dot, dot>>}

(* An empty file, one that one write call moves, one that takes two, and   *)
(* the three sizes at which payload_len wraps: to 0, to a few bytes, and   *)
(* to the payload_len of an empty file.                                    *)
Sizes == {0, 2, 4, 9, 12, 20}

(* A name of 2^16 + 1 bytes: the client sends its first byte.              *)
LongName == <<x, x, x, x, x>>

UserCommands ==
  {[op |-> "list"], [op |-> "unknown"]}
  \cup {Send(ShortName, s) : s \in Sizes}
  \cup {Send(n, 0) : n \in Names403}
  \cup {Named(op, ShortName) : op \in {"download", "delete"}}
  \cup {Named("delete", LongName)}
  \cup {[op |-> "chmod", name |-> ShortName, mode |-> 292]}

(* Frames with lengths that disagree, with a name no C string can be, and  *)
(* some that are right.                                                    *)
RawFrames ==
  {Frame("upload", plen, 1, ShortName, 0) : plen \in {1, 3, 10, 11, 12}}
  \cup {Frame("upload", plen, 1, ShortName, 1) : plen \in {3, 11, 12}}
  \cup {Frame("delete", plen, 1, ShortName, 0) : plen \in {1, 3, 4}}
  \cup {Frame("chmod", plen, 1, ShortName, 384) : plen \in {3, 7}}
  \cup {Frame("upload", 12, 2, <<x, nul>>, 0), Frame("delete", 4, 2, <<x, nul>>, 0)}
  \cup {Frame("list", 3, 0, <<>>, 0), Frame("other", 0, 0, <<>>, 0)}

(* One client runs any command; the other one is a second user of the same *)
(* file, or a program that is no NERV-FS client.                           *)
AnyAndOther ==
  [c \in TwoClients |->
     IF c = a THEN UserCommands
     ELSE {Send(ShortName, 2), Send(ShortName, 4), Named("delete", ShortName)}
            \cup {Raw(f) : f \in RawFrames}]
=============================================================================
