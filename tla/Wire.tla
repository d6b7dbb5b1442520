-------------------------------- MODULE Wire --------------------------------
(***************************************************************************)
(* The lengths of the wire protocol: what nervfs_client.c announces in the *)
(* frames it builds, and which frames handlers.c and safe_resolve_path     *)
(* accept.  Names are sequences of bytes, since their length matters; the  *)
(* bytes of a file are counted, not listed.                                *)
(***************************************************************************)
EXTENDS Naturals, Sequences

CONSTANTS U16,       \* 2^16: a uint16_t holds 0 .. U16-1
          U32,       \* 2^32
          MaxName,   \* NERVFS_MAX_NAME_LEN
          WriteCap,  \* the most bytes one write call moves
          Bytes,     \* what names are made of
          Slash, Dot, Nul

ASSUME WireAssumption ==
  /\ U16 \in Nat /\ U32 \in Nat /\ MaxName \in Nat /\ WriteCap \in Nat
  /\ MaxName < U16
  /\ U16 + 10 < U32

(* A request: its opcode ("other" for one the server does not know), the   *)
(* payload_len of the header, and the fields of the payload: name_len, that*)
(* many bytes, and the file_size of an upload or the mode of a chmod.      *)
Frame(op, plen, nlen, name, arg) ==
  [op |-> op, plen |-> plen, nlen |-> nlen, name |-> name, arg |-> arg]

Opcodes == {"list", "upload", "download", "delete", "chmod", "other"}

Frames ==
  [op : Opcodes, plen : 0..U32-1, nlen : 0..U16-1, name : Seq(Bytes), arg : Nat]

-----------------------------------------------------------------------------
(* The client.  name_len is (uint16_t)strlen(name), and only name_len      *)
(* bytes of the name are sent.                                             *)
NameLen(name)   == Len(name) % U16
NameBytes(name) == SubSeq(name, 1, NameLen(name))

(* payload_len of an upload, a sum of uint32_t.                            *)
UploadLen(name, size) == (2 + NameLen(name) + 8 + (size % U32)) % U32

UploadFrame(name, size) ==
  Frame("upload", UploadLen(name, size), NameLen(name), NameBytes(name), size)

NameFrame(op, name) ==
  Frame(op, 2 + NameLen(name), NameLen(name), NameBytes(name), 0)

ChmodFrame(name, mode) ==
  Frame("chmod", 2 + NameLen(name) + 4, NameLen(name), NameBytes(name), mode)

RequestOf(cmd) ==
  CASE cmd.op = "list"   -> Frame("list", 0, 0, <<>>, 0)
    [] cmd.op = "upload" -> UploadFrame(cmd.name, cmd.size)
    [] cmd.op = "chmod"  -> ChmodFrame(cmd.name, cmd.mode)
    [] OTHER             -> NameFrame(cmd.op, cmd.name)

-----------------------------------------------------------------------------
(* The handlers.  With payload_len at least 2 they may read name_len.      *)
MalformedUploadLax(f) ==
  \/ f.plen < 2 + f.nlen
  \/ f.plen - (2 + f.nlen) < f.arg

MalformedUpload(f) ==
  \/ f.plen < 2
  \/ f.plen < 2 + f.nlen + 8
  \/ f.plen - (2 + f.nlen + 8) # f.arg

Malformed(f) ==
  CASE f.op = "list"   -> FALSE
    [] f.op = "other"  -> TRUE
    [] f.op = "upload" -> MalformedUpload(f)
    [] f.op = "chmod"  -> f.plen < 2 \/ f.plen # 2 + f.nlen + 4
    [] OTHER           -> f.plen < 2 \/ f.plen # 2 + f.nlen

(* safe_resolve_path; a C string cannot hold the null byte it also refuses. *)
ValidName(name) ==
  /\ Len(name) \in 1..MaxName
  /\ \A i \in DOMAIN name : name[i] \notin {Slash, Nul}
  /\ name # <<Dot>> /\ name # <<Dot, Dot>>

Accepted(f) == ~Malformed(f) /\ (f.op = "list" \/ ValidName(f.name))

Refusal(f) == IF Malformed(f) THEN 400 ELSE 403

(* The bytes of the payload the handler of an accepted frame works on.     *)
Used(f) ==
  CASE f.op = "upload" -> 2 + f.nlen + 8 + f.arg
    [] f.op = "chmod"  -> 2 + f.nlen + 4
    [] OTHER           -> 2 + f.nlen

(* The header of a download announces (uint32_t)(8 + size) bytes.          *)
BodyOnlyLen(size) == size % U32

DownloadLen(size) == (8 + size) % U32

(* The one write call of an upload moves all bytes.                        *)
OneWriteIsEnough(size) == size <= WriteCap

(* The sizes in which an upload that fails after open can leave the file:  *)
(* the lock is refused, or the write stops short.                          *)
Leftovers(size) == {k \in 0..WriteCap : k < size \/ k = 0}
=============================================================================
