---------------------------- MODULE ClientProofs ----------------------------
(***************************************************************************)
(* Proofs about the lengths of Wire and the exchange of Client, for any    *)
(* widths, clients, commands and frames.                                   *)
(***************************************************************************)
EXTENDS Client, TLAPS

-----------------------------------------------------------------------------
(* A uint16_t keeps its value below 2^16.                                  *)
LEMMA NameLenRange ==
  ASSUME NEW name \in Seq(Bytes)
  PROVE  /\ NameLen(name) \in 0..U16-1 /\ NameLen(name) <= Len(name)
         /\ Len(name) < U16 => NameLen(name) = Len(name)
<1>1. Len(name) \in Nat /\ U16 \in Nat /\ U16 > 0
  BY WireAssumption
<1>2. QED
  BY <1>1 DEF NameLen

(* The client sends a name that is shorter than 2^16 bytes as it is.       *)
LEMMA ShortNameSent ==
  ASSUME NEW name \in Seq(Bytes), Len(name) < U16
  PROVE  NameBytes(name) = name
BY NameLenRange DEF NameBytes

(* Whatever a client is asked to do, the fields of its request fit the     *)
(* widths of the protocol.                                                 *)
LEMMA RequestFits ==
  ASSUME NEW c, cmd[c] \in AllCommands, cmd[c].op # "unknown"
  PROVE  Asked(c) \in Frames
<1>1. ASSUME NEW name \in Seq(Bytes)
      PROVE  /\ NameBytes(name) \in Seq(Bytes) /\ NameLen(name) \in 0..U16-1
             /\ 2 + NameLen(name) \in 0..U32-1 /\ 2 + NameLen(name) + 4 \in 0..U32-1
  BY NameLenRange, WireAssumption DEF NameBytes
<1>2. CASE cmd[c].op = "raw"
  BY <1>2 DEF AllCommands, Asked, IsRaw
<1>3. CASE cmd[c].op = "list"
  BY <1>3, WireAssumption DEF AllCommands, Asked, IsRaw, RequestOf, Frame, Frames, Opcodes
<1>4. CASE cmd[c].op = "upload"
  <2>1. cmd[c].name \in Seq(Bytes) /\ cmd[c].size \in Nat
    BY <1>4 DEF AllCommands
  <2>2. ASSUME NEW i \in Nat
        PROVE  i % U32 \in Nat /\ i % U32 \in 0..U32-1
    BY WireAssumption
  <2>3. 2 + NameLen(cmd[c].name) + 8 + (cmd[c].size % U32) \in Nat
    <3>1. cmd[c].size % U32 \in Nat
      BY <2>1, <2>2, Zenon
    <3>2. NameLen(cmd[c].name) \in Nat
      BY <2>1, <1>1, WireAssumption
    <3>3. QED
      BY <3>1, <3>2
  <2>4. UploadLen(cmd[c].name, cmd[c].size) \in 0..U32-1
    BY <2>2, <2>3 DEF UploadLen
  <2>5. QED
    BY <1>4, <2>1, <2>4, <1>1
       DEF Asked, IsRaw, RequestOf, UploadFrame, Frame, Frames, Opcodes
<1>5. CASE cmd[c].op = "chmod"
  <2>1. cmd[c].name \in Seq(Bytes) /\ cmd[c].mode \in Nat
    BY <1>5 DEF AllCommands
  <2>2. QED
    BY <1>5, <2>1, <1>1 DEF Asked, IsRaw, RequestOf, ChmodFrame, Frame, Frames, Opcodes
<1>6. CASE cmd[c].op \in {"download", "delete"}
  <2>1. cmd[c].name \in Seq(Bytes)
    BY <1>6 DEF AllCommands
  <2>2. QED
    BY <1>6, <2>1, <1>1 DEF Asked, IsRaw, RequestOf, NameFrame, Frame, Frames, Opcodes
<1>7. QED
  BY <1>2, <1>3, <1>4, <1>5, <1>6 DEF AllCommands

(* The checks of the handlers leave no byte of a payload unused and use    *)
(* none beyond it, whatever the lengths in the frame are.                  *)
LEMMA AcceptedUsesAll ==
  ASSUME NEW f \in Frames, Accepted(f), f.op # "list"
  PROVE  Used(f) = f.plen
<1>1. f.op \in Opcodes /\ f.plen \in Nat /\ f.nlen \in Nat /\ f.arg \in Nat
  BY WireAssumption DEF Frames
<1>2. QED
  BY <1>1 DEF Accepted, Malformed, MalformedUpload, Used, Opcodes

(* So an accepted upload is small enough for the header of its download.   *)
LEMMA AcceptedUploadFits ==
  ASSUME NEW f \in Frames, Accepted(f), f.op = "upload"
  PROVE  f.arg \in Nat /\ f.arg + 8 < U32
<1>1. f.plen \in 0..U32-1 /\ f.nlen \in Nat /\ f.arg \in Nat
  BY WireAssumption DEF Frames
<1>2. 2 + f.nlen + 8 + f.arg = f.plen
  BY AcceptedUsesAll DEF Used
<1>3. QED
  BY <1>1, <1>2, WireAssumption

(* A download that fits its header says its own size.                      *)
LEMMA SmallSizesAnnounced ==
  ASSUME NEW size \in Nat, size + 8 < U32
  PROVE  DownloadLen(size) = 8 + size
BY WireAssumption DEF DownloadLen

-----------------------------------------------------------------------------
(* What a response says the server has done.                               *)
Told(c) ==
  /\ resp[c].kind \in {"ok", "error", "file", "list"}
  /\ resp[c].kind # "error" =>
       did[c] # None /\ did[c].op = frame[c].op /\ did[c].name = frame[c].name
  /\ resp[c].kind = "ok" =>
       /\ frame[c].op \in {"upload", "delete", "chmod"}
       /\ frame[c].op = "upload" => did[c].file.of = c /\ did[c].file.size = frame[c].arg
       /\ frame[c].op = "chmod" => did[c].file.mode = frame[c].arg
  /\ resp[c].kind = "file" =>
       /\ frame[c].op = "download" /\ did[c].file = resp[c].file
       /\ resp[c].plen = 8 + resp[c].file.size
  /\ resp[c].kind = "list" => frame[c].op = "list"

(* The request of a client on its way to the server.                       *)
Sending(c) ==
  /\ cmd[c] \in AllCommands
  /\ pc[c] \in {"connect", "build"} => wire[c] = "none"
  /\ pc[c] = "send" \/ wire[c] # "none" => frame[c] = Asked(c) /\ cmd[c].op # "unknown"

(* What the server does with it: it starts from a whole request, and       *)
(* nothing can be read before it has done its work.                        *)
Serving(c) ==
  /\ srv[c] \in {"work", "answer"} => wire[c] = "all"
  /\ srv[c] \in {"none", "open", "work"} => out[c] = "none" /\ did[c] = None
  /\ did[c] # None => wire[c] = "all" /\ Accepted(frame[c]) /\ did[c].op = frame[c].op
  /\ resp[c] # None \/ out[c] # "none" \/ srv[c] = "answer" => wire[c] = "all" /\ Told(c)

(* What the client makes of the response.                                  *)
Reading(c) ==
  /\ pc[c] \in {"body", "save"} => out[c] # "none"
  /\ pc[c] = "save" => resp[c].kind = "file"
  /\ exit[c] = 0 =>
       /\ out[c] # "none" /\ resp[c].kind # "error"
       /\ resp[c].kind = "file" => local[c].file = resp[c].file

(* Files in the store came through an accepted upload.                     *)
StoreFits ==
  \A n \in DOMAIN store : store[n] \in Files /\ store[n].size + 8 < U32

Typed ==
  /\ DOMAIN pc = Clients /\ DOMAIN frame = Clients /\ DOMAIN wire = Clients
  /\ DOMAIN srv = Clients /\ DOMAIN resp = Clients /\ DOMAIN out = Clients
  /\ DOMAIN exit = Clients /\ DOMAIN local = Clients /\ DOMAIN did = Clients

Inv ==
  /\ Typed /\ StoreFits
  /\ \A c \in Clients : Sending(c) /\ Serving(c) /\ Reading(c)

(* It holds in the initial state.                                          *)
LEMMA InvInit == Init => Inv
<1> SUFFICES ASSUME Init PROVE Inv
  OBVIOUS
<1>1. Typed /\ StoreFits
  <2>1. DOMAIN store = {}
    BY DEF Init
  <2>2. StoreFits
    BY <2>1 DEF StoreFits
  <2>3. Typed
    BY DEF Init, Typed
  <2>4. QED
    BY <2>2, <2>3
<1>2. ASSUME NEW c \in Clients
      PROVE  Sending(c) /\ Serving(c) /\ Reading(c)
  BY ClientAssumption DEF Init, Sending, Serving, Reading
<1>3. QED
  BY <1>1, <1>2 DEF Inv

(* A step for one client leaves what the invariant says of the others.     *)
LEMMA OthersUntouched ==
  ASSUME Inv, NEW c \in Clients, NEW d \in Clients, c # d,
         UNCHANGED <<cmd[d], pc[d], frame[d], wire[d], srv[d], resp[d], out[d], exit[d],
                     local[d], did[d]>>
  PROVE  (Sending(d) /\ Serving(d) /\ Reading(d))'
<1>1. Sending(d) /\ Serving(d) /\ Reading(d)
  BY DEF Inv
<1>2. Asked(d)' = Asked(d)
  BY DEF Asked, IsRaw, RequestOf, UploadFrame, ChmodFrame, NameFrame
<1>3. QED
  BY <1>1, <1>2 DEF Sending, Serving, Reading, Told

(* So the invariant follows from what it says of the client that moved.    *)
Own(c) == Sending(c) /\ Serving(c) /\ Reading(c)

Same(d) == UNCHANGED <<cmd[d], pc[d], frame[d], wire[d], srv[d], resp[d], out[d], exit[d],
                       local[d], did[d]>>

(* The invariant is kept if the client that moved keeps its part.          *)
LEMMA OneMoved ==
  ASSUME Inv, NEW c \in Clients, Typed', StoreFits', Own(c)',
         \A d \in Clients \ {c} : Same(d)
  PROVE  Inv'
<1>1. ASSUME NEW d \in Clients \ {c}
      PROVE  (Sending(d) /\ Serving(d) /\ Reading(d))'
  BY OthersUntouched DEF Same
<1>2. QED
  BY <1>1 DEF Inv, Own

(* The client's steps.                                                     *)
LEMMA StepInv ==
  ASSUME Inv, NEW c \in Clients, Step(c)
  PROVE  Inv'
<1>1. Typed /\ StoreFits /\ Own(c)
  BY DEF Inv, Own
<1>2. Typed' /\ StoreFits' /\ UNCHANGED cmd
  BY <1>1 DEF Typed, StoreFits, Connect, Build, SendHeader, SendPayload, SendFails, ReadHeader, NoHeader, ReadBody, Save, Step, EndOfBody, Exit, Goto,
              clientVars, serverVars
<1>3. \A d \in Clients \ {c} : Same(d)
  BY <1>1 DEF Same, Typed, Connect, Build, SendHeader, SendPayload, SendFails, ReadHeader, NoHeader, ReadBody, Save, Step, EndOfBody, Exit, Goto,
              clientVars, serverVars
<1>4. Asked(c)' = Asked(c)
  BY <1>2 DEF Asked, IsRaw, RequestOf, UploadFrame, ChmodFrame, NameFrame
<1> USE DEF Own, Typed, Sending, Serving, Reading, Told, At, clientVars, serverVars
<1>5. CASE Connect(c)
  <2>1. Own(c)'
    BY <1>5, <1>1, <1>4 DEF Connect, Exit, Goto
  <2>2. QED
    BY <2>1, <1>2, <1>3, OneMoved
<1>6. CASE Build(c)
  <2>1. Own(c)'
    BY <1>6, <1>1, <1>4 DEF Build, Exit, Goto
  <2>2. QED
    BY <2>1, <1>2, <1>3, OneMoved
<1>7. CASE SendHeader(c)
  <2>1. Own(c)'
    BY <1>7, <1>1, <1>4 DEF SendHeader, Goto
  <2>2. QED
    BY <2>1, <1>2, <1>3, OneMoved
<1>8. CASE SendPayload(c)
  <2>1. Own(c)'
    BY <1>8, <1>1, <1>4 DEF SendPayload, Goto
  <2>2. QED
    BY <2>1, <1>2, <1>3, OneMoved
<1>9. CASE SendFails(c)
  <2>1. Own(c)'
    BY <1>9, <1>1, <1>4 DEF SendFails, Exit, Goto
  <2>2. QED
    BY <2>1, <1>2, <1>3, OneMoved
<1>10. CASE ReadHeader(c)
  <2>1. Own(c)'
    BY <1>10, <1>1, <1>4 DEF ReadHeader, Goto
  <2>2. QED
    BY <2>1, <1>2, <1>3, OneMoved
<1>11. CASE NoHeader(c)
  <2>1. Own(c)'
    BY <1>11, <1>1, <1>4 DEF NoHeader, Exit, Goto
  <2>2. QED
    BY <2>1, <1>2, <1>3, OneMoved
<1>12. CASE ReadBody(c)
  <2>1. Own(c)'
    BY <1>12, <1>1, <1>4 DEF ReadBody, EndOfBody, Status, Exit, Goto
  <2>2. QED
    BY <2>1, <1>2, <1>3, OneMoved
<1>13. CASE Save(c)
  <2>1. Own(c)'
    BY <1>13, <1>1, <1>4 DEF Save, Exit, Goto
  <2>2. QED
    BY <2>1, <1>2, <1>3, OneMoved
<1>14. QED
  BY <1>5, <1>6, <1>7, <1>8, <1>9, <1>10, <1>11, <1>12, <1>13 DEF Step

(* The server's steps but its work, and the network's.                     *)
LEMMA ConnectionInv ==
  ASSUME Inv, NEW c \in Clients, TurnAway(c) \/ Receive(c) \/ ReceiveShort(c) \/
         AnswerHeader(c) \/ AnswerBody(c) \/ NotAnswered(c) \/ Cut(c)
  PROVE  Inv'
<1>1. Typed /\ StoreFits /\ Own(c)
  BY DEF Inv, Own
<1>2. Typed' /\ StoreFits' /\ UNCHANGED cmd
  BY <1>1 DEF Typed, StoreFits, TurnAway, Receive, ReceiveShort, AnswerHeader, AnswerBody, NotAnswered, Cut,
              clientVars, serverVars
<1>3. \A d \in Clients \ {c} : Same(d)
  BY <1>1 DEF Same, Typed, TurnAway, Receive, ReceiveShort, AnswerHeader, AnswerBody, NotAnswered, Cut,
              clientVars, serverVars
<1>4. Asked(c)' = Asked(c)
  BY <1>2 DEF Asked, IsRaw, RequestOf, UploadFrame, ChmodFrame, NameFrame
<1> USE DEF Own, Typed, Sending, Serving, Reading, Told, At, clientVars, serverVars
<1>5. CASE TurnAway(c)
  <2>1. Own(c)'
    BY <1>5, <1>1, <1>4 DEF TurnAway
  <2>2. QED
    BY <2>1, <1>2, <1>3, OneMoved
<1>6. CASE Receive(c)
  <2>1. Own(c)'
    BY <1>6, <1>1, <1>4 DEF Receive
  <2>2. QED
    BY <2>1, <1>2, <1>3, OneMoved
<1>7. CASE ReceiveShort(c)
  <2>1. Own(c)'
    BY <1>7, <1>1, <1>4 DEF ReceiveShort
  <2>2. QED
    BY <2>1, <1>2, <1>3, OneMoved
<1>8. CASE AnswerHeader(c)
  <2>1. Own(c)'
    BY <1>8, <1>1, <1>4 DEF AnswerHeader
  <2>2. QED
    BY <2>1, <1>2, <1>3, OneMoved
<1>9. CASE AnswerBody(c)
  <2>1. Own(c)'
    BY <1>9, <1>1, <1>4 DEF AnswerBody
  <2>2. QED
    BY <2>1, <1>2, <1>3, OneMoved
<1>10. CASE NotAnswered(c)
  <2>1. Own(c)'
    BY <1>10, <1>1, <1>4 DEF NotAnswered
  <2>2. QED
    BY <2>1, <1>2, <1>3, OneMoved
<1>11. CASE Cut(c)
  <2>1. Own(c)'
    BY <1>11, <1>1, <1>4 DEF Cut
  <2>2. QED
    BY <2>1, <1>2, <1>3, OneMoved
<1>12. QED
  BY <1>5, <1>6, <1>7, <1>8, <1>9, <1>10, <1>11

(* A handler at work on an accepted request.                               *)
LEMMA WorkFrame ==
  ASSUME Inv, NEW c \in Clients, srv[c] = "work"
  PROVE  frame[c] \in Frames
<1>1. Sending(c) /\ Serving(c)
  BY DEF Inv
<1>2. QED
  BY <1>1, RequestFits DEF Sending, Serving

(* Changing one entry of the store keeps the others.                       *)
LEMMA PutFits ==
  ASSUME StoreFits, NEW n, NEW f \in Files, f.size + 8 < U32, Put(n, f)
  PROVE  StoreFits'
BY DEF StoreFits, Put

(* What an upload stores fits a header.                                    *)
LEMMA StoredFits ==
  ASSUME StoreFits, NEW c \in Clients, NEW n, NEW size \in Nat, size + 8 < U32
  PROVE  /\ Stored(c, n, size) \in Files /\ Stored(c, n, size).of = c
         /\ Stored(c, n, size).size = size
BY ClientAssumption DEF StoreFits, Stored, Exists, Files

(* The server's worker keeps the invariant.                                *)
LEMMA WorkInv ==
  ASSUME Inv, NEW c \in Clients, Work(c)
  PROVE  Inv'
<1> DEFINE n == frame[c].name
<1>1. Typed /\ StoreFits /\ Own(c) /\ srv[c] = "work"
  BY DEF Inv, Own, Work
<1>2. /\ frame[c] \in Frames /\ frame[c].op \in Opcodes /\ n \in Seq(Bytes)
      /\ frame[c].arg \in Nat
  BY <1>1, WorkFrame DEF Frames
<1>3. ASSUME NEW f \in Files \cup {None}
      PROVE  [op |-> frame[c].op, name |-> n, file |-> f] # None
  BY <1>2, ClientAssumption DEF Deeds
<1>4. /\ UNCHANGED <<cmd, pc, frame, wire, out, exit, local>>
      /\ wire[c] = "all" /\ out[c] = "none" /\ did[c] = None /\ Asked(c)' = Asked(c)
      /\ exit[c] # 0 /\ pc[c] \notin {"body", "save"}
  BY <1>1 DEF Work, clientVars, Asked, IsRaw, RequestOf, UploadFrame, ChmodFrame, NameFrame,
              Own, Serving, Reading
(* It is enough that the store still fits and the response is true.        *)
<1>5. SUFFICES /\ StoreFits' /\ Told(c)'
               /\ did[c]' # None => Accepted(frame[c]) /\ did[c]'.op = frame[c].op
  <2>1. Typed' /\ (\A d \in Clients \ {c} : Same(d)) /\ srv[c]' = "answer"
    BY <1>1, <1>4 DEF Typed, Same, Work, Upload, Download, Delete, Chmod, List, Respond, Fail, Did
  <2>2. Own(c)'
    BY <1>1, <1>4, <1>5, <2>1 DEF Own, Sending, Serving, Reading, Typed
  <2>3. QED
    BY <1>5, <2>1, <2>2, OneMoved
<1> USE DEF Told, Typed, Did, Respond, Fail
<1>6. CASE Accepted(frame[c]) /\ Upload(c, n)
  <2> DEFINE f == Stored(c, n, frame[c].arg)
  <2>1. frame[c].arg + 8 < U32
    BY <1>2, <1>6, AcceptedUploadFits DEF Upload
  <2>2. f \in Files /\ f.of = c /\ f.size = frame[c].arg
    BY <1>1, <1>2, <2>1, StoredFits
  <2>3. CASE Put(n, f) /\ Did(c, f) /\ Respond(c, [kind |-> "ok", plen |-> 24])
    <3>1. StoreFits'
      BY <1>1, <2>1, <2>2, <2>3, PutFits
    <3>2. QED
      BY <1>1, <1>3, <1>4, <1>6, <2>2, <2>3, <3>1 DEF Upload
  <2>4. ASSUME NEW k \in Leftovers(f.size), Put(n, Stored(c, n, k)), Fail(c, 500), UNCHANGED did
        PROVE  StoreFits' /\ Told(c)' /\ (did[c]' # None => FALSE)
    <3>1. k \in Nat /\ k + 8 < U32
      BY <1>2, <2>1, <2>2, <2>4, WireAssumption DEF Leftovers
    <3>2. Stored(c, n, k) \in Files /\ Stored(c, n, k).size = k
      BY <1>1, <3>1, StoredFits
    <3>3. StoreFits'
      BY <1>1, <2>4, <3>1, <3>2, PutFits
    <3>4. QED
      BY <1>1, <1>4, <2>4, <3>3
  <2>5. CASE Fail(c, 500) /\ UNCHANGED <<store, did>>
    BY <1>1, <1>4, <2>5 DEF StoreFits
  <2>6. QED
    BY <1>6, <2>3, <2>4, <2>5 DEF Upload
<1>7. CASE Accepted(frame[c]) /\ Download(c, n)
  <2>1. Exists(n) => store[n] \in Files /\ DownloadLen(store[n].size) = 8 + store[n].size
    BY <1>1, SmallSizesAnnounced DEF StoreFits, Exists, Files
  <2>2. StoreFits'
    BY <1>1, <1>7 DEF StoreFits, Download
  <2>3. QED
    BY <1>1, <1>3, <1>4, <1>7, <2>1, <2>2 DEF Download
<1>8. CASE Accepted(frame[c]) /\ Delete(c, n)
  <2>1. Exists(n) => store[n] \in Files
    BY <1>1 DEF StoreFits, Exists
  <2>2. StoreFits'
    BY <1>1, <1>8 DEF StoreFits, Delete, Restrict
  <2>3. QED
    BY <1>1, <1>3, <1>4, <1>8, <2>1, <2>2 DEF Delete
<1>9. CASE Accepted(frame[c]) /\ Chmod(c, n)
  <2> DEFINE f == [store[n] EXCEPT !.mode = frame[c].arg]
  <2>1. Exists(n) => f \in Files /\ f.size + 8 < U32 /\ f.mode = frame[c].arg
    BY <1>1, <1>2 DEF StoreFits, Exists, Files
  <2>2. StoreFits'
    BY <1>1, <1>9, <2>1, PutFits DEF StoreFits, Chmod
  <2>3. CASE Exists(n) /\ Did(c, f) /\ Respond(c, [kind |-> "ok", plen |-> 0])
    <3> HIDE DEF f
    <3>1. QED
      BY <1>1, <1>3, <1>4, <1>9, <2>1, <2>2, <2>3 DEF Chmod
  <2>4. CASE Fail(c, 404) /\ UNCHANGED did
    BY <1>1, <1>4, <2>2, <2>4
  <2>5. QED
    BY <1>9, <2>3, <2>4 DEF Chmod
<1>10. CASE Accepted(frame[c]) /\ List(c)
  <2>1. StoreFits'
    BY <1>1, <1>10 DEF StoreFits, List
  <2>2. QED
    BY <1>1, <1>3, <1>4, <1>10, <2>1 DEF List
<1>11. CASE Fail(c, Refusal(frame[c])) /\ UNCHANGED <<store, did>>
  BY <1>1, <1>4, <1>11 DEF StoreFits
<1>12. QED
  BY <1>6, <1>7, <1>8, <1>9, <1>10, <1>11 DEF Work

(* The inductive invariant holds of every run.                             *)
THEOREM Invariance == Spec => []Inv
<1>1. Inv /\ [Next]_vars => Inv'
  <2> SUFFICES ASSUME Inv, [Next]_vars PROVE Inv'
    OBVIOUS
  <2>1. CASE UNCHANGED vars
    <3>1. Typed' /\ StoreFits'
      BY <2>1 DEF Inv, Typed, StoreFits, vars
    <3>2. ASSUME NEW c \in Clients
          PROVE  Own(c)'
      <4>1. Own(c) /\ Asked(c)' = Asked(c)
        BY <2>1 DEF Inv, Own, vars, Asked, IsRaw, RequestOf, UploadFrame, ChmodFrame, NameFrame
      <4>2. QED
        BY <2>1, <4>1 DEF Own, Sending, Serving, Reading, Told, vars
    <3>3. QED
      BY <3>1, <3>2 DEF Inv, Own
  <2>2. ASSUME NEW c \in Clients, Step(c) \/ Serve(c) \/ TurnAway(c) \/ Cut(c)
        PROVE  Inv'
    BY <2>2, StepInv, ConnectionInv, WorkInv DEF Serve
  <2>3. QED
    BY <2>1, <2>2 DEF Next
<1>2. QED
  BY <1>1, InvInit, PTL DEF Spec

-----------------------------------------------------------------------------
(* The types, and the order in which a connection comes about, are kept on *)
(* top of the invariant.                                                   *)
Place(c) ==
  /\ cmd[c] \in Commands[c]
  /\ pc[c] \in {"connect", "build", "send", "await", "body", "save", "exit"}
  /\ wire[c] \in {"none", "part", "all"} /\ out[c] \in {"none", "header", "all"}
  /\ link[c] \in {"none", "up", "cut"}
  /\ srv[c] \in {"none", "open", "work", "answer", "closed"}
  /\ out[c] # "none" \/ did[c] # None \/ srv[c] = "answer" => resp[c] # None
  /\ srv[c] \in {"none", "open", "work"} => resp[c] = None
  /\ pc[c] = "connect" => srv[c] = "none"
  /\ pc[c] = "exit" <=> exit[c] # None
  /\ exit[c] \in {None, 0, 1}
  /\ local[c] # None => exit[c] = 0

NamesValid == \A n \in DOMAIN store : ValidName(n) /\ n \in Seq(Bytes)

Places == DOMAIN link = Clients /\ NamesValid /\ \A c \in Clients : Place(c)

(* None is neither an exit status nor a response.                          *)
LEMMA NoneApart ==
  /\ None # 0 /\ None # 1 /\ None \notin Frames
  /\ \A r \in Responses : r # None
BY ClientAssumption

(* It holds in the initial state.                                          *)
LEMMA PlacesInit == Init => Places
<1> SUFFICES ASSUME Init PROVE Places
  OBVIOUS
<1>1. DOMAIN store = {} /\ DOMAIN link = Clients
  BY DEF Init
<1>2. ASSUME NEW c \in Clients
      PROVE  Place(c)
  BY DEF Init, Place
<1>3. QED
  BY <1>1, <1>2 DEF Places, NamesValid

(* The worker of the server answers with a response, and stores under a    *)
(* name it has checked.                                                    *)
LEMMA WorkResponds ==
  ASSUME Inv, NamesValid, NEW c \in Clients, Work(c)
  PROVE  NamesValid' /\ resp'[c] # None
<1> DEFINE n == frame[c].name
<1>1. Typed /\ StoreFits /\ frame[c] \in Frames
  BY WorkFrame DEF Inv, Work
<1>2. frame[c].op \in Opcodes /\ n \in Seq(Bytes)
  BY <1>1 DEF Frames
<1>3. ASSUME NEW r \in Responses, Respond(c, r)
      PROVE  resp'[c] # None
  BY <1>1, <1>3, NoneApart DEF Respond, Typed
<1>4. ASSUME NEW code \in Nat, Fail(c, code)
      PROVE  resp'[c] # None
  BY <1>3, <1>4 DEF Fail, Responses
<1>5. ASSUME NEW f, Put(n, f), ValidName(n)
      PROVE  NamesValid'
  BY <1>2, <1>5 DEF Put, NamesValid
<1>6. CASE Accepted(frame[c]) /\ Upload(c, n)
  <2>1. ValidName(n)
    BY <1>6 DEF Accepted, Upload
  <2>2. [kind |-> "ok", plen |-> 24] \in Responses
    BY DEF Responses
  <2>3. CASE Put(n, Stored(c, n, frame[c].arg)) /\ Respond(c, [kind |-> "ok", plen |-> 24])
    BY <2>1, <2>2, <2>3, <1>3, <1>5
  <2>4. CASE (\E k \in Leftovers(Stored(c, n, frame[c].arg).size) : Put(n, Stored(c, n, k))) /\ Fail(c, 500)
    BY <2>1, <2>4, <1>4, <1>5
  <2>5. CASE Fail(c, 500) /\ UNCHANGED store
    BY <2>5, <1>4 DEF NamesValid
  <2>6. QED
    BY <1>6, <2>3, <2>4, <2>5 DEF Upload
<1>7. CASE Accepted(frame[c]) /\ Download(c, n)
  <2>1. NamesValid'
    BY <1>7 DEF Download, NamesValid
  <2>2. Exists(n) =>
          [kind |-> "file", plen |-> DownloadLen(store[n].size), file |-> store[n]] \in Responses
    BY <1>1, WireAssumption DEF Exists, StoreFits, Files, Responses, DownloadLen
  <2>3. QED
    BY <1>7, <2>1, <2>2, <1>3, <1>4 DEF Download
<1>8. CASE Accepted(frame[c]) /\ Delete(c, n)
  <2>1. NamesValid'
    BY <1>8 DEF Delete, NamesValid, Restrict
  <2>2. [kind |-> "ok", plen |-> 0] \in Responses
    BY DEF Responses
  <2>3. QED
    BY <1>8, <2>1, <2>2, <1>3, <1>4 DEF Delete
<1>9. CASE Accepted(frame[c]) /\ Chmod(c, n)
  <2>1. NamesValid'
    BY <1>9, <1>5 DEF Chmod, NamesValid, Accepted
  <2>2. [kind |-> "ok", plen |-> 0] \in Responses
    BY DEF Responses
  <2>3. QED
    BY <1>9, <2>1, <2>2, <1>3, <1>4 DEF Chmod
<1>10. CASE Accepted(frame[c]) /\ List(c)
  <2>1. NamesValid'
    BY <1>10 DEF List, NamesValid
  <2>2. [kind |-> "list", plen |-> 4, seen |-> DOMAIN store] \in Responses
    BY DEF Responses, NamesValid
  <2>3. QED
    BY <1>10, <2>1, <2>2, <1>3, <1>4 DEF List
<1>11. CASE Fail(c, Refusal(frame[c])) /\ UNCHANGED store
  <2>1. Refusal(frame[c]) \in Nat
    BY DEF Refusal
  <2>2. QED
    BY <1>11, <2>1, <1>4 DEF NamesValid
<1>12. QED
  BY <1>6, <1>7, <1>8, <1>9, <1>10, <1>11 DEF Work

(* Every step keeps the types.                                             *)
LEMMA PlacesKept ==
  ASSUME Inv, Places, NEW c \in Clients, Step(c) \/ Serve(c) \/ TurnAway(c) \/ Cut(c)
  PROVE  Places'
<1>1. Typed /\ Place(c) /\ NamesValid /\ DOMAIN link = Clients /\ UNCHANGED cmd
  BY DEF Inv, Places, Step, Serve, Connect, Build, SendHeader, SendPayload, SendFails, ReadHeader,
         NoHeader, ReadBody, Save, TurnAway, Receive, ReceiveShort, Work, AnswerHeader, AnswerBody,
         NotAnswered, Cut, clientVars
<1>2. Serving(c) /\ Reading(c)
  BY DEF Inv
<1>3. CASE Work(c)
  <2>1. /\ UNCHANGED <<cmd, pc, frame, wire, exit, local, link, out>>
        /\ srv' = [srv EXCEPT ![c] = "answer"] /\ srv[c] = "work"
        /\ \E r : resp' = [resp EXCEPT ![c] = r]
        /\ did' = did \/ \E r : did' = [did EXCEPT ![c] = r]
    BY <1>3 DEF Work, clientVars, Upload, Download, Delete, Chmod, List, Respond, Fail, Did
  <2>2. NamesValid' /\ resp'[c] # None
    BY <1>1, <1>3, WorkResponds
  <2>3. ASSUME NEW d \in Clients
        PROVE  Place(d)'
    <3>1. Place(d)
      BY DEF Places
    <3>2. CASE d = c
      BY <1>1, <2>1, <2>2, <3>1, <3>2 DEF Place, Typed
    <3>3. CASE d # c
      BY <1>1, <2>1, <3>1, <3>3 DEF Place, Typed
    <3>4. QED
      BY <3>2, <3>3
  <2>4. QED
    BY <1>1, <2>1, <2>2, <2>3 DEF Places
<1>4. CASE ~Work(c)
  <2>1. UNCHANGED <<store, did, resp, cmd>> /\ DOMAIN link' = Clients
    BY <1>1, <1>4 DEF Step, Serve, Connect, Build, SendHeader, SendPayload, SendFails, ReadHeader,
         NoHeader, ReadBody, Save, TurnAway, Receive, ReceiveShort, AnswerHeader, AnswerBody,
         NotAnswered, Cut, serverVars
  <2>2. ASSUME NEW d \in Clients, d # c
        PROVE  Place(d)'
    <3>1. UNCHANGED <<pc[d], wire[d], out[d], link[d], srv[d], exit[d], local[d]>>
      BY <1>1, <1>4, <2>2 DEF Step, Serve, Connect, Build, SendHeader, SendPayload, SendFails, ReadHeader,
         NoHeader, ReadBody, Save, TurnAway, Receive, ReceiveShort, AnswerHeader, AnswerBody,
         NotAnswered, Cut, serverVars, clientVars, Exit, EndOfBody, Goto, Typed
    <3>2. QED
      BY <2>1, <3>1 DEF Places, Place
  <2> USE DEF Place, Typed, At, clientVars, serverVars
  <2>3. Place(c)'
    <3>1. CASE Connect(c)
      BY <1>1, <1>2, <2>1, <3>1, NoneApart DEF Connect, Exit, Goto
    <3>2. CASE Build(c)
      BY <1>1, <1>2, <2>1, <3>2, NoneApart DEF Build, Exit, Goto
    <3>3. CASE SendHeader(c)
      BY <1>1, <1>2, <2>1, <3>3 DEF SendHeader, Goto
    <3>4. CASE SendPayload(c)
      BY <1>1, <1>2, <2>1, <3>4 DEF SendPayload, Goto
    <3>5. CASE SendFails(c)
      BY <1>1, <1>2, <2>1, <3>5, NoneApart DEF SendFails, Exit, Goto
    <3>6. CASE ReadHeader(c)
      BY <1>1, <1>2, <2>1, <3>6 DEF ReadHeader, Goto
    <3>7. CASE NoHeader(c)
      BY <1>1, <1>2, <2>1, <3>7, NoneApart DEF NoHeader, Exit, Goto
    <3>8. CASE ReadBody(c)
      BY <1>1, <1>2, <2>1, <3>8, NoneApart DEF ReadBody, EndOfBody, Status, Exit, Goto
    <3>9. CASE Save(c)
      BY <1>1, <1>2, <2>1, <3>9, NoneApart DEF Save, Exit, Goto
    <3>10. CASE TurnAway(c)
      BY <1>1, <1>2, <2>1, <3>10 DEF TurnAway
    <3>11. CASE Receive(c)
      BY <1>1, <1>2, <2>1, <3>11 DEF Receive
    <3>12. CASE ReceiveShort(c)
      BY <1>1, <1>2, <2>1, <3>12 DEF ReceiveShort
    <3>13. CASE AnswerHeader(c)
      BY <1>1, <1>2, <2>1, <3>13 DEF AnswerHeader
    <3>14. CASE AnswerBody(c)
      BY <1>1, <1>2, <2>1, <3>14 DEF AnswerBody
    <3>15. CASE NotAnswered(c)
      BY <1>1, <1>2, <2>1, <3>15 DEF NotAnswered
    <3>16. CASE Cut(c)
      BY <1>1, <1>2, <2>1, <3>16 DEF Cut
    <3>17. QED
      BY <1>4, <3>1, <3>2, <3>3, <3>4, <3>5, <3>6, <3>7, <3>8, <3>9, <3>10, <3>11, <3>12, <3>13, <3>14, <3>15, <3>16 DEF Step, Serve
  <2>4. ASSUME NEW d \in Clients
        PROVE  Place(d)'
    BY <2>2, <2>3
  <2>5. QED
    BY <1>1, <2>1, <2>4 DEF Places, NamesValid
<1>5. QED
  BY <1>3, <1>4

(* So they are kept in every run.                                          *)
LEMMA Placed == Spec => []Places
<1>1. Inv /\ Places /\ [Next]_vars => Places'
  <2> SUFFICES ASSUME Inv, Places, [Next]_vars PROVE Places'
    OBVIOUS
  <2>1. CASE UNCHANGED vars
    BY <2>1 DEF Places, Place, NamesValid, vars
  <2>2. CASE Next
    BY <2>2, PlacesKept DEF Next
  <2>3. QED
    BY <2>1, <2>2
<1>2. QED
  BY <1>1, PlacesInit, Invariance, PTL DEF Spec

(* Types are kept, frames and responses included.                          *)
THEOREM CommandsTyped == Spec => []TypeOK
<1>1. Inv /\ Places => TypeOK
  <2> SUFFICES ASSUME Inv, Places PROVE TypeOK
    OBVIOUS
  <2>1. ASSUME NEW c \in Clients
        PROVE  /\ frame[c] = None => wire[c] = "none"
               /\ resp[c] = None => out[c] = "none" /\ did[c] = None
    <3>1. Sending(c) /\ Place(c)
      BY DEF Inv, Places
    <3>2. wire[c] # "none" => frame[c] # None
      BY <3>1, RequestFits, NoneApart DEF Sending
    <3>3. QED
      BY <3>1, <3>2 DEF Place
  <2>2. QED
    BY <2>1 DEF Places, Place, NamesValid, TypeOK, At
<1>2. QED
  BY <1>1, Placed, Invariance, PTL

-----------------------------------------------------------------------------
(* Client implements RemoteCall.  A response that is set stays set.        *)
LEMMA DecidedBy ==
  ASSUME Typed, NEW c \in Clients, NEW r, r # None, resp' = [resp EXCEPT ![c] = r]
  PROVE  [d \in Clients |-> resp[d] # None]' = [[d \in Clients |-> resp[d] # None] EXCEPT ![c] = TRUE]
BY DEF Typed

(* The worker's step is the one decision on the request.                   *)
LEMMA WorkDecides ==
  ASSUME Inv, Places, NEW c \in Clients, Work(c)
  PROVE  Calls!Decide(c)
<1> DEFINE n == frame[c].name
<1>1. Typed /\ StoreFits /\ frame[c] \in Frames /\ srv[c] = "work"
  BY WorkFrame DEF Inv, Work
<1>2. frame[c].op \in Opcodes /\ n \in Seq(Bytes) /\ frame[c].arg \in Nat
  BY <1>1 DEF Frames
<1>3. resp[c] = None /\ resp'[c] # None /\ UNCHANGED exit
  BY <1>1, WorkResponds DEF Places, Place, Work, clientVars
<1>4. \E r : resp' = [resp EXCEPT ![c] = r]
  BY DEF Work, Upload, Download, Delete, Chmod, List, Respond, Fail
<1>5. [d \in Clients |-> resp[d] # None]' = [[d \in Clients |-> resp[d] # None] EXCEPT ![c] = TRUE]
  <2>1. PICK r : resp' = [resp EXCEPT ![c] = r]
    BY <1>4
  <2>2. r # None
    BY <1>1, <1>3, <2>1 DEF Typed
  <2>3. QED
    BY <1>1, <2>1, <2>2, DecidedBy
<1>6. ASSUME NEW f \in Files \cup {None}, Did(c, f)
      PROVE  /\ did'[c] = [op |-> frame[c].op, name |-> n, file |-> f]
             /\ Calls!Effect(c, did'[c]) => Calls!CarryOut(c)
  BY <1>1, <1>2, <1>6, ClientAssumption DEF Did, Deeds, Typed, Calls!CarryOut
<1>7. ASSUME NEW f, Put(n, f)
      PROVE  store' = Calls!With(n, f) /\ n \in DOMAIN store' /\ store'[n] = f
  BY <1>7 DEF Put, Calls!With
<1>8. ASSUME NEW k \in Nat
      PROVE  /\ Stored(c, n, k).of = c /\ Stored(c, n, k).mode = Calls!ModeOf(n)
             /\ Stored(c, n, k).size = k /\ Stored(c, n, k) \in Files
  BY <1>1, <1>2, <1>8, ClientAssumption DEF Stored, Exists, StoreFits, Files, Calls!ModeOf
<1>9. ASSUME Calls!CarryOut(c) \/ Calls!LeavePart(c) \/ UNCHANGED <<store, did>>
      PROVE  Calls!Decide(c)
  BY <1>1, <1>3, <1>5, <1>9 DEF Calls!Decide
<1>10. CASE Accepted(frame[c]) /\ Upload(c, n)
  <2> DEFINE f == Stored(c, n, frame[c].arg)
  <2>1. CASE Put(n, f) /\ Did(c, f)
    <3>1. Calls!Uploaded(c, n, f)
      BY <1>2, <1>7, <1>8, <2>1 DEF Calls!Uploaded
    <3>2. did'[c] = [op |-> "upload", name |-> n, file |-> f] /\ (Calls!Effect(c, did'[c]) => Calls!CarryOut(c))
      BY <1>2, <1>6, <1>8, <1>10, <2>1 DEF Upload
    <3>3. Calls!Effect(c, did'[c])
      BY <3>1, <3>2 DEF Calls!Effect
    <3>4. QED
      BY <1>9, <3>2, <3>3
  <2>2. ASSUME NEW k \in Leftovers(f.size), Put(n, Stored(c, n, k)), UNCHANGED did
        PROVE  Calls!Decide(c)
    <3>1. k \in Nat
      BY <2>2, WireAssumption DEF Leftovers
    <3>2. Calls!Uploaded(c, n, store'[n]) /\ n \in DOMAIN store'
      BY <1>7, <1>8, <2>2, <3>1 DEF Calls!Uploaded
    <3>3. QED
      BY <1>9, <2>2, <3>2 DEF Calls!LeavePart
  <2>3. QED
    BY <1>9, <1>10, <2>1, <2>2 DEF Upload
<1>11. CASE Accepted(frame[c]) /\ Download(c, n)
  <2>1. CASE Exists(n) /\ Did(c, store[n])
    <3>1. store[n] \in Files
      BY <1>1, <2>1 DEF StoreFits, Exists
    <3>2. did'[c] = [op |-> "download", name |-> n, file |-> store[n]] /\ (Calls!Effect(c, did'[c]) => Calls!CarryOut(c))
      BY <1>6, <1>11, <2>1, <3>1 DEF Download
    <3>3. Calls!Effect(c, did'[c])
      BY <1>11, <2>1, <3>1, <3>2 DEF Download, Exists, Calls!Effect
    <3>4. QED
      BY <1>9, <3>2, <3>3
  <2>2. QED
    BY <1>9, <1>11, <2>1 DEF Download
<1>12. CASE Accepted(frame[c]) /\ Delete(c, n)
  <2>1. CASE Exists(n) /\ Did(c, store[n]) /\ store' = Restrict(store, DOMAIN store \ {n})
    <3>1. store[n] \in Files /\ store' = Calls!Without(n)
      BY <1>1, <2>1 DEF StoreFits, Exists, Restrict, Calls!Without
    <3>2. did'[c] = [op |-> "delete", name |-> n, file |-> store[n]] /\ (Calls!Effect(c, did'[c]) => Calls!CarryOut(c))
      BY <1>6, <1>12, <2>1, <3>1 DEF Delete
    <3>3. Calls!Effect(c, did'[c])
      BY <1>12, <2>1, <3>1, <3>2 DEF Delete, Exists, Calls!Effect
    <3>4. QED
      BY <1>9, <3>2, <3>3
  <2>2. QED
    BY <1>9, <1>12, <2>1 DEF Delete
<1>13. CASE Accepted(frame[c]) /\ Chmod(c, n)
  <2> DEFINE f == [store[n] EXCEPT !.mode = frame[c].arg]
  <2>1. CASE Exists(n) /\ Put(n, f) /\ Did(c, f)
    <3>1. f \in Files /\ f.mode = frame[c].arg
      BY <1>1, <1>2, <2>1 DEF StoreFits, Exists, Files
    <3> HIDE DEF f
    <3>2. did'[c] = [op |-> "chmod", name |-> n, file |-> f] /\ (Calls!Effect(c, did'[c]) => Calls!CarryOut(c))
      BY <1>6, <1>13, <2>1, <3>1 DEF Chmod
    <3>3. store' = Calls!With(n, f)
      BY <1>7, <2>1
    <3>4. f = [store[n] EXCEPT !.mode = f.mode] /\ n \in DOMAIN store
      BY <2>1, <3>1 DEF f, Exists
    <3>5. Calls!Effect(c, did'[c])
      BY <3>2, <3>3, <3>4 DEF Calls!Effect
    <3>6. QED
      BY <1>9, <3>2, <3>5
  <2>2. QED
    BY <1>9, <1>13, <2>1 DEF Chmod
<1>14. CASE Accepted(frame[c]) /\ List(c)
  <2>1. CASE Did(c, None)
    <3>1. did'[c] = [op |-> "list", name |-> n, file |-> None] /\ (Calls!Effect(c, did'[c]) => Calls!CarryOut(c))
      BY <1>6, <1>14, <2>1 DEF List
    <3>2. Calls!Effect(c, did'[c])
      BY <1>14, <3>1 DEF List, Calls!Effect
    <3>3. QED
      BY <1>9, <3>1, <3>2
  <2>2. QED
    BY <1>9, <1>14, <2>1 DEF List
<1>15. QED
  BY <1>9, <1>10, <1>11, <1>12, <1>13, <1>14 DEF Work

(* A client that ends with status 0 has a response of the server to its    *)
(* request, and that is no error.                                          *)
LEMMA EndAfterDeed ==
  ASSUME Inv, Places, NEW c \in Clients, NEW s \in {0, 1}, Exit(c, s), pc[c] # "exit",
         s = 0 => out[c] # "none" /\ resp[c].kind # "error",
         UNCHANGED <<store, resp, did>>
  PROVE  Calls!End(c)
<1>1. exit[c] = None /\ Serving(c)
  BY DEF Places, Place, Inv
<1>2. s = 0 => did[c] # None
  BY <1>1 DEF Serving, Told
<1>3. QED
  BY <1>1, <1>2 DEF Exit, Calls!End

(* The other steps of the client and the server.                           *)
LEMMA OthersEnd ==
  ASSUME Inv, Places, NEW c \in Clients, ~Work(c),
         Step(c) \/ Serve(c) \/ TurnAway(c) \/ Cut(c)
  PROVE  UNCHANGED <<store, did, exit, resp>> \/ Calls!End(c)
<1>1. UNCHANGED <<store, did, resp>>
  BY DEF Step, Serve, Connect, Build, SendHeader, SendPayload, SendFails, ReadHeader, NoHeader,
         ReadBody, Save, TurnAway, Receive, ReceiveShort, AnswerHeader, AnswerBody, NotAnswered,
         Cut, serverVars
<1>2. Reading(c) /\ Serving(c)
  BY DEF Inv
<1>3. ASSUME NEW s \in {0, 1}, Exit(c, s), pc[c] # "exit",
             s = 0 => out[c] # "none" /\ resp[c].kind # "error"
      PROVE  Calls!End(c)
  BY <1>1, <1>3, EndAfterDeed
<1>4. CASE Connect(c) \/ Build(c) \/ SendFails(c) \/ NoHeader(c)
  BY <1>1, <1>3, <1>4 DEF Connect, Build, SendFails, NoHeader, At
<1>5. CASE ReadBody(c)
  <2>1. \A whole \in BOOLEAN :
          /\ Status(resp[c], whole) \in {0, 1}
          /\ Status(resp[c], whole) = 0 => resp[c].kind # "error"
    BY DEF Status
  <2>2. out[c] # "none"
    BY <1>2, <1>5 DEF Reading, ReadBody, At
  <2>3. QED
    BY <1>1, <1>3, <1>5, <2>1, <2>2 DEF ReadBody, EndOfBody, At
<1>6. CASE Save(c)
  <2>1. out[c] # "none" /\ resp[c].kind # "error"
    BY <1>2, <1>6 DEF Reading, Save, At
  <2>2. QED
    BY <1>3, <1>6, <2>1 DEF Save, At
<1>7. CASE SendHeader(c) \/ SendPayload(c) \/ ReadHeader(c) \/ Serve(c) \/ TurnAway(c) \/ Cut(c)
  BY <1>1, <1>7 DEF SendHeader, SendPayload, ReadHeader, Serve, TurnAway, Cut, Receive, ReceiveShort,
                    AnswerHeader, AnswerBody, NotAnswered, clientVars
<1>8. QED
  BY <1>4, <1>5, <1>6, <1>7 DEF Step

(* At most once, and nothing is reported as done before it is: the client  *)
(* and the server implement RemoteCall, whatever the connections do.       *)
THEOREM CommandsOnce == Spec => CarriedOutOnce
<1>1. Init => Calls!Init
  BY DEF Init, Calls!Init
<1>2. Inv /\ Places /\ [Next]_vars => [Calls!Next]_Calls!callVars
  <2> SUFFICES ASSUME Inv, Places, [Next]_vars
               PROVE  Calls!Next \/ UNCHANGED <<store, did, exit, resp>>
    BY DEF Calls!callVars
  <2>1. CASE UNCHANGED vars
    BY <2>1 DEF vars
  <2>2. ASSUME NEW c \in Clients, Step(c) \/ Serve(c) \/ TurnAway(c) \/ Cut(c)
        PROVE  Calls!Next \/ UNCHANGED <<store, did, exit, resp>>
    <3>1. CASE Work(c)
      BY <3>1, WorkDecides DEF Calls!Next
    <3>2. CASE ~Work(c)
      BY <2>2, <3>2, OthersEnd DEF Calls!Next
    <3>3. QED
      BY <3>1, <3>2
  <2>3. QED
    BY <2>1, <2>2 DEF Next
<1>3. QED
  BY <1>1, <1>2, Invariance, Placed, PTL DEF Spec, CarriedOutOnce, Calls!Spec

-----------------------------------------------------------------------------
(* Whatever a program sends, a handler that acts on it uses all bytes of   *)
(* the payload and none beyond.                                            *)
THEOREM PayloadsUsedExactly == Spec => []AcceptedExactly
<1>1. Inv => AcceptedExactly
  <2> SUFFICES ASSUME Inv, NEW c \in Clients, did[c] # None, did[c].op # "list"
               PROVE  Used(frame[c]) = frame[c].plen
    BY DEF AcceptedExactly
  <2>1. Sending(c) /\ Serving(c)
    BY DEF Inv
  <2>2. frame[c] \in Frames /\ Accepted(frame[c]) /\ frame[c].op # "list"
    BY <2>1, RequestFits DEF Sending, Serving
  <2>3. QED
    BY <2>2, AcceptedUsesAll
<1>2. QED
  BY <1>1, Invariance, PTL

(* A connection that breaks in the middle of a request changes nothing.    *)
THEOREM OnlyWholeRequests == Spec => []ActsOnWholeRequests
<1>1. Inv => ActsOnWholeRequests
  BY DEF Inv, Serving, ActsOnWholeRequests
<1>2. QED
  BY <1>1, Invariance, PTL

(* The header of a download announces what follows, whatever the widths:   *)
(* a file too large for it cannot come through an upload.                  *)
THEOREM DownloadLengthsTrue == Spec => []DownloadAnnounced
<1>1. Inv => DownloadAnnounced
  BY DEF Inv, Serving, Told, DownloadAnnounced
<1>2. QED
  BY <1>1, Invariance, PTL

(* A client that ends with status 0 has had its command carried out.       *)
THEOREM SuccessIsTrue == Spec => []ExitZeroMeansDone
<1>1. Inv => ExitZeroMeansDone
  <2> SUFFICES ASSUME Inv, NEW c \in Clients, exit[c] = 0, ~IsRaw(c),
                      HasName(c) => Len(cmd[c].name) < U16
               PROVE  /\ did[c] # None /\ did[c].op = cmd[c].op
                      /\ HasName(c) => did[c].name = cmd[c].name
                      /\ cmd[c].op = "upload" => did[c].file.of = c /\ did[c].file.size = cmd[c].size
                      /\ cmd[c].op = "chmod" => did[c].file.mode = cmd[c].mode
                      /\ cmd[c].op = "download" => local[c].file = did[c].file
    BY DEF ExitZeroMeansDone
  <2>1. Sending(c) /\ Serving(c) /\ Reading(c)
    BY DEF Inv
  <2>2. /\ frame[c] = RequestOf(cmd[c]) /\ cmd[c].op # "unknown" /\ Told(c)
        /\ resp[c].kind # "error" /\ (resp[c].kind = "file" => local[c].file = resp[c].file)
    BY <2>1 DEF Sending, Serving, Reading, Asked, IsRaw
  <2>3. HasName(c) => cmd[c].name \in Seq(Bytes) /\ NameBytes(cmd[c].name) = cmd[c].name
    BY <2>1, ShortNameSent DEF Sending, HasName, AllCommands
  <2>4. frame[c].op = cmd[c].op /\ (HasName(c) => frame[c].name = cmd[c].name)
    BY <2>1, <2>2, <2>3
       DEF Sending, AllCommands, IsRaw, HasName, RequestOf, UploadFrame, ChmodFrame, NameFrame, Frame
  <2>5. /\ cmd[c].op = "upload" => frame[c].arg = cmd[c].size
        /\ cmd[c].op = "chmod" => frame[c].arg = cmd[c].mode
    BY <2>2 DEF RequestOf, UploadFrame, ChmodFrame, Frame
  <2>6. QED
    BY <2>2, <2>4, <2>5 DEF Told
<1>2. QED
  BY <1>1, Invariance, PTL
=============================================================================
