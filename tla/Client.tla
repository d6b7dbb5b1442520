------------------------------- MODULE Client -------------------------------
(***************************************************************************)
(* The command line client nervfs_client.c against the server: several     *)
(* clients run one command each over a connection that may be lost at any  *)
(* point.  The server is what it looks like from outside, one connection   *)
(* served by one worker; how its workers meet in the file system is the    *)
(* matter of Handlers.                                                     *)
(*                                                                         *)
(* A client of kind "raw" is any other program: it sends a frame of its    *)
(* choice, and may stop after its header.                                  *)
(***************************************************************************)
EXTENDS Wire, FiniteSets, Functions

CONSTANTS Clients,
          Commands,     \* Commands[c]: what client c may be asked to do
          DefaultMode,  \* the mode of a new file
          None

(* What a user may ask for, and what any other program may send.           *)
AllCommands ==
       [op : {"list", "unknown"}]
  \cup [op : {"upload"}, name : Seq(Bytes), size : Nat]
  \cup [op : {"download", "delete"}, name : Seq(Bytes)]
  \cup [op : {"chmod"}, name : Seq(Bytes), mode : Nat]
  \cup [op : {"raw"}, frame : Frames]

(* The files of the server, with the client that uploaded them; and what   *)
(* the server can do for a request: with or on which file.                 *)
Files == [of : Clients, size : Nat, mode : Nat]
Deeds == [op : Opcodes, name : Seq(Bytes), file : Files \cup {None}]

(* What it can answer.                                                     *)
Responses ==
       [kind : {"ok"}, plen : Nat]
  \cup [kind : {"error"}, plen : Nat, code : Nat]
  \cup [kind : {"file"}, plen : Nat, file : Files]
  \cup [kind : {"list"}, plen : Nat, seen : SUBSET Seq(Bytes)]

ASSUME ClientAssumption ==
  /\ \A c \in Clients : Commands[c] \subseteq AllCommands
  /\ DefaultMode \in Nat
  /\ None \notin Nat \cup Deeds \cup Frames \cup Responses

VARIABLES cmd,    \* cmd[c]: the command c was started with
          pc,     \* pc[c]: where it is
          frame,  \* frame[c]: the request it has built, or None
          wire,   \* wire[c]: how much of it is sent
          link,   \* link[c]: the connection
          srv,    \* srv[c]: what the server does with the connection
          resp,   \* resp[c]: the server's response, or None
          out,    \* out[c]: how much of it the client can read
          exit,   \* exit[c]: the client's exit status, or None
          local,  \* local[c]: the file a download has written, or None
          store,  \* the storage directory: names to files
          did     \* did[c]: what the server did for c's request, or None

vars == <<cmd, pc, frame, wire, link, srv, resp, out, exit, local, store, did>>

clientVars == <<cmd, pc, frame, wire, exit, local>>
serverVars == <<srv, resp, out, store, did>>

Init ==
  /\ cmd \in {f \in [Clients -> UNION {Commands[c] : c \in Clients}] : \A c \in Clients : f[c] \in Commands[c]}
  /\ pc = [c \in Clients |-> "connect"]
  /\ frame = [c \in Clients |-> None]
  /\ wire = [c \in Clients |-> "none"]
  /\ link = [c \in Clients |-> "none"]
  /\ srv = [c \in Clients |-> "none"]
  /\ resp = [c \in Clients |-> None]
  /\ out = [c \in Clients |-> "none"]
  /\ exit = [c \in Clients |-> None]
  /\ local = [c \in Clients |-> None]
  /\ store = <<>>
  /\ did = [c \in Clients |-> None]

At(c, l)   == pc[c] = l
Goto(c, l) == pc' = [pc EXCEPT ![c] = l]

(* The client's process ends, which closes its socket.  A SIGPIPE, which   *)
(* it does not ignore, counts as status 1.                                 *)
Exit(c, status) == Goto(c, "exit") /\ exit' = [exit EXCEPT ![c] = status]

(* No more bytes will come from the other side.                            *)
ServerGone(c) == link[c] = "cut" \/ srv[c] = "closed"
ClientGone(c) == link[c] = "cut" \/ At(c, "exit")

-----------------------------------------------------------------------------
(* connect_to_server.  main connects before it looks at the command.       *)
Connect(c) ==
  /\ At(c, "connect")
  /\ \/ /\ Goto(c, "build")
        /\ link' = [link EXCEPT ![c] = "up"]
        /\ srv' = [srv EXCEPT ![c] = "open"]
        /\ UNCHANGED exit
     \/ Exit(c, 1) /\ UNCHANGED <<link, srv>>
  /\ UNCHANGED <<cmd, frame, wire, resp, out, local, store, did>>

IsRaw(c) == cmd[c].op = "raw"
Asked(c) == IF IsRaw(c) THEN cmd[c].frame ELSE RequestOf(cmd[c])

(* The buffer for the request is allocated and filled, or there is no      *)
(* memory, or no file to upload.  When payload_len has wrapped the buffer  *)
(* is too small, and fread writes past it: the client is killed, or goes   *)
(* on with the lengths it has.                                             *)
Build(c) ==
  /\ At(c, "build")
  /\ \/ /\ cmd[c].op # "unknown"
        /\ frame' = [frame EXCEPT ![c] = Asked(c)]
        /\ Goto(c, "send")
        /\ UNCHANGED exit
     \/ /\ cmd[c].op # "list"
        /\ Exit(c, 1)
        /\ UNCHANGED frame
  /\ UNCHANGED <<cmd, wire, link, local, serverVars>>

(* send_request: the header, then the payload.  What is sent after the     *)
(* connection has broken is lost, and the client learns of it at the       *)
(* latest when it waits for the answer: it ends with status 1 either way.  *)
SendHeader(c) ==
  /\ At(c, "send") /\ wire[c] = "none" /\ link[c] = "up"
  /\ wire' = [wire EXCEPT ![c] = IF frame[c].plen = 0 THEN "all" ELSE "part"]
  /\ Goto(c, IF frame[c].plen = 0 THEN "await" ELSE "send")
  /\ UNCHANGED <<cmd, frame, link, exit, local, serverVars>>

SendPayload(c) ==
  /\ At(c, "send") /\ wire[c] = "part" /\ link[c] = "up"
  /\ wire' = [wire EXCEPT ![c] = "all"]
  /\ Goto(c, "await")
  /\ UNCHANGED <<cmd, frame, link, exit, local, serverVars>>

SendFails(c) ==
  /\ At(c, "send") /\ ServerGone(c)
  /\ Exit(c, 1)
  /\ UNCHANGED <<cmd, frame, wire, link, local, serverVars>>

(* read_response_header.                                                   *)
ReadHeader(c) ==
  /\ At(c, "await") /\ out[c] # "none"
  /\ Goto(c, "body")
  /\ UNCHANGED <<cmd, frame, wire, link, exit, local, serverVars>>

NoHeader(c) ==
  /\ At(c, "await")
  /\ link[c] = "cut" \/ (srv[c] = "closed" /\ out[c] = "none")
  /\ Exit(c, 1)
  /\ UNCHANGED <<cmd, frame, wire, link, local, serverVars>>

(* print_simple_result says ok whether or not the 24 bytes of timings      *)
(* arrive; the bodies of lists and files have to be complete, and need     *)
(* memory.                                                                 *)
StatusByCode(r, whole) == IF whole THEN 0 ELSE 1

Status(r, whole) ==
  CASE r.kind = "ok"    -> 0
    [] r.kind = "error" -> 1
    [] OTHER            -> IF whole THEN 0 ELSE 1

EndOfBody(c, whole) ==
  IF resp[c].kind = "file" /\ whole
  THEN Goto(c, "save") /\ UNCHANGED exit
  ELSE Exit(c, Status(resp[c], whole))

ReadBody(c) ==
  /\ At(c, "body")
  /\ \/ out[c] = "all" /\ EndOfBody(c, TRUE)
     \/ /\ \/ link[c] = "cut" \/ (srv[c] = "closed" /\ out[c] # "all")
           \/ resp[c].kind # "ok"
        /\ EndOfBody(c, FALSE)
  /\ UNCHANGED <<cmd, frame, wire, link, local, serverVars>>

(* The local file of a download.  The result of fwrite is ignored.         *)
Save(c) ==
  /\ At(c, "save")
  /\ \/ /\ \E how \in {"whole", "torn"} :
             local' = [local EXCEPT ![c] = [file |-> resp[c].file, disk |-> how]]
        /\ Exit(c, 0)
     \/ Exit(c, 1) /\ UNCHANGED local
  /\ UNCHANGED <<cmd, frame, wire, link, serverVars>>

-----------------------------------------------------------------------------
(* The server gives a connection up before it has a request: no free slot, *)
(* or no memory for the job or the payload.                                *)
TurnAway(c) ==
  /\ srv[c] = "open"
  /\ srv' = [srv EXCEPT ![c] = "closed"]
  /\ UNCHANGED <<clientVars, link, resp, out, store, did>>

(* recv_full in process_job has the whole payload, or what came before the *)
(* end of the connection.                                                  *)
ReceiveAny(c) ==
  /\ srv[c] = "open" /\ wire[c] # "none"
  /\ srv' = [srv EXCEPT ![c] = "work"]
  /\ UNCHANGED <<clientVars, link, resp, out, store, did>>

Receive(c) ==
  /\ srv[c] = "open" /\ wire[c] = "all"
  /\ srv' = [srv EXCEPT ![c] = "work"]
  /\ UNCHANGED <<clientVars, link, resp, out, store, did>>

ReceiveShort(c) ==
  /\ srv[c] = "open" /\ ClientGone(c) /\ (wire[c] # "all" \/ link[c] = "cut")
  /\ srv' = [srv EXCEPT ![c] = "closed"]
  /\ UNCHANGED <<clientVars, link, resp, out, store, did>>

RespondAndGoOn(c, r) ==
  /\ resp' = [resp EXCEPT ![c] = r]
  /\ srv' = [srv EXCEPT ![c] = "work"]

Respond(c, r) ==
  /\ resp' = [resp EXCEPT ![c] = r]
  /\ srv' = [srv EXCEPT ![c] = "answer"]

Fail(c, code) == Respond(c, [kind |-> "error", plen |-> 5, code |-> code])

Did(c, f) == did' = [did EXCEPT ![c] = [op |-> frame[c].op, name |-> frame[c].name, file |-> f]]

(* The handlers, for a request they accept; n is its name.                 *)
Exists(n) == n \in DOMAIN store

Put(n, f) == store' = [m \in DOMAIN store \cup {n} |-> IF m = n THEN f ELSE store[m]]

Stored(c, n, size) ==
  [of |-> c, size |-> size, mode |-> IF Exists(n) THEN store[n].mode ELSE DefaultMode]

Upload(c, n) ==
  /\ frame[c].op = "upload"
  /\ LET f == Stored(c, n, frame[c].arg)
     IN  \/ /\ OneWriteIsEnough(f.size)
            /\ Put(n, f) /\ Did(c, f)
            /\ Respond(c, [kind |-> "ok", plen |-> 24])
         \/ /\ \E k \in Leftovers(f.size) : Put(n, Stored(c, n, k))
            /\ Fail(c, 500) /\ UNCHANGED did
         \/ Fail(c, 500) /\ UNCHANGED <<store, did>>

Download(c, n) ==
  /\ frame[c].op = "download"
  /\ \/ /\ Exists(n)
        /\ Did(c, store[n])
        /\ Respond(c, [kind |-> "file", plen |-> DownloadLen(store[n].size), file |-> store[n]])
     \/ (\E code \in {404, 500} : Fail(c, code)) /\ UNCHANGED did
  /\ UNCHANGED store

Delete(c, n) ==
  /\ frame[c].op = "delete"
  /\ \/ /\ Exists(n)
        /\ store' = Restrict(store, DOMAIN store \ {n})
        /\ Did(c, store[n])
        /\ Respond(c, [kind |-> "ok", plen |-> 0])
     \/ Fail(c, 404) /\ UNCHANGED <<store, did>>

Chmod(c, n) ==
  /\ frame[c].op = "chmod"
  /\ \/ /\ Exists(n)
        /\ LET f == [store[n] EXCEPT !.mode = frame[c].arg] IN Put(n, f) /\ Did(c, f)
        /\ Respond(c, [kind |-> "ok", plen |-> 0])
     \/ Fail(c, 404) /\ UNCHANGED <<store, did>>

List(c) ==
  /\ frame[c].op = "list"
  /\ \/ /\ Respond(c, [kind |-> "list", plen |-> 4, seen |-> DOMAIN store])
        /\ Did(c, None)
     \/ Fail(c, 500) /\ UNCHANGED did
  /\ UNCHANGED store

Work(c) ==
  /\ srv[c] = "work"
  /\ LET n == frame[c].name
     IN  \/ /\ Accepted(frame[c])
            /\ Upload(c, n) \/ Download(c, n) \/ Delete(c, n) \/ Chmod(c, n) \/ List(c)
         \/ ~Accepted(frame[c]) /\ Fail(c, Refusal(frame[c])) /\ UNCHANGED <<store, did>>
  /\ UNCHANGED <<clientVars, link, out>>

(* send_message: the header, then the payload; process_job closes.  An     *)
(* error for which there is no memory is not sent, and what is sent to a   *)
(* client that is gone is lost.                                            *)
AnswerHeader(c) ==
  /\ srv[c] = "answer" /\ out[c] = "none" /\ ~ClientGone(c)
  /\ out' = [out EXCEPT ![c] = IF resp[c].plen = 0 THEN "all" ELSE "header"]
  /\ UNCHANGED <<clientVars, link, srv, resp, store, did>>

AnswerBody(c) ==
  /\ srv[c] = "answer" /\ out[c] # "none" /\ ~ClientGone(c)
  /\ out' = [out EXCEPT ![c] = "all"]
  /\ srv' = [srv EXCEPT ![c] = "closed"]
  /\ UNCHANGED <<clientVars, link, resp, store, did>>

NotAnsweredNorClosed(c) ==
  /\ srv[c] = "answer"
  /\ ClientGone(c) \/ (resp[c].kind = "error" /\ out[c] = "none")
  /\ srv' = [srv EXCEPT ![c] = "leaked"]
  /\ UNCHANGED <<clientVars, link, resp, out, store, did>>

NotAnswered(c) ==
  /\ srv[c] = "answer"
  /\ ClientGone(c) \/ (resp[c].kind = "error" /\ out[c] = "none")
  /\ srv' = [srv EXCEPT ![c] = "closed"]
  /\ UNCHANGED <<clientVars, link, resp, out, store, did>>

-----------------------------------------------------------------------------
(* The network loses the connection.                                       *)
Cut(c) ==
  /\ link[c] = "up" /\ ~At(c, "exit")
  /\ link' = [link EXCEPT ![c] = "cut"]
  /\ UNCHANGED <<clientVars, serverVars>>

Step(c) ==
  \/ Connect(c) \/ Build(c) \/ SendHeader(c) \/ SendPayload(c) \/ SendFails(c)
  \/ ReadHeader(c) \/ NoHeader(c) \/ ReadBody(c) \/ Save(c)

Serve(c) ==
  \/ Receive(c) \/ ReceiveShort(c) \/ Work(c)
  \/ AnswerHeader(c) \/ AnswerBody(c) \/ NotAnswered(c)

Next == \E c \in Clients : Step(c) \/ Serve(c) \/ TurnAway(c) \/ Cut(c)

Spec == Init /\ [][Next]_vars

(* The client's process and the server's threads run.  That the server     *)
(* gets to a connection is what EveryClientServed of Server says, under    *)
(* its conditions.  Other programs need not go on; there are fewer of them *)
(* than workers, and none stops within its header (see HeadersNotBlocked). *)
FairSpec ==
  /\ Spec
  /\ \A c \in Clients : WF_vars(~IsRaw(c) /\ Step(c)) /\ WF_vars(Serve(c))

-----------------------------------------------------------------------------
(* Type correctness, with the order in which a connection comes about:     *)
(* nothing is received before it is sent or answered before it is done.    *)
TypeOK ==
  /\ \A c \in Clients :
       /\ cmd[c] \in Commands[c]
       /\ pc[c] \in {"connect", "build", "send", "await", "body", "save", "exit"}
       /\ wire[c] \in {"none", "part", "all"} /\ out[c] \in {"none", "header", "all"}
       /\ link[c] \in {"none", "up", "cut"}
       /\ srv[c] \in {"none", "open", "work", "answer", "closed"}
       /\ frame[c] = None => wire[c] = "none"
       /\ resp[c] = None => out[c] = "none" /\ did[c] = None
       /\ At(c, "exit") <=> exit[c] # None
       /\ exit[c] \in {None, 0, 1}
       /\ local[c] # None => exit[c] = 0
  /\ \A n \in DOMAIN store : ValidName(n)

(* A command that ends with status 0 was carried out, by the server, for   *)
(* the name the user gave, with all of the file.  Names of 2^16 bytes and  *)
(* more are excepted: the client cuts them off, and the server acts on the *)
(* file with the shorter name.                                             *)
HasName(c) == cmd[c].op \in {"upload", "download", "delete", "chmod"}

ExitZeroMeansDone ==
  \A c \in Clients :
    exit[c] = 0 /\ ~IsRaw(c) /\ (HasName(c) => Len(cmd[c].name) < U16) =>
      /\ did[c] # None /\ did[c].op = cmd[c].op
      /\ HasName(c) => did[c].name = cmd[c].name
      /\ cmd[c].op = "upload" => did[c].file.of = c /\ did[c].file.size = cmd[c].size
      /\ cmd[c].op = "chmod" => did[c].file.mode = cmd[c].mode
      /\ cmd[c].op = "download" => local[c].file = did[c].file

(* "name_len and file_size must exactly match the bytes that follow, the   *)
(* server rejects the request otherwise" (api_reference.md): a handler     *)
(* that acts on a payload uses all of its bytes and none beyond it,        *)
(* whatever program sent it.                                               *)
AcceptedExactly ==
  \A c \in Clients :
    did[c] # None /\ did[c].op # "list" => Used(frame[c]) = frame[c].plen

(* The server acts only on a request it has been sent all of: a connection *)
(* that breaks in the middle changes nothing.                              *)
ActsOnWholeRequests ==
  \A c \in Clients : did[c] # None => wire[c] = "all"

(* "payload_len: uint32, byte length of the payload that follows"          *)
(* (api_reference.md): the header of a download announces what follows,    *)
(* for every file that can get into the store through the server.          *)
DownloadAnnounced ==
  \A c \in Clients :
    resp[c] # None /\ resp[c].kind = "file" => resp[c].plen = 8 + resp[c].file.size

(* The users see one decision of the server for each command, made whether *)
(* or not the connection holds until its end: nothing is carried out twice *)
(* or for a second time after an answer, and nothing is reported as done   *)
(* before it is.                                                           *)
Calls == INSTANCE RemoteCall WITH decided <- [c \in Clients |-> resp[c] # None]

CarriedOutOnce == Calls!Spec

(* Every command comes to an end, although the client has no timeouts: the *)
(* server answers or closes, or the connection breaks.                     *)
EveryCommandEnds == \A c \in Clients : ~IsRaw(c) => <>At(c, "exit")
=============================================================================
