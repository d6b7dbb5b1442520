------------------------------- MODULE Bridge -------------------------------
(***************************************************************************)
(* The Node bridge: the routes of bridge/server.js over the client of      *)
(* bridge/nervfsClient.js, one connection to the file server for each HTTP *)
(* request.                                                                *)
(*                                                                         *)
(* Node runs one callback at a time, and what a promise resumes runs       *)
(* before the next one: a step is an event of a socket with everything it  *)
(* leads to, up to the HTTP answer.  Bytes are counted, not looked at:     *)
(* what the file server says is a record.                                  *)
(***************************************************************************)
EXTENDS Naturals

CONSTANTS Requests,      \* HTTP requests
          Routes,        \* the routes they may take
          ErrorCodes,    \* codes of the file server's error responses
          HeaderSize,    \* bytes of a response header
          MaxBody,       \* bytes of the longest body
          NoResponse     \* the file server has not answered

Protected == {"list", "upload", "download", "delete", "chmod"}
Decoded   == {"health", "list", "download"}   \* routes that read the body
HasInput  == {"upload", "chmod"}              \* routes that check their input

ASSUME BridgeAssumption ==
  /\ Routes \subseteq Protected \cup {"health"}
  /\ ErrorCodes \subseteq {400, 403, 404, 409, 500}
  /\ HeaderSize \in Nat \ {0} /\ MaxBody \in Nat

VARIABLES req,    \* req[r]: the request and its socket, as the bridge has them
          net,    \* net[r]: the other end of the socket
          up      \* the process of the bridge is alive

vars == <<req, net, up>>

(* What a response is: the opcode the route expects, RESP_ERR, another     *)
(* opcode, or bytes that are no header of this protocol.                   *)
Response ==
  {a \in [what : {"data", "error", "other", "garbage"},
          code : ErrorCodes \cup {0}, len : 0..MaxBody] :
     a.what = "error" <=> a.code # 0}

ASSUME NoResponseAssumption == NoResponse \notin Response

(* call      "idle", "connect" in connect(), "read" in readResponse(),     *)
(*           "done" answered                                               *)
(* sock      "none", "open", "half" ended by us, "ended" by the peer, or   *)
(*           "closed"                                                      *)
(* heard     the "error" listeners: the once() of connect, readResponse's  *)
(* total     bytes received                                                *)
(* header    parsed                                                        *)
(* status    the HTTP status, 0 before                                     *)
Init ==
  /\ \E route \in [Requests -> Routes] :
       req = [r \in Requests |->
                [route |-> route[r], call |-> "idle", sock |-> "none", heard |-> {},
                 total |-> 0, header |-> FALSE, status |-> 0]]
  /\ net = [r \in Requests |-> [peer |-> "none", resp |-> NoResponse, sent |-> 0]]
  /\ up = TRUE

-----------------------------------------------------------------------------
(* The HTTP status of a failed call.  NoCode stands for the code of an     *)
(* error that did not come from the file server, a string or undefined.    *)
NoCode == 1

RawStatus(code) == code

StatusForError(code) == IF code \in {400, 403, 404, 409, 500} THEN code ELSE 502

(* throwIfError, expectOpcode, and what decoding a short body leads to:    *)
(* length 0 stands for every body too short for what is read of it.        *)
StatusOf(route, a) ==
  CASE a.what = "error" -> StatusForError(IF a.len = 0 THEN 500 ELSE a.code)
    [] a.what = "data" /\ (route \in Decoded => a.len > 0) ->
         IF route = "upload" THEN 201 ELSE 200
    [] OTHER -> 502

(* requireAdmin and the checks a route makes of its input.                 *)
Refuse(r) ==
  /\ req[r].call = "idle"
  /\ \E status \in (IF req[r].route \in Protected THEN {401} ELSE {})
                   \cup (IF req[r].route \in HasInput THEN {400} ELSE {}) :
       req' = [req EXCEPT ![r].call = "done", ![r].status = status]
  /\ UNCHANGED <<net, up>>

Connect(r) ==
  /\ req[r].call = "idle"
  /\ req' = [req EXCEPT ![r].call = "connect", ![r].heard = {"connect"}]
  /\ UNCHANGED <<net, up>>

Connected(r) ==
  /\ req[r].call = "connect"
  /\ req' = [req EXCEPT ![r].call = "read", ![r].sock = "open",
                        ![r].heard = @ \cup {"read"}]
  /\ net' = [net EXCEPT ![r].peer = "open"]
  /\ UNCHANGED up

ConnectFails(r) ==
  /\ req[r].call = "connect"
  /\ req' = [req EXCEPT ![r].call = "done", ![r].heard = {},
                        ![r].status = StatusForError(NoCode)]
  /\ UNCHANGED <<net, up>>

-----------------------------------------------------------------------------
(* cleanup() takes back what readResponse attached, and only that.         *)
CleanupAll(heard) == {}

Cleanup(heard) == heard \ {"read"}

(* fail() and the catch of request().                                      *)
SocketLeft(sock) == sock

SocketDestroyed(sock) == "closed"

Failed(q) ==
  [q EXCEPT !.call = "done", !.heard = Cleanup(@), !.sock = SocketDestroyed(@),
            !.status = StatusForError(NoCode)]

(* resolve() and the rest of request() and of the route.                   *)
Resolved(q, a) ==
  [q EXCEPT !.call = "done", !.heard = Cleanup(@), !.sock = "half",
            !.status = StatusOf(q.route, a)]

(* total >= expected, once the header is known and before that.            *)
HeaderOnly(q, a) == q.total >= HeaderSize

Complete(q, a) == q.total >= HeaderSize + a.len

(* onData: tryResolve, with the chunk already counted in q.                *)
TryResolve(q, a) ==
  CASE q.total < HeaderSize -> q
    [] q.total >= HeaderSize /\ a.what = "garbage" -> Failed(q)
    [] q.total >= HeaderSize /\ a.what # "garbage" ->
         LET h == [q EXCEPT !.header = TRUE]
         IN  IF Complete(h, a) THEN Resolved(h, a) ELSE h

Data(r) ==
  /\ req[r].call = "read" /\ req[r].sock = "open" /\ net[r].peer # "reset"
  /\ \E upto \in req[r].total + 1 .. net[r].sent :
       LET q == [req[r] EXCEPT !.total = upto]
       IN  req' = [req EXCEPT ![r] = TryResolve(q, net[r].resp)]
  /\ UNCHANGED <<net, up>>

(* total < expected, for onEnd and onClose.                                *)
NoHeaderYet(q, a) == ~q.header

Unfinished(q, a) ==
  q.total < HeaderSize + (IF q.header THEN a.len ELSE 0)

(* The peer's FIN, after all it has sent.  Node ends the other direction.  *)
End(r) ==
  /\ req[r].call = "read" /\ req[r].sock = "open"
  /\ net[r].peer = "ended" /\ req[r].total = net[r].sent
  /\ req' = IF Unfinished(req[r], net[r].resp)
            THEN [req EXCEPT ![r] = Failed(@)]
            ELSE [req EXCEPT ![r].sock = "ended"]
  /\ UNCHANGED <<net, up>>

(* "close", the last event of a socket.                                    *)
BothEnded(r) ==
  req[r].sock = "ended" \/ (req[r].sock = "half" /\ net[r].peer = "ended")

Close(r) ==
  /\ BothEnded(r)
  /\ req' = IF "read" \in req[r].heard /\ Unfinished(req[r], net[r].resp)
            THEN [req EXCEPT ![r] = Failed(@)]
            ELSE [req EXCEPT ![r].sock = "closed"]
  /\ UNCHANGED <<net, up>>

(* "error": an event of this name that nobody listens to ends the process. *)
Error(r) ==
  /\ req[r].sock \in {"open", "half", "ended"} /\ net[r].peer = "reset"
  /\ up' = (req[r].heard # {})
  /\ LET q == [req[r] EXCEPT !.heard = @ \ {"connect"}, !.sock = "closed"]
     IN  req' = [req EXCEPT ![r] = IF "read" \in q.heard THEN Failed(q) ELSE q]
  /\ UNCHANGED net

-----------------------------------------------------------------------------
(* The file server, or whatever listens on its port.                       *)
Serve(r) ==
  /\ net[r].peer = "open" /\ net[r].resp = NoResponse
  /\ \E a \in Response : net' = [net EXCEPT ![r].resp = a]
  /\ UNCHANGED <<req, up>>

Send(r) ==
  /\ net[r].peer = "open" /\ net[r].resp # NoResponse
  /\ \E upto \in net[r].sent + 1 .. HeaderSize + net[r].resp.len :
       net' = [net EXCEPT ![r].sent = upto]
  /\ UNCHANGED <<req, up>>

(* It closes the connection, after its response or before.                 *)
PeerEnds(r) ==
  /\ net[r].peer = "open"
  /\ net' = [net EXCEPT ![r].peer = "ended"]
  /\ UNCHANGED <<req, up>>

(* The connection is reset, for instance because the peer has closed it    *)
(* without reading all of the request.  What was not received is lost.     *)
PeerResets(r) ==
  /\ net[r].peer \in {"open", "ended"} /\ req[r].sock # "closed"
  /\ net' = [net EXCEPT ![r].peer = "reset"]
  /\ UNCHANGED <<req, up>>

Event(r) == Data(r) \/ End(r) \/ Close(r) \/ Error(r)

Route(r) ==
  \/ Refuse(r)
  \/ Connect(r)
  \/ Connected(r)
  \/ ConnectFails(r)

Peer(r) ==
  \/ Serve(r)
  \/ Send(r)
  \/ PeerEnds(r)
  \/ PeerResets(r)

Next == \E r \in Requests : Peer(r) \/ (up /\ (Route(r) \/ Event(r)))

Spec == Init /\ [][Next]_vars

(* connect() comes to an end, and so does the delivery of what has arrived.*)
(* Whatever listens on the port says something; a server of this protocol  *)
(* closes the connection after its response (process_job), others need not.*)
SendsAll(r) ==
  /\ net[r].resp # NoResponse
  /\ net[r].resp.what # "garbage"
  /\ net[r].sent = HeaderSize + net[r].resp.len

Fairness ==
  \A r \in Requests :
    /\ WF_vars(up /\ (Connected(r) \/ ConnectFails(r)))
    /\ WF_vars(up /\ Event(r))
    /\ WF_vars(Serve(r)) /\ WF_vars(Send(r))
    /\ WF_vars(SendsAll(r) /\ PeerEnds(r))

FairSpec == Spec /\ Fairness

-----------------------------------------------------------------------------
(* Type correctness; a request is answered, once, with a status the route  *)
(* knows, and a socket is read only up to what was sent.                   *)
TypeOK ==
  /\ \A r \in Requests :
       /\ req[r].route \in Routes
       /\ req[r].call \in {"idle", "connect", "read", "done"}
       /\ req[r].sock \in {"none", "open", "half", "ended", "closed"}
       /\ req[r].heard \subseteq {"connect", "read"}
       /\ req[r].total \in 0..net[r].sent
       /\ req[r].header \in BOOLEAN
       /\ req[r].status \in {0, 200, 201, 400, 401, 403, 404, 409, 500, 502}
       /\ req[r].status # 0 <=> req[r].call = "done"
       /\ net[r].peer \in {"none", "open", "ended", "reset"}
       /\ net[r].resp \in Response \cup {NoResponse}
       /\ net[r].sent \in 0..HeaderSize + MaxBody
  /\ up \in BOOLEAN

(* The HTTP answer says what the file server said: success only for a      *)
(* response of the expected kind that arrived whole, an error code only    *)
(* for a whole error response or a request refused before any connection,  *)
(* and a response that arrived whole is never turned into 502.             *)
ArrivedWhole(r) ==
  /\ net[r].resp # NoResponse
  /\ req[r].total = HeaderSize + net[r].resp.len

SaysWhatServerSaid ==
  \A r \in Requests :
    /\ req[r].status \in {200, 201} =>
         ArrivedWhole(r) /\ net[r].resp.what = "data"
    /\ req[r].status \in ErrorCodes /\ req[r].sock # "none" =>
         /\ ArrivedWhole(r) /\ net[r].resp.what = "error"
         /\ net[r].resp.len > 0 => req[r].status = net[r].resp.code
    /\ req[r].status = 502 /\ req[r].sock # "none" /\ ArrivedWhole(r) =>
         \/ net[r].resp.what \in {"other", "garbage"}
         \/ net[r].resp.len = 0 /\ req[r].route \in Decoded

(* No error of a socket ends the bridge and with it every other request,   *)
(* not even a reset that comes after the response was taken: readResponse  *)
(* has removed its listeners by then, and what is left is the listener of  *)
(* connect.                                                                *)
BridgeStaysUp == up

(* Every request gets an HTTP answer, however its connection to the file   *)
(* server ends and wherever the response was cut into pieces.              *)
EveryRequestAnswered ==
  \A r \in Requests : req[r].call # "idle" ~> req[r].status # 0

(* No answered request leaves its socket open: not after a failure, even   *)
(* if the peer never closes, and not after a response, when it does.       *)
SocketsReleased ==
  \A r \in Requests : req[r].status # 0 ~> req[r].sock \in {"none", "closed"}
=============================================================================
