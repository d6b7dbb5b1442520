---------------------------- MODULE BridgeProofs ----------------------------
(***************************************************************************)
(* Proofs about Bridge, for any HTTP requests, routes and error codes and  *)
(* any sizes of header and body.  A step changes one request and its       *)
(* socket, so the invariant is a predicate of the two, Sound, and each     *)
(* action has a lemma about the record it leaves.                          *)
(***************************************************************************)
EXTENDS Bridge, TLAPS

Requested ==
  [route : Routes, call : {"idle", "connect", "read", "done"},
   sock : {"none", "open", "half", "ended", "closed"},
   heard : SUBSET {"connect", "read"}, total : Nat, header : BOOLEAN,
   status : {0, 200, 201, 400, 401, 403, 404, 409, 500, 502}]

Socket ==
  [peer : {"none", "open", "ended", "reset"},
   resp : Response \cup {NoResponse}, sent : Nat]

(* What has been sent is part of a response, and what was received of what *)
(* was sent.                                                               *)
Counted(q, n) ==
  /\ q.total <= n.sent
  /\ n.resp = NoResponse => n.sent = 0
  /\ n.resp # NoResponse => n.sent <= HeaderSize + n.resp.len

(* Before the connection there is nothing to read; while a response is     *)
(* read, it is not complete, and both listeners are attached; as long as   *)
(* the socket can fail, one of them is.                                    *)
Attached(q, n) ==
  /\ q.call \in {"idle", "connect"} =>
       q.sock = "none" /\ q.total = 0 /\ ~q.header
  /\ q.call = "idle" => q.heard = {}
  /\ q.call = "connect" => q.heard = {"connect"}
  /\ q.call = "read" =>
       /\ q.sock = "open" /\ q.heard = {"connect", "read"}
       /\ q.header <=> q.total >= HeaderSize
       /\ q.header => n.resp.what # "garbage" /\ q.total < HeaderSize + n.resp.len
  /\ q.call = "done" => "read" \notin q.heard
  /\ q.sock \in {"open", "half"} => "connect" \in q.heard
  /\ q.sock = "open" => q.call = "read"
  /\ q.sock # "ended"
  /\ q.status # 0 <=> q.call = "done"

(* SaysWhatServerSaid, of one request.                                     *)
Whole(q, n) == n.resp # NoResponse /\ q.total = HeaderSize + n.resp.len

Says(q, n) ==
  /\ q.status \in {200, 201} => Whole(q, n) /\ n.resp.what = "data"
  /\ q.status \in ErrorCodes /\ q.sock # "none" =>
       /\ Whole(q, n) /\ n.resp.what = "error"
       /\ n.resp.len > 0 => q.status = n.resp.code
  /\ q.status = 502 /\ q.sock # "none" /\ Whole(q, n) =>
       \/ n.resp.what \in {"other", "garbage"}
       \/ n.resp.len = 0 /\ q.route \in Decoded

Sound(q, n) ==
  /\ q \in Requested /\ n \in Socket
  /\ Counted(q, n) /\ Attached(q, n) /\ Says(q, n)

Inv ==
  /\ req \in [Requests -> Requested] /\ net \in [Requests -> Socket]
  /\ \A r \in Requests : Sound(req[r], net[r])
  /\ up

-----------------------------------------------------------------------------
(* A header is not empty.                                                  *)
LEMMA Sizes == HeaderSize \in Nat /\ HeaderSize > 0 /\ MaxBody \in Nat
BY BridgeAssumption

(* A response has a length, and its code, if it is an error, is one of     *)
(* ErrorCodes.                                                             *)
LEMMA ResponseFields ==
  ASSUME NEW a \in Response
  PROVE  /\ a.what \in {"data", "error", "other", "garbage"}
         /\ a.len \in 0..MaxBody /\ a.len \in Nat
         /\ a.code \in ErrorCodes \cup {0}
         /\ a.what = "error" <=> a.code # 0
BY DEF Response

(* The error codes are none of the statuses the bridge uses otherwise, and *)
(* statusForError keeps them.                                              *)
LEMMA Codes ==
  /\ ErrorCodes \cap {0, 1, 200, 201, 401, 502} = {}
  /\ \A c \in ErrorCodes : StatusForError(c) = c
  /\ StatusForError(NoCode) = 502 /\ StatusForError(500) = 500
BY BridgeAssumption DEF StatusForError, NoCode

(* What an answered request is.                                            *)
Done(q, heard, sock, status) ==
  [q EXCEPT !.call = "done", !.heard = heard, !.sock = sock, !.status = status]

(* It is a request; its fields are changed one at a time.                  *)
LEMMA Answered ==
  ASSUME NEW q \in Requested, NEW heard \in SUBSET {"connect", "read"},
         NEW sock \in {"half", "closed"},
         NEW status \in {200, 201, 400, 403, 404, 409, 500, 502}
  PROVE  LET p == Done(q, heard, sock, status)
         IN  /\ p \in Requested
             /\ p.call = "done" /\ p.heard = heard /\ p.sock = sock
             /\ p.status = status /\ p.route = q.route /\ p.total = q.total
<1>1. PICK q1 \in Requested : q1 = [q EXCEPT !.call = "done"]
  <2>1. [q EXCEPT !.call = "done"] \in Requested
    BY DEF Requested
  <2> QED
    BY <2>1, Zenon
<1>2. PICK q2 \in Requested : q2 = [q1 EXCEPT !.heard = heard]
  <2>1. [q1 EXCEPT !.heard = heard] \in Requested
    BY DEF Requested
  <2> QED
    BY <2>1, Zenon
<1>3. PICK q3 \in Requested : q3 = [q2 EXCEPT !.sock = sock]
  <2>1. [q2 EXCEPT !.sock = sock] \in Requested
    BY DEF Requested
  <2> QED
    BY <2>1, Zenon
<1>4. PICK q4 \in Requested : q4 = [q3 EXCEPT !.status = status]
  <2>1. [q3 EXCEPT !.status = status] \in Requested
    BY DEF Requested
  <2> QED
    BY <2>1, Zenon
<1>5. Done(q, heard, sock, status) = q4
  BY <1>1, <1>2, <1>3, <1>4, SMT DEF Done
<1>6. /\ q1.call = "done" /\ q1.route = q.route /\ q1.total = q.total
      /\ q2.call = q1.call /\ q2.heard = heard
      /\ q2.route = q1.route /\ q2.total = q1.total
      /\ q3.call = q2.call /\ q3.heard = q2.heard /\ q3.sock = sock
      /\ q3.route = q2.route /\ q3.total = q2.total
      /\ q4.call = q3.call /\ q4.heard = q3.heard /\ q4.sock = q3.sock
      /\ q4.status = status /\ q4.route = q3.route /\ q4.total = q3.total
  BY <1>1, <1>2, <1>3, <1>4 DEF Requested
<1> QED
  BY <1>5, <1>6

(* The catch of request(), for a response that is not complete or not of   *)
(* this protocol.                                                          *)
LEMMA FailedSound ==
  ASSUME NEW q \in Requested, NEW n \in Socket, Counted(q, n),
         Whole(q, n) => n.resp.what = "garbage"
  PROVE  Sound(Failed(q), n)
<1> DEFINE p == Failed(q)
<1>1. /\ p \in Requested /\ p.call = "done" /\ p.sock = "closed"
      /\ p.status = 502 /\ p.total = q.total /\ p.heard = Cleanup(q.heard)
  <2>1. Cleanup(q.heard) \in SUBSET {"connect", "read"}
    BY DEF Cleanup, Requested
  <2>2. p = Done(q, Cleanup(q.heard), "closed", 502)
    BY Codes DEF Failed, Done, SocketDestroyed
  <2> QED
    BY <2>1, <2>2, Answered
<1>2. Counted(p, n)
  BY <1>1 DEF Counted
<1>3. Attached(p, n)
  BY <1>1 DEF Attached, Cleanup
<1>4. Says(p, n)
  BY <1>1, Codes DEF Says, Whole
<1> QED
  BY <1>1, <1>2, <1>3, <1>4 DEF Sound

(* The status of a whole response says what the response is.               *)
LEMMA StatusSays ==
  ASSUME NEW route \in Routes, NEW a \in Response, a.what # "garbage"
  PROVE  LET s == StatusOf(route, a)
         IN  /\ s \in {200, 201, 400, 403, 404, 409, 500, 502}
             /\ s \in {200, 201} => a.what = "data"
             /\ s \in ErrorCodes => a.what = "error" /\ (a.len > 0 => s = a.code)
             /\ s = 502 => a.what = "other" \/ (a.len = 0 /\ route \in Decoded)
<1>1. CASE a.what = "error"
  <2>1. StatusOf(route, a) = StatusForError(IF a.len = 0 THEN 500 ELSE a.code)
    BY <1>1 DEF StatusOf
  <2>2. a.code \in ErrorCodes
    BY <1>1, ResponseFields
  <2>3. CASE a.len = 0
    <3>1. StatusOf(route, a) = 500
      BY <2>1, <2>3, Codes
    <3> QED
      BY <1>1, <2>3, <3>1
  <2>4. CASE a.len # 0
    <3>1. (IF a.len = 0 THEN 500 ELSE a.code) = a.code
      BY <2>4
    <3>2. StatusForError(a.code) = a.code
      BY <2>2, Codes
    <3>3. StatusOf(route, a) = a.code
      BY <2>1, <3>1, <3>2, Zenon
    <3>4. a.code \in {400, 403, 404, 409, 500}
      <4>1. ErrorCodes \subseteq {400, 403, 404, 409, 500}
        BY BridgeAssumption
      <4> QED
        BY <2>2, <4>1, ZenonT(60)
    <3> QED
      BY <1>1, <2>2, <3>3, <3>4
  <2> QED
    BY <2>3, <2>4
<1>2. CASE a.what = "data" /\ (route \in Decoded => a.len > 0)
  BY <1>2, Codes DEF StatusOf
<1>3. CASE a.what # "error" /\ ~(a.what = "data" /\ (route \in Decoded => a.len > 0))
  <2>1. StatusOf(route, a) = 502
    BY <1>3 DEF StatusOf
  <2> QED
    BY <1>3, <2>1, Codes, ResponseFields
<1> QED
  BY <1>1, <1>2, <1>3

(* The rest of request() and of the route, for a complete response.        *)
LEMMA ResolvedSound ==
  ASSUME NEW q \in Requested, NEW n \in Socket, Counted(q, n),
         n.resp # NoResponse, n.resp.what # "garbage", Complete(q, n.resp),
         "connect" \in q.heard
  PROVE  Sound(Resolved(q, n.resp), n)
<1> DEFINE p == Resolved(q, n.resp)
<1>1. n.resp \in Response /\ q.route \in Routes
  BY DEF Socket, Requested
<1>2. Whole(q, n)
  BY <1>1, ResponseFields, Sizes DEF Whole, Complete, Counted, Requested, Socket
<1>3. /\ p \in Requested /\ p.call = "done" /\ p.sock = "half"
      /\ p.total = q.total /\ p.route = q.route
      /\ p.status = StatusOf(q.route, n.resp) /\ p.heard = Cleanup(q.heard)
  <2>1. StatusOf(q.route, n.resp) \in {200, 201, 400, 403, 404, 409, 500, 502}
    BY <1>1, StatusSays
  <2>2. Cleanup(q.heard) \in SUBSET {"connect", "read"}
    BY DEF Cleanup, Requested
  <2>3. p = Done(q, Cleanup(q.heard), "half", StatusOf(q.route, n.resp))
    BY DEF Resolved, Done
  <2> QED
    BY <2>1, <2>2, <2>3, Answered
<1>4. "connect" \in p.heard /\ "read" \notin p.heard
  BY <1>3 DEF Cleanup
<1>5. Counted(p, n)
  BY <1>3 DEF Counted
<1>6. Attached(p, n)
  BY <1>1, <1>3, <1>4, StatusSays DEF Attached
<1>7. Says(p, n)
  BY <1>1, <1>2, <1>3, StatusSays DEF Says, Whole
<1> QED
  BY <1>3, <1>5, <1>6, <1>7 DEF Sound

-----------------------------------------------------------------------------
(* A step that changes one request and its socket keeps the invariant when *)
(* it keeps it for that request.                                           *)
LEMMA OneChanged ==
  ASSUME Inv, NEW r \in Requests, Sound(req'[r], net'[r]), up',
         req' \in [Requests -> Requested], net' \in [Requests -> Socket],
         \A s \in Requests : s # r => req'[s] = req[s] /\ net'[s] = net[s]
  PROVE  Inv'
<1>1. ASSUME NEW s \in Requests
      PROVE  Sound(req'[s], net'[s])
  <2>1. CASE s = r
    BY <2>1
  <2>2. CASE s # r
    <3>1. req'[s] = req[s] /\ net'[s] = net[s]
      BY <2>2
    <3> QED
      BY <3>1 DEF Inv
  <2> QED
    BY <2>1, <2>2
<1> QED
  BY <1>1 DEF Inv, Sound, Counted, Attached, Says, Whole

(* The same when only the request changes.                                 *)
LEMMA RequestChanged ==
  ASSUME Inv, NEW r \in Requests, NEW q, Sound(q, net[r]),
         req' = [req EXCEPT ![r] = q], net' = net, up'
  PROVE  Inv'
<1>1. q \in Requested
  BY DEF Sound
<1>2. /\ req' \in [Requests -> Requested] /\ req'[r] = q
      /\ \A s \in Requests : s # r => req'[s] = req[s]
  BY <1>1 DEF Inv
<1>3. net' \in [Requests -> Socket] /\ net'[r] = net[r]
  BY DEF Inv
<1>4. Sound(req'[r], net'[r])
  BY <1>2, <1>3
<1> QED
  BY <1>2, <1>3, <1>4, OneChanged

(* The same when only the other end of the socket changes.                 *)
LEMMA SocketChanged ==
  ASSUME Inv, NEW r \in Requests, NEW n, Sound(req[r], n),
         req' = req, net' = [net EXCEPT ![r] = n], up'
  PROVE  Inv'
<1>1. n \in Socket
  BY DEF Sound
<1>2. /\ net' \in [Requests -> Socket] /\ net'[r] = n
      /\ \A s \in Requests : s # r => net'[s] = net[s]
  BY <1>1 DEF Inv
<1>3. req' \in [Requests -> Requested] /\ req'[r] = req[r]
  BY DEF Inv
<1>4. Sound(req'[r], net'[r])
  BY <1>2, <1>3
<1> QED
  BY <1>2, <1>3, <1>4, OneChanged

-----------------------------------------------------------------------------
(* No request, and no socket.                                              *)
LEMMA InitInv == Init => Inv
<1> SUFFICES ASSUME Init PROVE Inv
  OBVIOUS
<1>1. PICK route \in [Requests -> Routes] :
        req = [r \in Requests |->
                 [route |-> route[r], call |-> "idle", sock |-> "none", heard |-> {},
                  total |-> 0, header |-> FALSE, status |-> 0]]
  BY DEF Init
<1>2. req \in [Requests -> Requested]
  BY <1>1 DEF Requested
<1>3. net \in [Requests -> Socket] /\ up
  BY DEF Init, Socket
<1>4. ASSUME NEW r \in Requests
      PROVE  Sound(req[r], net[r])
  <2>1. /\ req[r].call = "idle" /\ req[r].sock = "none" /\ req[r].total = 0
        /\ ~req[r].header /\ req[r].status = 0 /\ req[r].heard = {}
    BY <1>1
  <2>2. net[r].resp = NoResponse /\ net[r].sent = 0
    BY DEF Init
  <2>3. Counted(req[r], net[r])
    BY <2>1, <2>2 DEF Counted
  <2>4. Attached(req[r], net[r])
    BY <2>1 DEF Attached
  <2>5. Says(req[r], net[r])
    BY <2>1, Codes DEF Says
  <2> QED
    BY <1>2, <1>3, <2>3, <2>4, <2>5 DEF Sound
<1> QED
  BY <1>2, <1>3, <1>4 DEF Inv

(* requireAdmin and the checks of the input: no socket yet.                *)
LEMMA RefuseInv ==
  ASSUME Inv, NEW r \in Requests, Refuse(r)
  PROVE  Inv'
<1>1. PICK status \in {400, 401} :
        req' = [req EXCEPT ![r].call = "done", ![r].status = status]
  BY ZenonT(60) DEF Refuse
<1>2. PICK q1 \in Requested : q1 = [req[r] EXCEPT !.call = "done"]
  <2>1. [req[r] EXCEPT !.call = "done"] \in Requested
    BY DEF Requested, Inv
  <2> QED
    BY <2>1, Zenon
<1>3. PICK q \in Requested : q = [q1 EXCEPT !.status = status]
  <2>1. [q1 EXCEPT !.status = status] \in Requested
    BY DEF Requested
  <2> QED
    BY <2>1, Zenon
<1>4. req' = [req EXCEPT ![r] = q]
  <2>1. DOMAIN req = Requests
    BY DEF Inv
  <2>2. req' = [req EXCEPT ![r] = [req[r] EXCEPT !.call = "done", !.status = status]]
    BY <1>1, <2>1, Zenon
  <2>3. q = [req[r] EXCEPT !.call = "done", !.status = status]
    BY <1>2, <1>3, SMT
  <2> QED
    BY <2>2, <2>3, Zenon
<1>5. req[r].call = "idle" /\ Sound(req[r], net[r]) /\ req[r] \in Requested
  BY DEF Refuse, Inv
<1>6. /\ q.call = "done" /\ q.status = status /\ q.sock = "none" /\ q.total = 0
      /\ q.heard = {}
  BY <1>2, <1>3, <1>5 DEF Requested, Sound, Attached
<1>7. Sound(q, net[r])
  <2>1. Counted(q, net[r])
    BY <1>5, <1>6 DEF Sound, Counted, Attached
  <2>2. Attached(q, net[r])
    BY <1>6 DEF Attached
  <2>3. Says(q, net[r])
    BY <1>6, Codes DEF Says
  <2> QED
    BY <1>5, <2>1, <2>2, <2>3 DEF Sound
<1> QED
  BY <1>4, <1>7, RequestChanged DEF Refuse, Inv

(* net.createConnection, with the once() of connect attached.              *)
LEMMA ConnectInv ==
  ASSUME Inv, NEW r \in Requests, Connect(r)
  PROVE  Inv'
<1>1. PICK q1 \in Requested : q1 = [req[r] EXCEPT !.call = "connect"]
  <2>1. [req[r] EXCEPT !.call = "connect"] \in Requested
    BY DEF Requested, Inv
  <2> QED
    BY <2>1, Zenon
<1>2. PICK q \in Requested : q = [q1 EXCEPT !.heard = {"connect"}]
  <2>1. [q1 EXCEPT !.heard = {"connect"}] \in Requested
    BY DEF Requested
  <2> QED
    BY <2>1, Zenon
<1>3. req' = [req EXCEPT ![r] = q]
  <2>1. DOMAIN req = Requests
    BY DEF Inv
  <2>2. req' = [req EXCEPT ![r] = [req[r] EXCEPT !.call = "connect", !.heard = {"connect"}]]
    <3>1. ASSUME NEW heard
          PROVE  [req EXCEPT ![r].call = "connect", ![r].heard = heard]
                   = [req EXCEPT ![r] = [req[r] EXCEPT !.call = "connect", !.heard = heard]]
      BY <2>1, Zenon
    <3> QED
      BY <3>1 DEF Connect
  <2>3. q = [req[r] EXCEPT !.call = "connect", !.heard = {"connect"}]
    BY <1>1, <1>2, SMT
  <2> QED
    BY <2>2, <2>3, Zenon
<1>4. req[r].call = "idle" /\ Sound(req[r], net[r]) /\ req[r] \in Requested
  BY DEF Connect, Inv
<1>5. /\ q.call = "connect" /\ q.heard = {"connect"} /\ q.status = 0
      /\ q.sock = "none" /\ q.total = 0 /\ ~q.header
  BY <1>1, <1>2, <1>4 DEF Requested, Sound, Attached
<1>6. Sound(q, net[r])
  <2>1. Counted(q, net[r])
    BY <1>4, <1>5 DEF Sound, Counted, Attached
  <2>2. Attached(q, net[r])
    BY <1>5 DEF Attached
  <2>3. Says(q, net[r])
    BY <1>5, Codes DEF Says
  <2> QED
    BY <1>4, <2>1, <2>2, <2>3 DEF Sound
<1> QED
  BY <1>3, <1>6, RequestChanged DEF Connect, Inv

(* The socket is connected: readResponse attaches its listeners beside the *)
(* one of connect, and nothing has been sent.                              *)
LEMMA ConnectedInv ==
  ASSUME Inv, NEW r \in Requests, Connected(r)
  PROVE  Inv'
<1>1. /\ req[r].call = "connect" /\ Sound(req[r], net[r])
      /\ req[r] \in Requested /\ net[r] \in Socket
      /\ req[r].heard \cup {"read"} = {"connect", "read"}
  BY DEF Connected, Inv, Sound, Attached
<1>2. PICK q1 \in Requested : q1 = [req[r] EXCEPT !.call = "read"]
  <2>1. [req[r] EXCEPT !.call = "read"] \in Requested
    BY DEF Requested, Inv
  <2> QED
    BY <2>1, Zenon
<1>3. PICK q2 \in Requested : q2 = [q1 EXCEPT !.sock = "open"]
  <2>1. [q1 EXCEPT !.sock = "open"] \in Requested
    BY DEF Requested
  <2> QED
    BY <2>1, Zenon
<1>4. PICK q \in Requested : q = [q2 EXCEPT !.heard = req[r].heard \cup {"read"}]
  <2>1. [q2 EXCEPT !.heard = req[r].heard \cup {"read"}] \in Requested
    BY <1>1 DEF Requested
  <2> QED
    BY <2>1, Zenon
<1>5. req' = [req EXCEPT ![r] = q]
  <2>1. DOMAIN req = Requests
    BY DEF Inv
  <2>2. ASSUME NEW heard
        PROVE  [req EXCEPT ![r].call = "read", ![r].sock = "open", ![r].heard = heard]
                 = [req EXCEPT ![r] = [req[r] EXCEPT !.call = "read", !.sock = "open",
                                                     !.heard = heard]]
    BY <2>1, Zenon
  <2>3. req' = [req EXCEPT ![r].call = "read", ![r].sock = "open",
                           ![r].heard = req[r].heard \cup {"read"}]
    BY DEF Connected
  <2>4. q = [req[r] EXCEPT !.call = "read", !.sock = "open",
                           !.heard = req[r].heard \cup {"read"}]
    BY <1>2, <1>3, <1>4, SMT
  <2>5. req' = [req EXCEPT ![r] = [req[r] EXCEPT !.call = "read", !.sock = "open",
                                      !.heard = req[r].heard \cup {"read"}]]
    BY <2>2, <2>3
  <2> QED
    BY <2>4, <2>5, Zenon
<1>6. PICK n \in Socket : n = [net[r] EXCEPT !.peer = "open"]
  <2>1. [net[r] EXCEPT !.peer = "open"] \in Socket
    BY DEF Socket, Inv
  <2> QED
    BY <2>1, Zenon
<1>7. net' = [net EXCEPT ![r] = n]
  BY <1>6 DEF Connected, Inv
<1>8. /\ q.call = "read" /\ q.sock = "open" /\ q.heard = {"connect", "read"}
      /\ q.total = 0 /\ ~q.header /\ q.status = 0
  BY <1>1, <1>2, <1>3, <1>4 DEF Requested, Sound, Attached
<1>9. n.resp = net[r].resp /\ n.sent = net[r].sent
  BY <1>1, <1>6 DEF Socket
<1>10. Sound(q, n)
  <2>1. Counted(q, n)
    BY <1>1, <1>8, <1>9 DEF Sound, Counted, Attached
  <2>2. Attached(q, n)
    BY <1>8, Sizes DEF Attached
  <2>3. Says(q, n)
    BY <1>8, Codes DEF Says
  <2> QED
    BY <2>1, <2>2, <2>3 DEF Sound
<1>11. /\ req' \in [Requests -> Requested] /\ req'[r] = q
       /\ \A s \in Requests : s # r => req'[s] = req[s]
  BY <1>5 DEF Inv
<1>12. /\ net' \in [Requests -> Socket] /\ net'[r] = n
       /\ \A s \in Requests : s # r => net'[s] = net[s]
  BY <1>7 DEF Inv
<1>13. Sound(req'[r], net'[r])
  BY <1>10, <1>11, <1>12
<1>14. up'
  BY DEF Connected, Inv
<1> QED
  BY <1>11, <1>12, <1>13, <1>14, OneChanged

(* The connection is refused: 502 without a socket.                        *)
LEMMA ConnectFailsInv ==
  ASSUME Inv, NEW r \in Requests, ConnectFails(r)
  PROVE  Inv'
<1>1. /\ req[r].call = "connect" /\ Sound(req[r], net[r])
      /\ req[r] \in Requested
  BY DEF ConnectFails, Inv
<1>2. PICK q1 \in Requested : q1 = [req[r] EXCEPT !.call = "done"]
  <2>1. [req[r] EXCEPT !.call = "done"] \in Requested
    BY DEF Requested, Inv
  <2> QED
    BY <2>1, Zenon
<1>3. PICK q2 \in Requested : q2 = [q1 EXCEPT !.heard = {}]
  <2>1. [q1 EXCEPT !.heard = {}] \in Requested
    BY DEF Requested
  <2> QED
    BY <2>1, Zenon
<1>4. PICK q \in Requested : q = [q2 EXCEPT !.status = 502]
  <2>1. [q2 EXCEPT !.status = 502] \in Requested
    BY DEF Requested
  <2> QED
    BY <2>1, Zenon
<1>5. req' = [req EXCEPT ![r] = q]
  <2>1. DOMAIN req = Requests
    BY DEF Inv
  <2>2. ASSUME NEW heard, NEW status
        PROVE  [req EXCEPT ![r].call = "done", ![r].heard = heard, ![r].status = status]
                 = [req EXCEPT ![r] = [req[r] EXCEPT !.call = "done", !.heard = heard,
                                                     !.status = status]]
    BY <2>1, Zenon
  <2>3. req' = [req EXCEPT ![r].call = "done", ![r].heard = {}, ![r].status = 502]
    BY Codes DEF ConnectFails
  <2>4. q = [req[r] EXCEPT !.call = "done", !.heard = {}, !.status = 502]
    BY <1>2, <1>3, <1>4, SMT
  <2>5. req' = [req EXCEPT ![r] = [req[r] EXCEPT !.call = "done", !.heard = {},
                                                 !.status = 502]]
    <3>1. ASSUME NEW status
          PROVE  [req EXCEPT ![r].call = "done", ![r].heard = {}, ![r].status = status]
                   = [req EXCEPT ![r] = [req[r] EXCEPT !.call = "done", !.heard = {},
                                                       !.status = status]]
      BY <2>2
    <3> QED
      BY <2>3, <3>1
  <2> QED
    BY <2>4, <2>5, Zenon
<1>6. /\ q.call = "done" /\ q.status = 502 /\ q.sock = "none" /\ q.total = 0
      /\ q.heard = {}
  BY <1>1, <1>2, <1>3, <1>4 DEF Requested, Sound, Attached
<1>7. Sound(q, net[r])
  <2>1. Counted(q, net[r])
    BY <1>1, <1>6 DEF Sound, Counted, Attached
  <2>2. Attached(q, net[r])
    BY <1>6 DEF Attached
  <2>3. Says(q, net[r])
    BY <1>6, Codes DEF Says
  <2> QED
    BY <1>1, <2>1, <2>2, <2>3 DEF Sound
<1> QED
  BY <1>5, <1>7, RequestChanged DEF ConnectFails, Inv

-----------------------------------------------------------------------------
(* The peer decides on an answer, before it has sent anything.             *)
LEMMA ServeInv ==
  ASSUME Inv, NEW r \in Requests, Serve(r)
  PROVE  Inv'
<1>1. PICK a \in Response : net' = [net EXCEPT ![r].resp = a]
  BY DEF Serve
<1>2. PICK n \in Socket : n = [net[r] EXCEPT !.resp = a]
  <2>1. [net[r] EXCEPT !.resp = a] \in Socket
    BY DEF Socket, Inv
  <2> QED
    BY <2>1, Zenon
<1>3. net' = [net EXCEPT ![r] = n]
  BY <1>1, <1>2 DEF Inv
<1>4. /\ Sound(req[r], net[r]) /\ req[r] \in Requested
      /\ net[r].resp = NoResponse /\ net[r].sent = 0 /\ req[r].total = 0
  BY DEF Serve, Inv, Sound, Counted, Requested
<1>5. n.resp = a /\ n.sent = 0 /\ n.resp # NoResponse
  BY <1>2, <1>4, NoResponseAssumption DEF Socket, Inv
<1>6. HeaderSize + a.len \in Nat /\ HeaderSize + a.len > 0
  BY ResponseFields, Sizes
<1>7. Sound(req[r], n)
  <2>1. Counted(req[r], n)
    BY <1>4, <1>5, <1>6 DEF Counted
  <2>2. Attached(req[r], n)
    BY <1>4, <1>5, Sizes DEF Sound, Attached
  <2>3. Says(req[r], n)
    BY <1>4, <1>5, <1>6 DEF Sound, Says, Whole
  <2> QED
    BY <1>4, <2>1, <2>2, <2>3 DEF Sound
<1> QED
  BY <1>3, <1>7, SocketChanged DEF Serve, Inv

(* It sends more of its answer.                                            *)
LEMMA SendInv ==
  ASSUME Inv, NEW r \in Requests, Send(r)
  PROVE  Inv'
<1>1. /\ net[r].resp \in Response /\ net[r].resp # NoResponse
      /\ net[r].sent \in Nat /\ net[r].resp.len \in Nat
  BY ResponseFields DEF Send, Inv, Socket
<1>2. PICK upto \in net[r].sent + 1 .. HeaderSize + net[r].resp.len :
        net' = [net EXCEPT ![r].sent = upto]
  BY DEF Send
<1>3. PICK n \in Socket : n = [net[r] EXCEPT !.sent = upto]
  <2>1. [net[r] EXCEPT !.sent = upto] \in Socket
    BY <1>1 DEF Socket, Inv
  <2> QED
    BY <2>1, Zenon
<1>4. net' = [net EXCEPT ![r] = n]
  BY <1>2, <1>3 DEF Inv
<1>5. Sound(req[r], net[r]) /\ req[r] \in Requested
  BY DEF Inv
<1>6. n.resp = net[r].resp /\ n.sent = upto
  BY <1>3 DEF Socket, Inv
<1>7. Sound(req[r], n)
  <2>1. Counted(req[r], n)
    BY <1>1, <1>5, <1>6 DEF Sound, Counted, Requested
  <2>2. Attached(req[r], n)
    BY <1>5, <1>6 DEF Sound, Attached
  <2>3. Says(req[r], n)
    BY <1>5, <1>6 DEF Sound, Says, Whole
  <2> QED
    BY <1>5, <2>1, <2>2, <2>3 DEF Sound
<1> QED
  BY <1>4, <1>7, SocketChanged DEF Send, Inv

(* It ends the connection or resets it.                                    *)
LEMMA PeerLeavesInv ==
  ASSUME Inv, NEW r \in Requests, PeerEnds(r) \/ PeerResets(r)
  PROVE  Inv'
<1>1. PICK peer \in {"ended", "reset"} : net' = [net EXCEPT ![r].peer = peer]
  BY DEF PeerEnds, PeerResets
<1>2. PICK n \in Socket : n = [net[r] EXCEPT !.peer = peer]
  <2>1. [net[r] EXCEPT !.peer = peer] \in Socket
    BY DEF Socket, Inv
  <2> QED
    BY <2>1, Zenon
<1>3. net' = [net EXCEPT ![r] = n]
  BY <1>1, <1>2 DEF Inv
<1>4. Sound(req[r], net[r]) /\ req[r] \in Requested
  BY DEF Inv
<1>5. n.resp = net[r].resp /\ n.sent = net[r].sent
  BY <1>2 DEF Socket, Inv
<1>6. Sound(req[r], n)
  BY <1>4, <1>5 DEF Sound, Counted, Attached, Says, Whole
<1>7. req' = req /\ up' = up
  BY DEF PeerEnds, PeerResets
<1> QED
  BY <1>3, <1>6, <1>7, SocketChanged DEF Inv

-----------------------------------------------------------------------------
(* What tryResolve leaves after a chunk: a request still read, a failure,  *)
(* or an answer.                                                           *)
LEMMA TryResolveSound ==
  ASSUME NEW q \in Requested, NEW n \in Socket, Counted(q, n),
         n.resp # NoResponse, q.call = "read", q.sock = "open",
         q.heard = {"connect", "read"}, q.status = 0,
         q.total < HeaderSize => ~q.header
  PROVE  Sound(TryResolve(q, n.resp), n)
<1> DEFINE a == n.resp
<1>1. a \in Response /\ a.len \in Nat /\ q.total \in Nat
  BY ResponseFields DEF Socket, Requested
<1>2. CASE q.total < HeaderSize
  <2>1. TryResolve(q, a) = q
    BY <1>1, <1>2, Sizes DEF TryResolve
  <2>2. Attached(q, n)
    BY <1>1, <1>2, Sizes DEF Attached
  <2>3. Says(q, n)
    BY Codes DEF Says
  <2> QED
    BY <2>1, <2>2, <2>3 DEF Sound
<1>3. CASE q.total >= HeaderSize /\ a.what = "garbage"
  <2>1. TryResolve(q, a) = Failed(q)
    BY <1>1, <1>3 DEF TryResolve
  <2> QED
    BY <1>3, <2>1, FailedSound
<1>4. CASE q.total >= HeaderSize /\ a.what # "garbage"
  <2>1. PICK h \in Requested : h = [q EXCEPT !.header = TRUE]
    <3>1. ASSUME NEW b \in BOOLEAN
          PROVE  [q EXCEPT !.header = b] \in Requested
      BY DEF Requested
    <3>2. [q EXCEPT !.header = TRUE] \in Requested
      BY <3>1, Zenon
    <3> QED
      BY <3>2
  <2>2. TryResolve(q, a) = IF Complete(h, a) THEN Resolved(h, a) ELSE h
    BY <1>1, <1>4, <2>1 DEF TryResolve
  <2>3. /\ h.call = "read" /\ h.sock = "open" /\ h.heard = {"connect", "read"}
        /\ h.status = 0 /\ h.total = q.total /\ h.header
    BY <2>1 DEF Requested
  <2>4. Counted(h, n)
    BY <2>3 DEF Counted
  <2>5. CASE Complete(h, a)
    BY <1>4, <2>2, <2>3, <2>4, <2>5, ResolvedSound
  <2>6. CASE ~Complete(h, a)
    <3>1. Attached(h, n)
      BY <1>1, <1>4, <2>3, <2>6, Sizes DEF Attached, Complete
    <3>2. Says(h, n)
      BY <2>3, Codes DEF Says
    <3> QED
      BY <2>2, <2>4, <2>6, <3>1, <3>2 DEF Sound
  <2> QED
    BY <2>5, <2>6
<1> QED
  BY <1>1, <1>2, <1>3, <1>4, Sizes

(* onData: what was sent is not more than the response.                    *)
LEMMA DataInv ==
  ASSUME Inv, NEW r \in Requests, Data(r)
  PROVE  Inv'
<1>1. /\ Sound(req[r], net[r]) /\ req[r] \in Requested /\ net[r] \in Socket
      /\ req[r].call = "read" /\ req[r].total \in Nat /\ net[r].sent \in Nat
  BY DEF Data, Inv, Requested, Socket
<1>2. PICK upto \in req[r].total + 1 .. net[r].sent :
        req' = [req EXCEPT ![r] = TryResolve([req[r] EXCEPT !.total = upto], net[r].resp)]
  BY DEF Data
<1>3. upto \in Nat /\ upto <= net[r].sent /\ upto > req[r].total /\ net[r].sent > 0
  BY <1>1
<1>4. PICK q \in Requested : q = [req[r] EXCEPT !.total = upto]
  <2>1. [req[r] EXCEPT !.total = upto] \in Requested
    BY <1>1, <1>3 DEF Requested
  <2> QED
    BY <2>1, Zenon
<1>5. req' = [req EXCEPT ![r] = TryResolve(q, net[r].resp)]
  BY <1>2, <1>4, Zenon
<1>6. /\ q.total = upto /\ q.call = "read" /\ q.sock = req[r].sock
      /\ q.heard = req[r].heard /\ q.status = req[r].status
      /\ q.header = req[r].header
  BY <1>1, <1>4 DEF Requested
<1>7. /\ q.sock = "open" /\ q.heard = {"connect", "read"} /\ q.status = 0
      /\ q.header <=> req[r].total >= HeaderSize
  BY <1>1, <1>6 DEF Sound, Attached, Requested
<1>8. Counted(q, net[r]) /\ net[r].resp # NoResponse
  BY <1>1, <1>3, <1>6 DEF Sound, Counted
<1>9. q.total < HeaderSize => ~q.header
  BY <1>1, <1>3, <1>6, <1>7, Sizes
<1>10. Sound(TryResolve(q, net[r].resp), net[r])
  BY <1>1, <1>6, <1>7, <1>8, <1>9, TryResolveSound
<1>11. net' = net /\ up'
  BY DEF Data, Inv
<1>12. PICK p \in Requested : p = TryResolve(q, net[r].resp)
  <2>1. TryResolve(q, net[r].resp) \in Requested
    BY <1>10 DEF Sound
  <2> QED
    BY <2>1, Zenon
<1>13. Sound(p, net[r]) /\ req' = [req EXCEPT ![r] = p]
  BY <1>5, <1>10, <1>12, Zenon
<1> QED
  BY <1>11, <1>13, RequestChanged DEF Inv

(* A response that is still read is not complete.                          *)
LEMMA StillRead ==
  ASSUME NEW q, NEW n, Sound(q, n), q.call = "read"
  PROVE  Unfinished(q, n.resp) /\ ~Whole(q, n)
<1>1. q.total \in Nat /\ q.header \in BOOLEAN
  BY DEF Sound, Requested
<1>2. n.resp # NoResponse => n.resp.len \in Nat
  BY ResponseFields DEF Sound, Socket
<1>3. q.header => n.resp # NoResponse
  BY <1>1, NoResponseAssumption, Sizes DEF Sound, Attached, Counted, Socket
<1> QED
  BY <1>1, <1>2, <1>3, Sizes DEF Sound, Attached, Unfinished, Whole

(* onEnd: a FIN ends a request that is still read.                         *)
LEMMA EndInv ==
  ASSUME Inv, NEW r \in Requests, End(r)
  PROVE  Inv'
<1>1. /\ Sound(req[r], net[r]) /\ req[r] \in Requested /\ net[r] \in Socket
      /\ req[r].call = "read"
  BY DEF End, Inv
<1>2. Unfinished(req[r], net[r].resp) /\ ~Whole(req[r], net[r])
  BY <1>1, StillRead
<1>3. req' = [req EXCEPT ![r] = Failed(req[r])]
  BY <1>2 DEF End
<1>4. Sound(Failed(req[r]), net[r])
  BY <1>1, <1>2, FailedSound DEF Sound
<1> QED
  BY <1>3, <1>4, RequestChanged DEF End, Inv

(* "close" finds the request answered: its socket was ended by us.         *)
LEMMA CloseInv ==
  ASSUME Inv, NEW r \in Requests, Close(r)
  PROVE  Inv'
<1>1. /\ Sound(req[r], net[r]) /\ req[r] \in Requested /\ req[r].sock = "half"
  BY DEF Close, BothEnded, Inv, Sound, Attached
<1>2. req[r].call = "done" /\ "read" \notin req[r].heard
  BY <1>1 DEF Sound, Attached, Requested
<1>3. PICK q \in Requested : q = [req[r] EXCEPT !.sock = "closed"]
  <2>1. [req[r] EXCEPT !.sock = "closed"] \in Requested
    BY <1>1 DEF Requested
  <2> QED
    BY <2>1, Zenon
<1>4. req' = [req EXCEPT ![r] = q]
  BY <1>2, <1>3 DEF Close, Inv
<1>5. /\ q.call = "done" /\ q.sock = "closed" /\ q.heard = req[r].heard
      /\ q.total = req[r].total /\ q.status = req[r].status /\ q.route = req[r].route
  BY <1>1, <1>2, <1>3 DEF Requested
<1>6. Sound(q, net[r])
  <2>1. Counted(q, net[r])
    BY <1>1, <1>5 DEF Sound, Counted
  <2>2. Attached(q, net[r])
    BY <1>1, <1>2, <1>5 DEF Sound, Attached
  <2>3. Says(q, net[r])
    BY <1>1, <1>5 DEF Sound, Says, Whole
  <2> QED
    BY <1>1, <2>1, <2>2, <2>3 DEF Sound
<1> QED
  BY <1>4, <1>6, RequestChanged DEF Close, Inv

(* "error" ends a request that is still read; after that the listener of   *)
(* connect is left, and the bridge stays up.                               *)
LEMMA ErrorInv ==
  ASSUME Inv, NEW r \in Requests, Error(r)
  PROVE  Inv'
<1>1. /\ Sound(req[r], net[r]) /\ req[r] \in Requested /\ net[r] \in Socket
      /\ req[r].sock \in {"open", "half"} /\ "connect" \in req[r].heard
  BY DEF Error, Inv, Sound, Attached
<1>2. up' /\ net' = net
  <2>1. req[r].heard # {}
    BY <1>1
  <2> QED
    BY <2>1 DEF Error
<1>3. PICK q1 \in Requested : q1 = [req[r] EXCEPT !.heard = req[r].heard \ {"connect"}]
  <2>1. req[r].heard \ {"connect"} \in SUBSET {"connect", "read"}
    BY <1>1 DEF Requested
  <2>2. [req[r] EXCEPT !.heard = req[r].heard \ {"connect"}] \in Requested
    BY <1>1, <2>1 DEF Requested
  <2> QED
    BY <2>2, Zenon
<1>4. PICK q \in Requested : q = [q1 EXCEPT !.sock = "closed"]
  <2>1. [q1 EXCEPT !.sock = "closed"] \in Requested
    BY DEF Requested
  <2> QED
    BY <2>1, Zenon
<1>5. q = [req[r] EXCEPT !.heard = req[r].heard \ {"connect"}, !.sock = "closed"]
  BY <1>3, <1>4, SMT
<1>6. req' = [req EXCEPT ![r] = IF "read" \in q.heard THEN Failed(q) ELSE q]
  BY <1>5, Zenon DEF Error
<1>7. /\ q.heard = req[r].heard \ {"connect"} /\ q.sock = "closed"
      /\ q.call = req[r].call /\ q.total = req[r].total
      /\ q.status = req[r].status /\ q.route = req[r].route
  BY <1>1, <1>3, <1>4 DEF Requested
<1>8. Counted(q, net[r])
  BY <1>1, <1>7 DEF Sound, Counted
<1>9. CASE "read" \in q.heard
  <2>1. req[r].call = "read"
    BY <1>1, <1>7, <1>9 DEF Sound, Attached, Requested
  <2>2. ~Whole(q, net[r])
    BY <1>1, <1>7, <2>1, StillRead DEF Whole
  <2>3. PICK p \in Requested : p = Failed(q)
    <3>1. Failed(q) \in Requested
      BY <1>1, <1>8, <2>2, FailedSound DEF Sound
    <3> QED
      BY <3>1, Zenon
  <2>4. Sound(p, net[r])
    BY <1>1, <1>8, <2>2, <2>3, FailedSound
  <2>5. req' = [req EXCEPT ![r] = p]
    BY <1>6, <1>9, <2>3
  <2> QED
    BY <1>2, <2>4, <2>5, RequestChanged DEF Inv
<1>10. CASE "read" \notin q.heard
  <2>1. req[r].call = "done" /\ q.call = "done"
    BY <1>1, <1>7, <1>10 DEF Sound, Attached, Requested
  <2>2. Attached(q, net[r])
    BY <1>1, <1>7, <1>10, <2>1 DEF Sound, Attached
  <2>3. Says(q, net[r])
    BY <1>1, <1>7 DEF Sound, Says, Whole
  <2>4. Sound(q, net[r])
    BY <1>1, <1>8, <2>2, <2>3 DEF Sound
  <2>5. req' = [req EXCEPT ![r] = q]
    BY <1>6, <1>10
  <2> QED
    BY <1>2, <2>4, <2>5, RequestChanged DEF Inv
<1> QED
  BY <1>9, <1>10

-----------------------------------------------------------------------------
(* Every step of the bridge and of its peers keeps the invariant.          *)
LEMMA NextInv == Inv /\ [Next]_vars => Inv'
<1> SUFFICES ASSUME Inv, [Next]_vars PROVE Inv'
  OBVIOUS
<1>1. ASSUME NEW r \in Requests, Peer(r) PROVE Inv'
  BY <1>1, ServeInv, SendInv, PeerLeavesInv DEF Peer
<1>2. ASSUME NEW r \in Requests, Route(r) PROVE Inv'
  BY <1>2, RefuseInv, ConnectInv, ConnectedInv, ConnectFailsInv DEF Route
<1>3. ASSUME NEW r \in Requests, Event(r) PROVE Inv'
  BY <1>3, DataInv, EndInv, CloseInv, ErrorInv DEF Event
<1>4. CASE UNCHANGED vars
  BY <1>4 DEF vars, Inv, Sound, Counted, Attached, Says, Whole
<1> QED
  BY <1>1, <1>2, <1>3, <1>4 DEF Next

(* The invariant holds in every state of every run.                        *)
LEMMA InvHolds == Spec => []Inv
BY InitInv, NextInv, PTL DEF Spec

(* Every request has the fields of its type, it is answered exactly when   *)
(* it has a status, and no more is read from a socket than a response has. *)
THEOREM TypeCorrect == Spec => []TypeOK
<1>1. Inv => TypeOK
  <2> SUFFICES ASSUME Inv PROVE TypeOK
    OBVIOUS
  <2>1. ASSUME NEW r \in Requests
        PROVE  /\ req[r] \in Requested /\ net[r] \in Socket
               /\ net[r].sent \in 0..HeaderSize + MaxBody
               /\ req[r].total \in 0..net[r].sent
               /\ req[r].status # 0 <=> req[r].call = "done"
    <3>1. Sound(req[r], net[r]) /\ req[r] \in Requested /\ net[r] \in Socket
      BY DEF Inv
    <3>2. net[r].sent \in Nat /\ req[r].total \in Nat
      BY <3>1 DEF Requested, Socket
    <3>3. net[r].resp # NoResponse => net[r].resp.len \in 0..MaxBody
      BY <3>1, ResponseFields DEF Socket
    <3> QED
      BY <3>1, <3>2, <3>3, Sizes DEF Sound, Counted, Attached
  <2>2. up \in BOOLEAN
    BY DEF Inv
  <2> QED
    BY <2>1, <2>2 DEF TypeOK, Requested, Socket
<1> QED
  BY <1>1, InvHolds, PTL

(* The HTTP answer says what the file server said: success only for a      *)
(* whole response of the expected kind, an error code only for a whole     *)
(* error response, 502 only for what is neither (readResponse, request and *)
(* the routes of server.js).                                               *)
THEOREM AnswersFaithful == Spec => []SaysWhatServerSaid
<1>1. Inv => SaysWhatServerSaid
  <2> SUFFICES ASSUME Inv PROVE SaysWhatServerSaid
    OBVIOUS
  <2>1. ASSUME NEW r \in Requests PROVE Says(req[r], net[r])
    BY DEF Inv, Sound
  <2> QED
    BY <2>1 DEF Says, Whole, SaysWhatServerSaid, ArrivedWhole
<1> QED
  BY <1>1, InvHolds, PTL

(* No error of a socket finds no listener, at any moment of any request:   *)
(* the process of the bridge is never ended by one.                        *)
THEOREM NeverDown == Spec => []BridgeStaysUp
<1>1. Inv => BridgeStaysUp
  BY DEF Inv, BridgeStaysUp
<1> QED
  BY <1>1, InvHolds, PTL
=============================================================================
