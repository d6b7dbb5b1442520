---------------------------- MODULE AtomicStore ----------------------------
(***************************************************************************)
(* What the file service promises for requests in flight together: every   *)
(* upload, download, delete and chmod takes effect at one instant between  *)
(* the arrival of the request and its response (docs/api_reference.md,     *)
(* section 7).  A listing promises less: it looks at one name after the    *)
(* other and may show an upload that has not finished.                     *)
(*                                                                         *)
(* Handlers is shown to implement this specification.                      *)
(***************************************************************************)
EXTENDS FileService

VARIABLES store,  \* store[n]: the file called n, or Absent
          job,    \* job[t]: the request t serves, or None
          rows,   \* rows[t]: what the listing of t has seen, name by name
          ans,    \* ans[t]: the answer once it is decided, else None
          sent    \* sent[t]: the response on the connection of t, or None

storeVars == <<store, job, rows, ans, sent>>

Init ==
  /\ store = [n \in Names |-> Absent]
  /\ job = [t \in Threads |-> None]
  /\ rows = [t \in Threads |-> <<>>]
  /\ ans = [t \in Threads |-> None]
  /\ sent = [t \in Threads |-> None]

(* A request arrives on a new connection.                                  *)
Begin(t, r) ==
  /\ job[t] = None
  /\ job' = [job EXCEPT ![t] = r]
  /\ sent' = [sent EXCEPT ![t] = None]
  /\ UNCHANGED <<store, rows, ans>>

Decide(t, a) == ans' = [ans EXCEPT ![t] = a] /\ UNCHANGED <<job, rows, sent>>

Undecided(t, op) == job[t] # None /\ job[t].op = op /\ ans[t] = None

(* An upload replaces the content.  When a system call fails it may leave  *)
(* any part of the new content behind.                                     *)
Upload(t) ==
  /\ Undecided(t, "upload")
  /\ LET n == job[t].name
         d == job[t].data
         Put(b) == store' = [store EXCEPT ![n] = [body |-> b, mode |-> ModeAfterUpload(@)]]
     IN  \/ CanWrite(store[n]) /\ Put(Whole(d)) /\ Decide(t, Ok)
         \/ ~CanWrite(store[n]) /\ UNCHANGED store /\ Decide(t, Err(500))
         \/ /\ IoMayFail
            /\ \/ UNCHANGED store
               \/ CanWrite(store[n]) /\ \E b \in Prefixes(d) : Put(b)
            /\ Decide(t, Err(500))

Download(t) ==
  /\ Undecided(t, "download")
  /\ LET f == store[job[t].name]
     IN  \/ CanRead(f) /\ Decide(t, FileData(f.body))
         \/ ~CanRead(f) /\ Decide(t, Err(404))
         \/ IoMayFail /\ \E c \in {404, 500} : Decide(t, Err(c))
  /\ UNCHANGED store

Delete(t) ==
  /\ Undecided(t, "delete")
  /\ LET n == job[t].name
     IN  \/ store[n] # Absent /\ store' = [store EXCEPT ![n] = Absent] /\ Decide(t, Ok)
         \/ (store[n] = Absent \/ IoMayFail) /\ UNCHANGED store /\ Decide(t, Err(404))

Chmod(t) ==
  /\ Undecided(t, "chmod")
  /\ LET n == job[t].name
     IN  \/ /\ store[n] # Absent
            /\ store' = [store EXCEPT ![n].mode = job[t].mode]
            /\ Decide(t, Ok)
         \/ (store[n] = Absent \/ IoMayFail) /\ UNCHANGED store /\ Decide(t, Err(404))

(* A listing sees the file, or what an upload in progress has written.     *)
UploadsOf(n) == {u \in Threads : Undecided(u, "upload") /\ job[u].name = n}

Views(n) ==
  {store[n]} \cup UNION {{[body |-> b, mode |-> ModeAfterUpload(store[n])] :
                            b \in Prefixes(job[u].data)} : u \in UploadsOf(n)}

Look(t, S) ==
  /\ Undecided(t, "list") /\ S \cap DOMAIN rows[t] = {}
  /\ \E view \in [S -> UNION {Views(n) : n \in S}] :
       /\ \A n \in S : view[n] \in Views(n)
       /\ rows' = [rows EXCEPT ![t] = SeenMore(@, view)]
  /\ UNCHANGED <<store, job, ans, sent>>

List(t) ==
  /\ Undecided(t, "list")
  /\ \/ DOMAIN rows[t] = Names /\ Decide(t, Listing(rows[t]))
     \/ IoMayFail /\ Decide(t, Err(500))
  /\ UNCHANGED store

Refuse(t) ==
  /\ Undecided(t, "bad")
  /\ Decide(t, Err(job[t].code))
  /\ UNCHANGED store

(* The response goes out and the connection is closed.  An error may stay  *)
(* unsaid when memory is short.                                            *)
Finish(t) ==
  /\ ans[t] # None
  /\ \/ sent' = [sent EXCEPT ![t] = ans[t]]
     \/ IoMayFail /\ ans[t].code # 0 /\ UNCHANGED sent
  /\ job' = [job EXCEPT ![t] = None]
  /\ ans' = [ans EXCEPT ![t] = None]
  /\ rows' = [rows EXCEPT ![t] = <<>>]
  /\ UNCHANGED store

Next ==
  \E t \in Threads :
    \/ \E r \in Requests : Begin(t, r)
    \/ Upload(t) \/ Download(t) \/ Delete(t) \/ Chmod(t)
    \/ \E S \in SUBSET Names : Look(t, S)
    \/ List(t)
    \/ Refuse(t)
    \/ Finish(t)

Spec == Init /\ [][Next]_storeVars
=============================================================================
