------------------------------- MODULE Server -------------------------------
(***************************************************************************)
(* Processes that serve one data directory one after another               *)
(* (internal/runtime, cmd/fcp, the lock of internal/state/lock.go) and the *)
(* object requests whose handlers (internal/server/s3.go, gcs.go) outlast  *)
(* one call of the Store: uploads in chunks and copies.  A process         *)
(* keeps all data in memory and every commit writes all of it, so          *)
(* that the lock and the order of the shutdown decide whether a commit is  *)
(* lost.  A call of the Store is one step (ObjectStore shows why); so is   *)
(* the reading of a request's body, for which a handler waits as long as   *)
(* its client likes.                                                       *)
(***************************************************************************)
EXTENDS Naturals, FiniteSets, Sequences

CONSTANTS
  Procs, NoProc,     \* processes; nobody
  HttpClients,       \* clients of the HTTP listener
  GrpcClients,       \* clients of the gRPC listener
  Idle,              \* the client waits for no answer
  Names,             \* names of objects
  Seeds,             \* the names the profile creates
  Reapplied,         \* those it writes again at every start
  Plans,             \* how clients upload: the sizes of their chunks, and
                     \* whether they know the total from the start
  MaxUploads,        \* bound: bodies ever uploaded
  MaxFaults          \* bound: processes killed, starts and commits that fail

Clients == HttpClients \cup GrpcClients

ASSUME ConstantAssumptions ==
  /\ HttpClients \cap GrpcClients = {} /\ NoProc \notin Procs
  /\ Names \subseteq Nat \ {0} /\ Seeds \subseteq Names /\ Reapplied \subseteq Seeds
  /\ Plans \subseteq [chunks : Seq(Nat \ {0}), known : BOOLEAN]
  /\ MaxUploads \in Nat /\ MaxFaults \in Nat

VARIABLES
  lock,      \* the process that holds the flock of .fcp.lock
  disk,      \* the committed objects: name -> body
  phase,     \* where each process is between its start and its end
  mem,       \* s.data of each process
  sessions,  \* s.gcsUploads of each process: upload -> name and body so far,
             \* and the client that was told its identifier
  handler,   \* the request of each client that is being handled
  uploads,   \* history: the plans of all uploads
  expected,  \* history: the objects after all commits so far
  overran,   \* history: some process closed its store under a handler
  faults     \* how much went wrong so far

procVars == <<lock, phase, overran>>
vars == <<disk, procVars, mem, sessions, handler, uploads, expected, faults>>

Bind(f, x, y) == [z \in DOMAIN f \cup {x} |-> IF z = x THEN y ELSE f[z]]
Without(f, x) == [z \in DOMAIN f \ {x} |-> f[z]]
Empty == [x \in {} |-> {}]

Init ==
  /\ lock = NoProc /\ disk = Empty /\ expected = Empty
  /\ phase = [p \in Procs |-> "down"] /\ mem = [p \in Procs |-> Empty]
  /\ sessions = [p \in Procs |-> Empty] /\ handler = [c \in Clients |-> Idle]
  /\ uploads = <<>> /\ overran = FALSE
  /\ faults = 0

\* The bytes of the first n chunks.
Sent(chunks, n) ==
  LET sum[k \in 0..Len(chunks)] == IF k = 0 THEN 0 ELSE sum[k - 1] + chunks[k]
  IN  sum[n]

Total(u) == Sent(uploads[u].chunks, Len(uploads[u].chunks))

\* The body of upload u when nothing is missing, doubled or out of order; 0
\* stands for what the profile creates.
Whole(u) == [j \in 1..(IF u = 0 THEN 1 ELSE Total(u)) |-> <<u, j>>]

Fault == faults < MaxFaults /\ faults' = faults + 1
Busy(p, clients) == {c \in clients : handler[c] # Idle /\ handler[c].proc = p}
Accept(c, request) == handler[c] = Idle /\ handler' = [handler EXCEPT ![c] = request]
Answer(c) == handler' = [handler EXCEPT ![c] = Idle]

-----------------------------------------------------------------------------
(* The life of a process.                                                   *)

\* Seeded fault: the lock is shared.
SharedLock(p) ==
  /\ phase[p] = "down"
  /\ lock' = p /\ phase' = [phase EXCEPT ![p] = "opening"]
  /\ UNCHANGED <<disk, mem, sessions, handler, uploads, expected, overran, faults>>

\* Without LOCK_NB's success the start ends at once and changes nothing.
acquireDataDirLock(p) ==
  /\ phase[p] = "down" /\ lock = NoProc
  /\ lock' = p /\ phase' = [phase EXCEPT ![p] = "opening"]
  /\ UNCHANGED <<disk, mem, sessions, handler, uploads, expected, overran, faults>>

OpenWithOptions(p) ==
  /\ phase[p] = "opening"
  /\ mem' = [mem EXCEPT ![p] = disk]
  /\ phase' = [phase EXCEPT ![p] = "seeding"]
  /\ UNCHANGED <<lock, disk, sessions, handler, uploads, expected, overran, faults>>

\* Most fixtures are created if they are missing.  The dead-letter policy of a
\* subscription is set at every start, over what a client has made of it.
Unseeded(p) ==
  {n \in Seeds : n \notin DOMAIN mem[p] \/ (n \in Reapplied /\ mem[p][n] # Whole(0))}

\* A call of the Store for each of them.
SeedDemo(p) ==
  /\ phase[p] = "seeding"
  /\ \E n \in Unseeded(p) :
       /\ mem' = [mem EXCEPT ![p] = Bind(@, n, Whole(0))]
       /\ disk' = mem'[p]
       /\ expected' = IF overran THEN disk' ELSE Bind(expected, n, Whole(0))
  /\ UNCHANGED <<procVars, sessions, handler, uploads, faults>>

\* Both listeners are open, and the two servers accept.
Start(p) ==
  /\ phase[p] = "seeding" /\ Unseeded(p) = {}
  /\ phase' = [phase EXCEPT ![p] = "serving"]
  /\ UNCHANGED <<lock, disk, mem, sessions, handler, uploads, expected, overran, faults>>

\* Seeded fault: a failing start keeps the lock.
StartFailsLocked(p) ==
  /\ phase[p] \in {"opening", "seeding"} /\ Fault
  /\ UNCHANGED lock /\ phase' = [phase EXCEPT ![p] = "down"]
  /\ mem' = [mem EXCEPT ![p] = Empty]
  /\ UNCHANGED <<disk, sessions, handler, uploads, expected, overran>>

\* Opening, seeding or listening fails: the store is closed, the program ends.
StartFails(p) ==
  /\ phase[p] \in {"opening", "seeding"} /\ Fault
  /\ lock' = NoProc /\ phase' = [phase EXCEPT ![p] = "down"]
  /\ mem' = [mem EXCEPT ![p] = Empty]
  /\ UNCHANGED <<disk, sessions, handler, uploads, expected, overran>>

\* A signal, or the failure of a server: Close begins, the HTTP listener stops.
run(p) ==
  /\ phase[p] = "serving"
  /\ phase' = [phase EXCEPT ![p] = "shutdown"]
  /\ UNCHANGED <<lock, disk, mem, sessions, handler, uploads, expected, overran, faults>>

\* http.Server.Shutdown returns when no handler runs, or at the deadline
\* whoever runs; gRPC accepts calls until then.
Shutdown(p) ==
  /\ phase[p] = "shutdown"
  /\ phase' = [phase EXCEPT ![p] = "stopping"]
  /\ UNCHANGED <<lock, disk, mem, sessions, handler, uploads, expected, overran, faults>>

\* Seeded fault: Close waits for the handlers without a deadline.
GracefulStopOnly(p) ==
  /\ phase[p] = "stopping"
  /\ Busy(p, Clients) = {}
  /\ UNCHANGED overran
  /\ lock' = NoProc /\ phase' = [phase EXCEPT ![p] = "closed"]
  /\ UNCHANGED <<disk, mem, sessions, handler, uploads, expected, faults>>

\* GracefulStop ends with the last handler; at the deadline Stop does not wait
\* for it.  Then store.Close releases the lock.
Close(p) ==
  /\ phase[p] = "stopping"
  /\ overran' = (overran \/ Busy(p, Clients) # {})
  /\ lock' = NoProc /\ phase' = [phase EXCEPT ![p] = "closed"]
  /\ UNCHANGED <<disk, mem, sessions, handler, uploads, expected, faults>>

\* What dies with a process: its memory, its handlers, its sessions, its lock.
End(p) ==
  /\ phase' = [phase EXCEPT ![p] = "down"]
  /\ lock' = IF lock = p THEN NoProc ELSE lock
  /\ mem' = [mem EXCEPT ![p] = Empty] /\ sessions' = [sessions EXCEPT ![p] = Empty]
  /\ handler' = [c \in Clients |-> IF c \in Busy(p, Clients) THEN Idle ELSE handler[c]]
  /\ UNCHANGED <<disk, uploads, expected, overran>>

main(p) == phase[p] = "closed" /\ End(p) /\ UNCHANGED faults

Kill(p) == phase[p] # "down" /\ Fault /\ End(p)

-----------------------------------------------------------------------------
(* Requests.  HTTP requests are accepted while a process serves, gRPC calls *)
(* until GracefulStop.                                                      *)

Accepts(p, c) ==
  \/ phase[p] = "serving"
  \/ phase[p] = "shutdown" /\ c \in GrpcClients

Serve == UNCHANGED <<procVars, faults>>

Write(p, name, body, upload) ==
  [proc |-> p, op |-> "write", name |-> name, body |-> body, upload |-> upload]

NewUpload(plan) == Len(uploads) < MaxUploads /\ uploads' = Append(uploads, plan)

\* A body in one request: PutObject, or uploadType=media.
putObject(p, c, n) ==
  /\ Accepts(p, c) /\ c \in HttpClients
  /\ NewUpload([chunks |-> <<1>>, known |-> TRUE])
  /\ Accept(c, Write(p, n, <<<<Len(uploads) + 1, 1>>>>, 0))
  /\ Serve /\ UNCHANGED <<disk, mem, sessions, expected>>

\* A gRPC call that writes what the profile writes too.
grpcWrite(p, c, n) ==
  /\ Accepts(p, c) /\ c \in GrpcClients /\ n \in Seeds
  /\ Accept(c, Write(p, n, Whole(0), 0))
  /\ Serve /\ UNCHANGED <<disk, mem, sessions, uploads, expected>>

\* The source is read in one call of the Store, the copy written in another.
copyObject(p, c, source, n) ==
  /\ Accepts(p, c) /\ c \in HttpClients /\ source \in DOMAIN mem[p]
  /\ Accept(c, Write(p, n, mem[p][source], 0))
  /\ Serve /\ UNCHANGED <<disk, mem, sessions, uploads, expected>>

deleteObject(p, c, n) ==
  /\ Accepts(p, c) /\ c \in HttpClients /\ n \in DOMAIN mem[p]
  /\ Accept(c, [proc |-> p, op |-> "delete", name |-> n, body |-> <<>>, upload |-> 0])
  /\ Serve /\ UNCHANGED <<disk, mem, sessions, uploads, expected>>

\* uploadType=resumable: the session is in memory only.
handleGCSUpload(p, c, n, plan) ==
  /\ Accepts(p, c) /\ c \in HttpClients /\ handler[c] = Idle
  /\ NewUpload(plan)
  /\ sessions' = [sessions EXCEPT ![p] = Bind(@, Len(uploads) + 1,
                                                [name |-> n, client |-> c, body |-> <<>>])]
  /\ Serve /\ UNCHANGED <<disk, mem, handler, expected>>

\* The client sends its next chunk when the one before is answered; chunk 0,
\* an empty one, asks how much has arrived, as a client does after an error.
handleGCSResumableChunk(p, c, u, i) ==
  LET from == Len(sessions[p][u].body)
      size == IF i = 0 THEN 0 ELSE uploads[u].chunks[i]
  IN
  /\ Accepts(p, c) /\ u \in DOMAIN sessions[p] /\ sessions[p][u].client = c
  /\ i > 0 => from = Sent(uploads[u].chunks, i - 1)
  /\ Accept(c, [proc |-> p, op |-> "chunk", name |-> sessions[p][u].name, upload |-> u,
                body |-> [j \in 1..size |-> <<u, from + j>>]])
  /\ Serve /\ UNCHANGED <<disk, mem, sessions, uploads, expected>>

\* The Content-Range of a chunk names the total when the client knows it, and
\* in the last chunk, and "*" otherwise.
Announces(u, last) == uploads[u].known \/ last

\* Seeded fault: any chunk of an announced total ends the upload.
EveryRangeMatches(total, length) == TRUE

\* The range ends in a total whose decimal digits begin with those of length:
\* strings.Contains looks for "/" and the length, and goes no further.
RangeMatches(total, length) ==
  LET cut[k \in 0..total] == IF k = 0 THEN total ELSE cut[k - 1] \div 10
  IN  IF length = 0 THEN total = 0 ELSE \E k \in 0..total : cut[k] = length

incomplete(u, body) ==
  \/ ~ Announces(u, Len(body) = Total(u))
  \/ ~ RangeMatches(Total(u), Len(body))

\* The chunk has arrived and is appended; the last one goes on to the Store.
AppendChunk(c) ==
  LET h == handler[c]
      body == sessions[h.proc][h.upload].body \o h.body
  IN /\ h # Idle /\ h.op = "chunk"
     /\ sessions' = [sessions EXCEPT ![h.proc][h.upload].body = body]
     /\ handler' = [handler EXCEPT ![c] =
                      IF incomplete(h.upload, body) THEN Idle
                      ELSE Write(h.proc, h.name, body, h.upload)]
     /\ Serve /\ UNCHANGED <<disk, mem, uploads, expected>>

Applied(objects, h) ==
  IF h.op = "write" THEN Bind(objects, h.name, h.body) ELSE Without(objects, h.name)

\* The last call of a handler: all that the process holds in memory is written.
\* Store.Close took the lock away and nothing else: a handler that is still
\* there goes on.  A resumable upload ends with its session.
Commit(c) ==
  LET h == handler[c] IN
  /\ h # Idle /\ h.op \in {"write", "delete"}
  /\ mem' = [mem EXCEPT ![h.proc] = Applied(@, h)]
  /\ disk' = mem'[h.proc]
  /\ expected' = IF overran THEN disk' ELSE Applied(expected, h)
  /\ sessions' = [sessions EXCEPT ![h.proc] = Without(@, h.upload)]
  /\ Answer(c)
  /\ Serve /\ UNCHANGED uploads

\* An error answer: the Store is as before, the session keeps the last chunk.
CommitFails(c) ==
  /\ handler[c] # Idle /\ handler[c].op \in {"write", "delete"} /\ Fault
  /\ Answer(c)
  /\ UNCHANGED <<procVars, disk, mem, sessions, uploads, expected>>

-----------------------------------------------------------------------------
\* What the main goroutine of p does on its own.
Lifecycle(p) ==
  OpenWithOptions(p) \/ SeedDemo(p) \/ Start(p) \/ Shutdown(p) \/ Close(p) \/ main(p)

Requests(p, c) ==
  \/ \E n \in Names : \/ putObject(p, c, n) \/ deleteObject(p, c, n) \/ grpcWrite(p, c, n)
                      \/ \E source \in Names : copyObject(p, c, source, n)
                      \/ \E plan \in Plans : handleGCSUpload(p, c, n, plan)
  \/ \E u \in DOMAIN uploads : \E i \in 0..Len(uploads[u].chunks) : handleGCSResumableChunk(p, c, u, i)

Next ==
  \/ \E p \in Procs : \/ acquireDataDirLock(p) \/ run(p) \/ StartFails(p) \/ Kill(p)
                      \/ Lifecycle(p)
                      \/ \E c \in Clients : Requests(p, c)
  \/ \E c \in Clients : AppendChunk(c) \/ Commit(c) \/ CommitFails(c)

Spec == Init /\ [][Next]_vars /\ \A p \in Procs : WF_vars(Lifecycle(p))

-----------------------------------------------------------------------------
(* Properties.                                                              *)

\* The lock is held from the first step of a start to the end of Close, and
\* the files of a resumable upload live in a process that runs.
TypeOK ==
  /\ lock \in Procs \cup {NoProc}
  /\ \A p \in Procs : (lock = p) <=> (phase[p] \notin {"down", "closed"})
  /\ \A p \in Procs : DOMAIN sessions[p] \subseteq 1..Len(uploads)
  /\ \A c \in Clients : handler[c] # Idle => phase[handler[c].proc] # "down"
  /\ \A p \in Procs : phase[p] = "down" => mem[p] = Empty /\ sessions[p] = Empty

\* No commit is lost and no failed call leaves a trace, whatever is stopped,
\* killed and started in between: the data directory holds the commits of all
\* processes, as if there were one Store for ever, and the process that holds
\* the lock serves just that.  A handler that outlives the deadline of its
\* process's shutdown is the exception: it writes what it remembers over what
\* the next process has committed.
OneStore ==
  ~ overran =>
    /\ disk = expected
    /\ \A p \in Procs : lock = p /\ phase[p] # "opening" => mem[p] = disk

\* An object has the body of one upload, every chunk of it, in order and once;
\* a copy has the body of one version of its source.
ObjectsAreWhole ==
  \A n \in DOMAIN disk : \E u \in 0..Len(uploads) : disk[n] = Whole(u)

\* A start ends in serving or with the lock released, and a shutdown with the
\* lock released, even when a client never finishes its request.
StartsAndStops ==
  \A p \in Procs :
    phase[p] \in {"opening", "seeding", "shutdown", "stopping"}
      ~> phase[p] \in {"serving", "closed", "down"}
=============================================================================
