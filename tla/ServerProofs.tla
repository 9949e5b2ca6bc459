----------------------------- MODULE ServerProofs -----------------------------
(***************************************************************************)
(* One data directory, whoever serves it: no commit of a process is lost   *)
(* to another, proved for every set of processes, clients and names and    *)
(* for any number of kills, failed starts, failed commits and shutdowns.   *)
(* What the handlers store (Whole, incomplete) plays no part in it.        *)
(* Then: an object never has part of an upload, whichever chunks, copies,  *)
(* commits and failures interleave, if no client announces a total whose   *)
(* digits begin with those of the length of a part.                        *)
(***************************************************************************)
EXTENDS Server, TLAPS, NaturalsInduction, WellFoundedInduction

Phases == {"down", "opening", "seeding", "serving", "shutdown", "stopping", "closed"}

(* The inductive invariant.                                                 *)

Shapes ==
  /\ phase \in [Procs -> Phases]
  /\ DOMAIN mem = Procs /\ DOMAIN sessions = Procs /\ DOMAIN handler = Clients
  /\ uploads \in Seq([chunks : Seq(Nat \ {0}), known : BOOLEAN])
  /\ overran \in BOOLEAN

\* The lock is held from the first step of a start to the end of Close.
Locking ==
  /\ lock \in Procs \cup {NoProc}
  /\ \A p \in Procs : (lock = p) <=> (phase[p] \notin {"down", "closed"})

\* A handler runs in a process that has served, the session of an upload lives
\* there too, and a process that is down holds nothing.
Running ==
  /\ \A c \in Clients : handler[c] # Idle =>
       /\ handler[c].proc \in Procs
       /\ phase[handler[c].proc] \in {"serving", "shutdown", "stopping", "closed"}
  /\ \A p \in Procs :
       /\ DOMAIN sessions[p] \subseteq 1..Len(uploads)
       /\ phase[p] \in {"down", "opening", "seeding"} => sessions[p] = Empty
       /\ phase[p] = "down" => mem[p] = Empty

\* Unless some shutdown was cut short, the handlers that are left belong to
\* the process that holds the lock.
HandlersAreLocked ==
  ~ overran => \A c \in Clients : handler[c] # Idle => handler[c].proc = lock

IInv == Shapes /\ Locking /\ Running /\ HandlersAreLocked /\ OneStore

-----------------------------------------------------------------------------
LEMMA InitInv == Init => IInv
<1> SUFFICES ASSUME Init PROVE IInv
  OBVIOUS
<1>1. Shapes
  <2>1. uploads \in Seq([chunks : Seq(Nat \ {0}), known : BOOLEAN])
    BY DEF Init
  <2> QED
    BY <2>1 DEF Init, Shapes, Phases
<1>2. Running
  BY DEF Init, Running, Empty
<1> QED
  BY <1>1, <1>2, ConstantAssumptions DEF Init, IInv, Locking, HandlersAreLocked, OneStore

-----------------------------------------------------------------------------
(* One lemma per action.                                                    *)

LEMMA acquireDataDirLockInv ==
  ASSUME NEW p \in Procs, IInv, acquireDataDirLock(p)
  PROVE  IInv'
<1> USE DEF acquireDataDirLock
<1>1. Shapes'
  BY DEF IInv, Shapes, Phases, Running
<1>2. Locking'
  BY ConstantAssumptions DEF IInv, Shapes, Phases, Locking
<1>3. Running'
  BY DEF IInv, Shapes, Phases, Locking, Running
<1>4. HandlersAreLocked'
  BY ConstantAssumptions DEF IInv, Shapes, Phases, Locking, Running, HandlersAreLocked
<1>5. OneStore'
  BY ConstantAssumptions DEF IInv, Shapes, Phases, Locking, Running, HandlersAreLocked, OneStore
<1> QED
  BY <1>1, <1>2, <1>3, <1>4, <1>5 DEF IInv

LEMMA OpenWithOptionsInv ==
  ASSUME NEW p \in Procs, IInv, OpenWithOptions(p)
  PROVE  IInv'
<1> USE DEF OpenWithOptions
<1>1. Shapes'
  BY DEF IInv, Shapes, Phases, Running
<1>2. Locking'
  BY ConstantAssumptions DEF IInv, Shapes, Phases, Locking
<1>3. Running'
  BY DEF IInv, Shapes, Phases, Locking, Running
<1>4. HandlersAreLocked'
  BY ConstantAssumptions DEF IInv, Shapes, Phases, Locking, Running, HandlersAreLocked
<1>5. OneStore'
  BY ConstantAssumptions DEF IInv, Shapes, Phases, Locking, Running, HandlersAreLocked, OneStore
<1> QED
  BY <1>1, <1>2, <1>3, <1>4, <1>5 DEF IInv

LEMMA SeedDemoInv ==
  ASSUME NEW p \in Procs, IInv, SeedDemo(p)
  PROVE  IInv'
<1> USE DEF SeedDemo, procVars, Bind, Unseeded
<1>1. Shapes'
  BY DEF IInv, Shapes, Phases, Running
<1>2. Locking'
  BY ConstantAssumptions DEF IInv, Shapes, Phases, Locking
<1>3. Running'
  BY DEF IInv, Shapes, Phases, Locking, Running
<1>4. HandlersAreLocked'
  BY ConstantAssumptions DEF IInv, Shapes, Phases, Locking, Running, HandlersAreLocked
<1>5. OneStore'
  BY ConstantAssumptions DEF IInv, Shapes, Phases, Locking, Running, HandlersAreLocked, OneStore
<1> QED
  BY <1>1, <1>2, <1>3, <1>4, <1>5 DEF IInv

LEMMA StartInv ==
  ASSUME NEW p \in Procs, IInv, Start(p)
  PROVE  IInv'
<1> USE DEF Start
<1>1. Shapes'
  BY DEF IInv, Shapes, Phases, Running
<1>2. Locking'
  BY ConstantAssumptions DEF IInv, Shapes, Phases, Locking
<1>3. Running'
  BY DEF IInv, Shapes, Phases, Locking, Running
<1>4. HandlersAreLocked'
  BY ConstantAssumptions DEF IInv, Shapes, Phases, Locking, Running, HandlersAreLocked
<1>5. OneStore'
  BY ConstantAssumptions DEF IInv, Shapes, Phases, Locking, Running, HandlersAreLocked, OneStore
<1> QED
  BY <1>1, <1>2, <1>3, <1>4, <1>5 DEF IInv

LEMMA StartFailsInv ==
  ASSUME NEW p \in Procs, IInv, StartFails(p)
  PROVE  IInv'
<1> USE DEF StartFails, Fault
<1>1. Shapes'
  BY DEF IInv, Shapes, Phases, Running
<1>2. Locking'
  BY ConstantAssumptions DEF IInv, Shapes, Phases, Locking
<1>3. Running'
  BY DEF IInv, Shapes, Phases, Locking, Running
<1>4. HandlersAreLocked'
  BY ConstantAssumptions DEF IInv, Shapes, Phases, Locking, Running, HandlersAreLocked
<1>5. OneStore'
  BY ConstantAssumptions DEF IInv, Shapes, Phases, Locking, Running, HandlersAreLocked, OneStore
<1> QED
  BY <1>1, <1>2, <1>3, <1>4, <1>5 DEF IInv

LEMMA runInv ==
  ASSUME NEW p \in Procs, IInv, run(p)
  PROVE  IInv'
<1> USE DEF run
<1>1. Shapes'
  BY DEF IInv, Shapes, Phases, Running
<1>2. Locking'
  BY ConstantAssumptions DEF IInv, Shapes, Phases, Locking
<1>3. Running'
  BY DEF IInv, Shapes, Phases, Locking, Running
<1>4. HandlersAreLocked'
  BY ConstantAssumptions DEF IInv, Shapes, Phases, Locking, Running, HandlersAreLocked
<1>5. OneStore'
  BY ConstantAssumptions DEF IInv, Shapes, Phases, Locking, Running, HandlersAreLocked, OneStore
<1> QED
  BY <1>1, <1>2, <1>3, <1>4, <1>5 DEF IInv

LEMMA ShutdownInv ==
  ASSUME NEW p \in Procs, IInv, Shutdown(p)
  PROVE  IInv'
<1> USE DEF Shutdown
<1>1. Shapes'
  BY DEF IInv, Shapes, Phases, Running
<1>2. Locking'
  BY ConstantAssumptions DEF IInv, Shapes, Phases, Locking
<1>3. Running'
  BY DEF IInv, Shapes, Phases, Locking, Running
<1>4. HandlersAreLocked'
  BY ConstantAssumptions DEF IInv, Shapes, Phases, Locking, Running, HandlersAreLocked
<1>5. OneStore'
  BY ConstantAssumptions DEF IInv, Shapes, Phases, Locking, Running, HandlersAreLocked, OneStore
<1> QED
  BY <1>1, <1>2, <1>3, <1>4, <1>5 DEF IInv

LEMMA CloseInv ==
  ASSUME NEW p \in Procs, IInv, Close(p)
  PROVE  IInv'
<1> USE DEF Close, Busy
<1>1. Shapes'
  BY DEF IInv, Shapes, Phases, Running
<1>2. Locking'
  BY ConstantAssumptions DEF IInv, Shapes, Phases, Locking
<1>3. Running'
  BY DEF IInv, Shapes, Phases, Locking, Running
<1>4. HandlersAreLocked'
  BY ConstantAssumptions DEF IInv, Shapes, Phases, Locking, Running, HandlersAreLocked
<1>5. OneStore'
  BY ConstantAssumptions DEF IInv, Shapes, Phases, Locking, Running, HandlersAreLocked, OneStore
<1> QED
  BY <1>1, <1>2, <1>3, <1>4, <1>5 DEF IInv

LEMMA mainInv ==
  ASSUME NEW p \in Procs, IInv, main(p)
  PROVE  IInv'
<1> USE DEF main, End, Busy
<1>1. Shapes'
  BY DEF IInv, Shapes, Phases, Running
<1>2. Locking'
  BY ConstantAssumptions DEF IInv, Shapes, Phases, Locking
<1>3. Running'
  <2>1. /\ phase' = [phase EXCEPT ![p] = "down"] /\ uploads' = uploads
        /\ mem' = [mem EXCEPT ![p] = Empty] /\ sessions' = [sessions EXCEPT ![p] = Empty]
    OBVIOUS
  <2>2. \A c \in Clients : handler'[c] # Idle =>
          handler'[c] = handler[c] /\ handler[c].proc # p
    OBVIOUS
  <2> HIDE DEF main, End
  <2>3. \A c \in Clients : handler'[c] # Idle =>
          /\ handler'[c].proc \in Procs
          /\ phase'[handler'[c].proc] \in {"serving", "shutdown", "stopping", "closed"}
    BY <2>1, <2>2 DEF IInv, Shapes, Running
  <2>4. DOMAIN Empty = {}
    BY DEF Empty
  <2> QED
    BY <2>1, <2>3, <2>4 DEF IInv, Shapes, Running
<1>4. HandlersAreLocked'
  BY ConstantAssumptions DEF IInv, Shapes, Phases, Locking, Running, HandlersAreLocked
<1>5. OneStore'
  BY ConstantAssumptions DEF IInv, Shapes, Phases, Locking, Running, HandlersAreLocked, OneStore
<1> QED
  BY <1>1, <1>2, <1>3, <1>4, <1>5 DEF IInv

LEMMA KillInv ==
  ASSUME NEW p \in Procs, IInv, Kill(p)
  PROVE  IInv'
<1> USE DEF Kill, Fault, End, Busy
<1>1. Shapes'
  BY DEF IInv, Shapes, Phases, Running
<1>2. Locking'
  BY ConstantAssumptions DEF IInv, Shapes, Phases, Locking
<1>3. Running'
  <2>1. /\ phase' = [phase EXCEPT ![p] = "down"] /\ uploads' = uploads
        /\ mem' = [mem EXCEPT ![p] = Empty] /\ sessions' = [sessions EXCEPT ![p] = Empty]
    OBVIOUS
  <2>2. \A c \in Clients : handler'[c] # Idle =>
          handler'[c] = handler[c] /\ handler[c].proc # p
    OBVIOUS
  <2> HIDE DEF Kill, End
  <2>3. \A c \in Clients : handler'[c] # Idle =>
          /\ handler'[c].proc \in Procs
          /\ phase'[handler'[c].proc] \in {"serving", "shutdown", "stopping", "closed"}
    BY <2>1, <2>2 DEF IInv, Shapes, Running
  <2>4. DOMAIN Empty = {}
    BY DEF Empty
  <2> QED
    BY <2>1, <2>3, <2>4 DEF IInv, Shapes, Running
<1>4. HandlersAreLocked'
  BY ConstantAssumptions DEF IInv, Shapes, Phases, Locking, Running, HandlersAreLocked
<1>5. OneStore'
  BY ConstantAssumptions DEF IInv, Shapes, Phases, Locking, Running, HandlersAreLocked, OneStore
<1> QED
  BY <1>1, <1>2, <1>3, <1>4, <1>5 DEF IInv

LEMMA putObjectInv ==
  ASSUME NEW p \in Procs, NEW c \in Clients, NEW n \in Names, IInv, putObject(p, c, n)
  PROVE  IInv'
<1> USE DEF putObject, Accepts, Accept, NewUpload, Serve, procVars, Write
<1>1. Shapes'
  BY DEF IInv, Shapes, Phases, Running
<1>2. Locking'
  BY ConstantAssumptions DEF IInv, Shapes, Phases, Locking
<1>3. Running'
  BY DEF IInv, Shapes, Phases, Locking, Running
<1>4. HandlersAreLocked'
  BY ConstantAssumptions DEF IInv, Shapes, Phases, Locking, Running, HandlersAreLocked
<1>5. OneStore'
  BY ConstantAssumptions DEF IInv, Shapes, Phases, Locking, Running, HandlersAreLocked, OneStore
<1> QED
  BY <1>1, <1>2, <1>3, <1>4, <1>5 DEF IInv

LEMMA grpcWriteInv ==
  ASSUME NEW p \in Procs, NEW c \in Clients, NEW n \in Names, IInv, grpcWrite(p, c, n)
  PROVE  IInv'
<1> USE DEF grpcWrite, Accepts, Accept, Serve, procVars, Write
<1>1. Shapes'
  BY DEF IInv, Shapes, Phases, Running
<1>2. Locking'
  BY ConstantAssumptions DEF IInv, Shapes, Phases, Locking
<1>3. Running'
  BY DEF IInv, Shapes, Phases, Locking, Running
<1>4. HandlersAreLocked'
  BY ConstantAssumptions DEF IInv, Shapes, Phases, Locking, Running, HandlersAreLocked
<1>5. OneStore'
  BY ConstantAssumptions DEF IInv, Shapes, Phases, Locking, Running, HandlersAreLocked, OneStore
<1> QED
  BY <1>1, <1>2, <1>3, <1>4, <1>5 DEF IInv

LEMMA copyObjectInv ==
  ASSUME NEW p \in Procs, NEW c \in Clients, NEW n \in Names, NEW source \in Names, IInv, copyObject(p, c, source, n)
  PROVE  IInv'
<1> USE DEF copyObject, Accepts, Accept, Serve, procVars, Write
<1>1. Shapes'
  BY DEF IInv, Shapes, Phases, Running
<1>2. Locking'
  BY ConstantAssumptions DEF IInv, Shapes, Phases, Locking
<1>3. Running'
  BY DEF IInv, Shapes, Phases, Locking, Running
<1>4. HandlersAreLocked'
  BY ConstantAssumptions DEF IInv, Shapes, Phases, Locking, Running, HandlersAreLocked
<1>5. OneStore'
  BY ConstantAssumptions DEF IInv, Shapes, Phases, Locking, Running, HandlersAreLocked, OneStore
<1> QED
  BY <1>1, <1>2, <1>3, <1>4, <1>5 DEF IInv

LEMMA deleteObjectInv ==
  ASSUME NEW p \in Procs, NEW c \in Clients, NEW n \in Names, IInv, deleteObject(p, c, n)
  PROVE  IInv'
<1> USE DEF deleteObject, Accepts, Accept, Serve, procVars
<1>1. Shapes'
  BY DEF IInv, Shapes, Phases, Running
<1>2. Locking'
  BY ConstantAssumptions DEF IInv, Shapes, Phases, Locking
<1>3. Running'
  BY DEF IInv, Shapes, Phases, Locking, Running
<1>4. HandlersAreLocked'
  BY ConstantAssumptions DEF IInv, Shapes, Phases, Locking, Running, HandlersAreLocked
<1>5. OneStore'
  BY ConstantAssumptions DEF IInv, Shapes, Phases, Locking, Running, HandlersAreLocked, OneStore
<1> QED
  BY <1>1, <1>2, <1>3, <1>4, <1>5 DEF IInv

LEMMA handleGCSUploadInv ==
  ASSUME NEW p \in Procs, NEW c \in Clients, NEW n \in Names, NEW plan \in Plans, IInv, handleGCSUpload(p, c, n, plan)
  PROVE  IInv'
<1> USE DEF handleGCSUpload, Accepts, NewUpload, Serve, procVars, Bind
<1>1. Shapes'
  BY ConstantAssumptions DEF IInv, Shapes, Phases, Running
<1>2. Locking'
  BY ConstantAssumptions DEF IInv, Shapes, Phases, Locking
<1>3. Running'
  BY DEF IInv, Shapes, Phases, Locking, Running
<1>4. HandlersAreLocked'
  BY ConstantAssumptions DEF IInv, Shapes, Phases, Locking, Running, HandlersAreLocked
<1>5. OneStore'
  BY ConstantAssumptions DEF IInv, Shapes, Phases, Locking, Running, HandlersAreLocked, OneStore
<1> QED
  BY <1>1, <1>2, <1>3, <1>4, <1>5 DEF IInv

LEMMA handleGCSResumableChunkInv ==
  ASSUME NEW p \in Procs, NEW c \in Clients, NEW u, NEW i, IInv, handleGCSResumableChunk(p, c, u, i)
  PROVE  IInv'
<1> USE DEF handleGCSResumableChunk, Accepts, Accept, Serve, procVars
<1>1. Shapes'
  BY DEF IInv, Shapes, Phases, Running
<1>2. Locking'
  BY ConstantAssumptions DEF IInv, Shapes, Phases, Locking
<1>3. Running'
  BY DEF IInv, Shapes, Phases, Locking, Running
<1>4. HandlersAreLocked'
  BY ConstantAssumptions DEF IInv, Shapes, Phases, Locking, Running, HandlersAreLocked
<1>5. OneStore'
  BY ConstantAssumptions DEF IInv, Shapes, Phases, Locking, Running, HandlersAreLocked, OneStore
<1> QED
  BY <1>1, <1>2, <1>3, <1>4, <1>5 DEF IInv

LEMMA AppendChunkInv ==
  ASSUME NEW c \in Clients, IInv, AppendChunk(c)
  PROVE  IInv'
<1> USE DEF AppendChunk, Serve, procVars, Write
<1>1. Shapes'
  BY DEF IInv, Shapes, Phases, Running
<1>2. Locking'
  BY ConstantAssumptions DEF IInv, Shapes, Phases, Locking
<1>3. Running'
  <2> DEFINE h == handler[c]
  <2>1. h.proc \in Procs /\ phase[h.proc] \in {"serving", "shutdown", "stopping", "closed"}
    BY DEF IInv, Running
  <2>2. handler'[c] # Idle => handler'[c].proc = h.proc
    BY DEF IInv, Shapes
  <2>3. \A d \in Clients : d # c => handler'[d] = handler[d]
    BY DEF IInv, Shapes
  <2>4. \A q \in Procs : /\ DOMAIN sessions'[q] = DOMAIN sessions[q]
                         /\ q # h.proc => sessions'[q] = sessions[q]
    BY DEF IInv, Shapes
  <2>5. phase' = phase /\ uploads' = uploads /\ mem' = mem /\ h # Idle
    OBVIOUS
  <2> HIDE DEF AppendChunk, h
  <2> QED
    BY <2>1, <2>2, <2>3, <2>4, <2>5 DEF IInv, Running
<1>4. HandlersAreLocked'
  BY ConstantAssumptions DEF IInv, Shapes, Phases, Locking, Running, HandlersAreLocked
<1>5. OneStore'
  BY ConstantAssumptions DEF IInv, Shapes, Phases, Locking, Running, HandlersAreLocked, OneStore
<1> QED
  BY <1>1, <1>2, <1>3, <1>4, <1>5 DEF IInv

LEMMA CommitInv ==
  ASSUME NEW c \in Clients, IInv, Commit(c)
  PROVE  IInv'
<1> USE DEF Commit, Answer, Serve, procVars, Without
<1>1. Shapes'
  BY DEF IInv, Shapes, Phases, Running
<1>2. Locking'
  BY ConstantAssumptions DEF IInv, Shapes, Phases, Locking
<1>3. Running'
  BY DEF IInv, Shapes, Phases, Locking, Running
<1>4. HandlersAreLocked'
  BY ConstantAssumptions DEF IInv, Shapes, Phases, Locking, Running, HandlersAreLocked
<1>5. OneStore'
  BY ConstantAssumptions DEF IInv, Shapes, Phases, Locking, Running, HandlersAreLocked, OneStore
<1> QED
  BY <1>1, <1>2, <1>3, <1>4, <1>5 DEF IInv

LEMMA CommitFailsInv ==
  ASSUME NEW c \in Clients, IInv, CommitFails(c)
  PROVE  IInv'
<1> USE DEF CommitFails, Answer, Fault, procVars
<1>1. Shapes'
  BY DEF IInv, Shapes, Phases, Running
<1>2. Locking'
  BY ConstantAssumptions DEF IInv, Shapes, Phases, Locking
<1>3. Running'
  BY DEF IInv, Shapes, Phases, Locking, Running
<1>4. HandlersAreLocked'
  BY ConstantAssumptions DEF IInv, Shapes, Phases, Locking, Running, HandlersAreLocked
<1>5. OneStore'
  BY ConstantAssumptions DEF IInv, Shapes, Phases, Locking, Running, HandlersAreLocked, OneStore
<1> QED
  BY <1>1, <1>2, <1>3, <1>4, <1>5 DEF IInv

-----------------------------------------------------------------------------
LEMMA StepInv == IInv /\ [Next]_vars => IInv'
<1> SUFFICES ASSUME IInv, [Next]_vars PROVE IInv'
  OBVIOUS
<1>1. ASSUME NEW p \in Procs, NEW c \in Clients, Requests(p, c) PROVE IInv'
  BY <1>1, putObjectInv, grpcWriteInv, copyObjectInv, deleteObjectInv, handleGCSUploadInv,
     handleGCSResumableChunkInv DEF Requests
<1>2. ASSUME NEW p \in Procs, Lifecycle(p) PROVE IInv'
  BY <1>2, OpenWithOptionsInv, SeedDemoInv, StartInv, ShutdownInv, CloseInv, mainInv DEF Lifecycle
<1>3. CASE UNCHANGED vars
  BY <1>3 DEF IInv, vars, procVars, Shapes, Locking, Running, HandlersAreLocked, OneStore
<1> QED
  BY <1>1, <1>2, <1>3, acquireDataDirLockInv, runInv, StartFailsInv, KillInv, AppendChunkInv,
     CommitInv, CommitFailsInv DEF Next

LEMMA Invariance == Spec => []IInv
BY InitInv, StepInv, PTL DEF Spec

-----------------------------------------------------------------------------
(* What the handlers store.                                                 *)

\* The first n bytes of upload u.
Piece(u, n) == [j \in 1..n |-> <<u, j>>]

\* body is the body of an upload of ups, or of the profile.
IsWhole(ups, body) ==
  \E u \in 0..Len(ups) :
    body = Piece(u, IF u = 0 THEN 1 ELSE Sent(ups[u].chunks, Len(ups[u].chunks)))

\* body is what the first chunks of upload u hold.
IsPart(ups, u, body) ==
  \E k \in 0..Len(ups[u].chunks) : body = Piece(u, Sent(ups[u].chunks, k))

\* A client that announces the total from the start has no chunk but the last
\* after which the digits of the length begin those of the total.
IsClear(plan) ==
  plan.known =>
    \A i \in DOMAIN plan.chunks :
      RangeMatches(Sent(plan.chunks, Len(plan.chunks)), Sent(plan.chunks, i)) => i = Len(plan.chunks)

PlansAreClear == \A plan \in Plans : IsClear(plan)

(* The inductive invariant, on top of IInv.                                 *)

PlansOk == \A u \in 1..Len(uploads) : IsClear(uploads[u])

ObjectsOk ==
  /\ \A n \in DOMAIN disk : IsWhole(uploads, disk[n])
  /\ \A p \in Procs : \A n \in DOMAIN mem[p] : IsWhole(uploads, mem[p][n])

\* A session has received some first chunks of its upload.
IsSession(ups, u, s) ==
  /\ s = [name |-> s.name, client |-> s.client, body |-> s.body]
  /\ IsPart(ups, u, s.body)

SessionsOk ==
  \A p \in Procs : \A u \in DOMAIN sessions[p] : IsSession(uploads, u, sessions[p][u])

\* A handler that will write holds a whole body.  Only the client of a session
\* has a handler for it, and the chunk that one waits for is the next.
IsHandler(ups, mine, c, h) ==
  /\ h.upload \in 0..Len(ups)
  /\ h.op = "write" => IsWhole(ups, h.body)
  /\ h.upload \in DOMAIN mine => mine[h.upload].client = c
  /\ h.op = "chunk" => /\ h.upload \in DOMAIN mine
                       /\ IsPart(ups, h.upload, mine[h.upload].body \o h.body)

HandlersOk ==
  \A c \in Clients : handler[c] # Idle =>
    IsHandler(uploads, sessions[handler[c].proc], c, handler[c])

Bodies == PlansOk /\ ObjectsOk /\ SessionsOk /\ HandlersOk

LEMMA SetInduction ==
  ASSUME NEW S, 0 \in S, \A n \in Nat : n \in S => n + 1 \in S
  PROVE  \A n \in Nat : n \in S
<1> SUFFICES ASSUME NEW m \in Nat, m \notin S PROVE FALSE
  OBVIOUS
<1> DEFINE T == Nat \ S
           R == {ss \in Nat \X Nat : ss[1] < ss[2]}
<1>1. IsWellFoundedOn(R, Nat)
  BY NatLessThanWellFounded, Zenon DEF OpToRel
<1>2. T \subseteq Nat /\ T # {}
  OBVIOUS
<1>3. PICK x \in T : \A y \in T : ~(<<y, x>> \in R)
  <2> HIDE DEF R, T
  <2> QED
    BY <1>1, <1>2, WFMin, Zenon
<1>4. \A y \in T : ~(y < x)
  BY <1>3
<1>5. x # 0 /\ x \in Nat /\ x \notin S
  OBVIOUS
<1>6. x - 1 \in Nat /\ x - 1 < x /\ (x - 1) + 1 = x
  BY <1>5
<1>7. x - 1 \notin T
  BY <1>4, <1>6
<1>8. x - 1 \in S
  BY <1>6, <1>7
<1> QED
  BY <1>5, <1>6, <1>8

\* The sum of the chunks, chunk by chunk.
LEMMA SentSteps ==
  ASSUME NEW chunks \in Seq(Nat \ {0})
  PROVE  /\ Sent(chunks, 0) = 0
         /\ \A i \in 1..Len(chunks) : Sent(chunks, i) = Sent(chunks, i - 1) + chunks[i]
<1> DEFINE R(f, m) == f = [n \in 0..m |-> IF n = 0 THEN 0 ELSE f[n - 1] + chunks[n]]
           S == {m \in Nat : \E f : R(f, m)}
           len == Len(chunks)
           h == CHOOSE f : R(f, len)
<1>0. \A n : Sent(chunks, n) = h[n]
  BY DEF Sent
<1>1. 0 \in S
  <2>1. R([n \in 0..0 |-> 0], 0)
    OBVIOUS
  <2> QED
    BY <2>1
<1>2. ASSUME NEW m \in Nat, m \in S PROVE m + 1 \in S
  <2>1. PICK f : R(f, m)
    BY <1>2
  <2> DEFINE g == [n \in 0..(m + 1) |-> IF n = m + 1 THEN f[m] + chunks[m + 1] ELSE f[n]]
  <2>2. \A n \in 0..m : f[n] = IF n = 0 THEN 0 ELSE f[n - 1] + chunks[n]
    BY <2>1
  <2>3. \A n \in 0..m : g[n] = f[n]
    OBVIOUS
  <2>4. g[m + 1] = g[m] + chunks[m + 1]
    OBVIOUS
  <2>5. g = [n \in 0..(m + 1) |-> g[n]]
    OBVIOUS
  <2> HIDE DEF g
  <2>6. \A n \in 0..(m + 1) : g[n] = IF n = 0 THEN 0 ELSE g[n - 1] + chunks[n]
    <3> TAKE n \in 0..(m + 1)
    <3>1. CASE n = m + 1
      BY <2>4, <3>1
    <3>2. CASE n = 0
      BY <2>2, <2>3, <3>2
    <3>3. CASE n \in 1..m
      <4>1. n \in 0..m /\ n - 1 \in 0..m /\ n # 0
        BY <3>3
      <4> QED
        BY <2>2, <2>3, <4>1
    <3> QED
      BY <3>1, <3>2, <3>3
  <2>7. R(g, m + 1)
    BY <2>5, <2>6
  <2> HIDE DEF R
  <2> QED
    BY <2>7
<1>3. len \in S
  <2>1. len \in Nat
    OBVIOUS
  <2> HIDE DEF S, len
  <2> QED
    BY <1>1, <1>2, <2>1, SetInduction
<1>4. R(h, len)
  BY <1>3
<1> HIDE DEF h
<1>5. \A n \in 0..len : h[n] = IF n = 0 THEN 0 ELSE h[n - 1] + chunks[n]
  BY <1>4
<1>6. len \in Nat /\ 0 \in 0..len /\ \A n \in 1..len : n \in 0..len /\ n # 0
  OBVIOUS
<1> QED
  BY <1>0, <1>5, <1>6

LEMMA SentIsNat ==
  ASSUME NEW chunks \in Seq(Nat \ {0})
  PROVE  \A i \in 0..Len(chunks) : Sent(chunks, i) \in Nat
<1> DEFINE S == {m \in Nat : m <= Len(chunks) => Sent(chunks, m) \in Nat}
<1>1. 0 \in S
  BY SentSteps
<1>2. ASSUME NEW m \in Nat, m \in S PROVE m + 1 \in S
  <2> SUFFICES ASSUME m + 1 <= Len(chunks) PROVE Sent(chunks, m + 1) \in Nat
    OBVIOUS
  <2>1. m + 1 \in 1..Len(chunks) /\ (m + 1) - 1 = m /\ chunks[m + 1] \in Nat /\ m <= Len(chunks)
    OBVIOUS
  <2>2. Sent(chunks, m + 1) = Sent(chunks, m) + chunks[m + 1]
    BY <2>1, SentSteps
  <2>3. Sent(chunks, m) \in Nat
    BY <1>2, <2>1
  <2> QED
    BY <2>1, <2>2, <2>3
<1>3. \A m \in Nat : m \in S
  <2> HIDE DEF S
  <2> QED
    BY <1>1, <1>2, SetInduction
<1> QED
  BY <1>3

LEMMA ConcatFacts ==
  ASSUME NEW A, NEW s \in Seq(A), NEW t \in Seq(A)
  PROVE  /\ s \o t \in Seq(A) /\ Len(s \o t) = Len(s) + Len(t)
         /\ \A j \in 1..(Len(s) + Len(t)) :
              (s \o t)[j] = IF j <= Len(s) THEN s[j] ELSE t[j - Len(s)]
OBVIOUS

LEMMA PieceFacts ==
  ASSUME NEW u, NEW n \in Nat
  PROVE  /\ Len(Piece(u, n)) = n
         /\ \A m \in Nat : Piece(u, n) \o [j \in 1..m |-> <<u, n + j>>] = Piece(u, n + m)
<1>1. Piece(u, n) \in Seq({<<u, j>> : j \in Nat}) /\ Len(Piece(u, n)) = n
  BY DEF Piece
<1>2. ASSUME NEW m \in Nat PROVE Piece(u, n) \o [j \in 1..m |-> <<u, n + j>>] = Piece(u, n + m)
  <2> DEFINE more == [j \in 1..m |-> <<u, n + j>>]
             all == Piece(u, n) \o more
  <2>0. \A j \in 1..m : more[j] = <<u, n + j>>
    OBVIOUS
  <2>1. more \in Seq({<<u, j>> : j \in Nat}) /\ Len(more) = m
    OBVIOUS
  <2>2. all \in Seq({<<u, j>> : j \in Nat}) /\ Len(all) = n + m
    <3> HIDE DEF more
    <3> QED
      BY <1>1, <2>1, ConcatFacts
  <2>3. all = [j \in 1..(n + m) |-> all[j]]
    BY <2>2
  <2> HIDE DEF more
  <2>6. \A j \in 1..(Len(Piece(u, n)) + Len(more)) :
          all[j] = IF j <= Len(Piece(u, n)) THEN Piece(u, n)[j] ELSE more[j - Len(Piece(u, n))]
    BY <1>1, <2>1, ConcatFacts
  <2>4. ASSUME NEW j \in 1..(n + m) PROVE all[j] = <<u, j>>
    <3>0. all[j] = IF j <= n THEN Piece(u, n)[j] ELSE more[j - n]
      BY <1>1, <2>1, <2>6
    <3>1. CASE j <= n
      <4>1. all[j] = Piece(u, n)[j]
        BY <3>0, <3>1
      <4> QED
        BY <3>1, <4>1 DEF Piece
    <3>2. CASE ~ (j <= n)
      <4>1. all[j] = more[j - n]
        BY <3>0, <3>2
      <4>2. j - n \in 1..m /\ n + (j - n) = j
        BY <3>2
      <4> QED
        BY <2>0, <4>1, <4>2
    <3> QED
      BY <3>1, <3>2
  <2> HIDE DEF all
  <2>5. all = [j \in 1..(n + m) |-> <<u, j>>]
    BY <2>3, <2>4
  <2> QED
    BY <2>5 DEF Piece, all, more
<1> QED
  BY <1>1, <1>2

PlanSet == [chunks : Seq(Nat \ {0}), known : BOOLEAN]

\* One more upload changes nothing for the others.
LEMMA Growth ==
  ASSUME NEW ups \in Seq(PlanSet), NEW plan \in PlanSet
  PROVE  /\ Len(Append(ups, plan)) = Len(ups) + 1 /\ Append(ups, plan)[Len(ups) + 1] = plan
         /\ \A u \in 1..Len(ups) : Append(ups, plan)[u] = ups[u]
         /\ \A body : IsWhole(ups, body) => IsWhole(Append(ups, plan), body)
         /\ \A u \in 1..Len(ups) : \A body : IsPart(ups, u, body) => IsPart(Append(ups, plan), u, body)
<1> HIDE DEF PlanSet
<1>0. PICK more : more = Append(ups, plan)
  OBVIOUS
<1>1. /\ Len(more) = Len(ups) + 1 /\ more[Len(ups) + 1] = plan /\ Len(ups) \in Nat
      /\ \A u \in 1..Len(ups) : more[u] = ups[u]
  BY <1>0
<1>2. \A u \in 0..Len(ups) : u \in 0..Len(more) /\ (u # 0 => u \in 1..Len(ups))
  BY <1>1
<1>3. \A body : IsWhole(ups, body) => IsWhole(more, body)
  BY <1>1, <1>2 DEF IsWhole
<1>4. \A u \in 1..Len(ups) : \A body : IsPart(ups, u, body) => IsPart(more, u, body)
  BY <1>1 DEF IsPart
<1> QED
  BY <1>0, <1>1, <1>3, <1>4

-----------------------------------------------------------------------------
(* What the steps have in common.                                           *)

LEMMA BodiesInit == Init => Bodies
<1> SUFFICES ASSUME Init PROVE Bodies
  OBVIOUS
<1>1. Len(uploads) = 0 /\ DOMAIN Empty = {}
  BY DEF Init, Empty
<1> QED
  BY <1>1 DEF Init, Bodies, PlansOk, ObjectsOk, SessionsOk, HandlersOk

\* A step of a process that leaves the requests alone.
LEMMA RequestsKept ==
  ASSUME Bodies, UNCHANGED <<uploads, sessions, handler>>, ObjectsOk'
  PROVE  Bodies'
BY DEF Bodies, PlansOk, SessionsOk, HandlersOk

\* A step that only begins or answers a request.
LEMMA OneHandler ==
  ASSUME IInv, Bodies, NEW c \in Clients, NEW h, UNCHANGED <<disk, mem, sessions, uploads>>,
         handler' = [handler EXCEPT ![c] = h],
         h # Idle => IsHandler(uploads, sessions[h.proc], c, h)
  PROVE  Bodies'
<1>1. PlansOk' /\ ObjectsOk' /\ SessionsOk'
  BY DEF Bodies, PlansOk, ObjectsOk, SessionsOk
<1>2. HandlersOk'
  <2>1. handler'[c] = h /\ \A d \in Clients : d # c => handler'[d] = handler[d]
    BY DEF IInv, Shapes
  <2> SUFFICES ASSUME NEW d \in Clients, handler'[d] # Idle
               PROVE  IsHandler(uploads, sessions[handler'[d].proc], d, handler'[d])
    BY DEF HandlersOk
  <2>2. CASE d = c
    BY <2>1, <2>2
  <2>3. CASE d # c
    BY <2>1, <2>3 DEF Bodies, HandlersOk
  <2> QED
    BY <2>2, <2>3
<1> QED
  BY <1>1, <1>2 DEF Bodies

\* A step that begins an upload.
LEMMA OnePlan ==
  ASSUME IInv, Bodies, NEW plan \in PlanSet, IsClear(plan), uploads' = Append(uploads, plan),
         UNCHANGED <<disk, mem>>
  PROVE  /\ PlansOk' /\ ObjectsOk' /\ Len(uploads') = Len(uploads) + 1
         /\ uploads'[Len(uploads) + 1] = plan
         /\ \A p \in Procs : \A u \in DOMAIN sessions[p] : IsSession(uploads', u, sessions[p][u])
         /\ \A c \in Clients : handler[c] # Idle =>
              IsHandler(uploads', sessions[handler[c].proc], c, handler[c])
<1>1. uploads \in Seq(PlanSet)
  BY DEF IInv, Shapes, PlanSet
<1>2. /\ Len(uploads') = Len(uploads) + 1 /\ uploads'[Len(uploads) + 1] = plan
      /\ \A u \in 1..Len(uploads) : uploads'[u] = uploads[u]
      /\ \A body : IsWhole(uploads, body) => IsWhole(uploads', body)
      /\ \A u \in 1..Len(uploads) : \A body : IsPart(uploads, u, body) => IsPart(uploads', u, body)
  BY <1>1, Growth
<1>3. Len(uploads) \in Nat
  BY <1>1
<1>4. PlansOk'
  <2> SUFFICES ASSUME NEW u \in 1..(Len(uploads) + 1) PROVE IsClear(uploads'[u])
    BY <1>2 DEF PlansOk
  <2>1. u = Len(uploads) + 1 \/ u \in 1..Len(uploads)
    BY <1>3
  <2> QED
    BY <1>2, <2>1 DEF Bodies, PlansOk
<1>5. ObjectsOk'
  BY <1>2 DEF Bodies, ObjectsOk
<1>6. ASSUME NEW p \in Procs, NEW u \in DOMAIN sessions[p]
      PROVE  IsSession(uploads', u, sessions[p][u])
  <2>1. u \in 1..Len(uploads)
    BY DEF IInv, Running
  <2> QED
    BY <1>2, <2>1 DEF Bodies, SessionsOk, IsSession
<1>7. ASSUME NEW c \in Clients, handler[c] # Idle
      PROVE  IsHandler(uploads', sessions[handler[c].proc], c, handler[c])
  <2> DEFINE h == handler[c]
             mine == sessions[h.proc]
  <2>1. IsHandler(uploads, mine, c, h)
    BY <1>7 DEF Bodies, HandlersOk
  <2>2. DOMAIN mine \subseteq 1..Len(uploads)
    BY <1>7 DEF IInv, Running
  <2> HIDE DEF h, mine
  <2>3. IsHandler(uploads', mine, c, h)
    BY <1>2, <1>3, <2>1, <2>2 DEF IsHandler
  <2> QED
    BY <2>3 DEF h, mine
<1> QED
  BY <1>2, <1>4, <1>5, <1>6, <1>7

LEMMA ProfileIsWhole == IInv => IsWhole(uploads, Whole(0))
<1> SUFFICES ASSUME IInv PROVE IsWhole(uploads, Whole(0))
  OBVIOUS
<1>1. 0 \in 0..Len(uploads)
  BY DEF IInv, Shapes
<1>2. Whole(0) = Piece(0, 1)
  BY DEF Whole, Piece
<1> QED
  BY <1>1, <1>2 DEF IsWhole

\* The objects after a step that leaves the uploads and puts whole bodies.
LEMMA BoundIsWhole ==
  ASSUME NEW ups, NEW f, \A n \in DOMAIN f : IsWhole(ups, f[n]), NEW x, NEW body
  PROVE  /\ IsWhole(ups, body) => \A n \in DOMAIN Bind(f, x, body) : IsWhole(ups, Bind(f, x, body)[n])
         /\ \A n \in DOMAIN Without(f, x) : IsWhole(ups, Without(f, x)[n])
BY DEF Bind, Without

-----------------------------------------------------------------------------
(* One lemma per action that changes what is held.                          *)

LEMMA LifecycleBodies ==
  ASSUME NEW p \in Procs, IInv, Bodies,
         \/ acquireDataDirLock(p) \/ run(p) \/ OpenWithOptions(p) \/ Start(p)
         \/ Shutdown(p) \/ Close(p) \/ StartFails(p)
  PROVE  Bodies'
<1>1. UNCHANGED <<uploads, sessions, handler, disk>>
  BY DEF acquireDataDirLock, run, OpenWithOptions, Start, Shutdown, Close, StartFails
<1>2. mem' = mem \/ mem' = [mem EXCEPT ![p] = disk] \/ mem' = [mem EXCEPT ![p] = Empty]
  BY DEF acquireDataDirLock, run, OpenWithOptions, Start, Shutdown, Close, StartFails
<1>3. DOMAIN Empty = {}
  BY DEF Empty
<1>4. ObjectsOk'
  BY <1>1, <1>2, <1>3 DEF Bodies, ObjectsOk, IInv, Shapes
<1> QED
  BY <1>1, <1>4, RequestsKept

LEMMA SeedDemoBodies ==
  ASSUME NEW p \in Procs, IInv, Bodies, SeedDemo(p)
  PROVE  Bodies'
<1>1. UNCHANGED <<uploads, sessions, handler>>
  BY DEF SeedDemo
<1>2. PICK n : /\ mem' = [mem EXCEPT ![p] = Bind(mem[p], n, Whole(0))]
               /\ disk' = mem'[p]
  BY DEF SeedDemo
<1>3. \A m \in DOMAIN Bind(mem[p], n, Whole(0)) : IsWhole(uploads, Bind(mem[p], n, Whole(0))[m])
  BY ProfileIsWhole, BoundIsWhole DEF Bodies, ObjectsOk
<1>4. ObjectsOk'
  BY <1>1, <1>2, <1>3 DEF Bodies, ObjectsOk, IInv, Shapes
<1> QED
  BY <1>1, <1>4, RequestsKept

\* What a process held is gone with it, and its handlers are.
LEMMA EndBodies ==
  ASSUME NEW p \in Procs, IInv, Bodies, End(p)
  PROVE  Bodies'
<1>1. /\ UNCHANGED <<disk, uploads>>
      /\ mem' = [mem EXCEPT ![p] = Empty] /\ sessions' = [sessions EXCEPT ![p] = Empty]
  BY DEF End
<1>2. \A c \in Clients : handler'[c] # Idle => handler'[c] = handler[c] /\ handler[c].proc # p
  BY DEF End, Busy
<1>3. DOMAIN Empty = {}
  BY DEF Empty
<1>4. PlansOk' /\ ObjectsOk' /\ SessionsOk'
  BY <1>1, <1>3 DEF Bodies, PlansOk, ObjectsOk, SessionsOk, IInv, Shapes
<1>5. HandlersOk'
  <2> SUFFICES ASSUME NEW c \in Clients, handler'[c] # Idle
               PROVE  IsHandler(uploads, sessions'[handler'[c].proc], c, handler'[c])
    BY <1>1 DEF HandlersOk
  <2>1. handler'[c] = handler[c] /\ handler[c].proc # p /\ handler[c].proc \in Procs
    BY <1>2 DEF IInv, Running
  <2>2. sessions'[handler[c].proc] = sessions[handler[c].proc]
    BY <1>1, <2>1 DEF IInv, Shapes
  <2> QED
    BY <2>1, <2>2 DEF Bodies, HandlersOk
<1> QED
  BY <1>4, <1>5 DEF Bodies

LEMMA putObjectBodies ==
  ASSUME NEW p \in Procs, NEW c \in Clients, NEW n \in Names, IInv, Bodies, putObject(p, c, n)
  PROVE  Bodies'
<1> DEFINE plan == [chunks |-> <<1>>, known |-> TRUE]
           new == Len(uploads) + 1
           h == Write(p, n, <<<<new, 1>>>>, 0)
<1>1. /\ uploads' = Append(uploads, plan) /\ handler' = [handler EXCEPT ![c] = h]
      /\ UNCHANGED <<disk, mem, sessions>>
  BY DEF putObject, NewUpload, Accept
<1>2. plan \in PlanSet /\ IsClear(plan)
  BY DEF PlanSet, IsClear
<1>3. /\ PlansOk' /\ ObjectsOk' /\ Len(uploads') = new /\ uploads'[new] = plan
      /\ \A q \in Procs : \A u \in DOMAIN sessions[q] : IsSession(uploads', u, sessions[q][u])
      /\ \A d \in Clients : handler[d] # Idle =>
           IsHandler(uploads', sessions[handler[d].proc], d, handler[d])
  <2> HIDE DEF plan
  <2> QED
    BY <1>1, <1>2, OnePlan
<1>4. SessionsOk'
  BY <1>1, <1>3 DEF SessionsOk
<1>5. Len(uploads) \in Nat /\ DOMAIN sessions[p] \subseteq 1..Len(uploads)
  BY DEF IInv, Shapes, Running
<1>6. Sent(<<1>>, 1) = 1
  <2>1. <<1>> \in Seq(Nat \ {0}) /\ Len(<<1>>) = 1 /\ <<1>>[1] = 1
    OBVIOUS
  <2>2. 1 \in 1..Len(<<1>>) /\ 1 - 1 = 0
    BY <2>1
  <2>3. Sent(<<1>>, 0) = 0 /\ Sent(<<1>>, 1) = Sent(<<1>>, 0) + <<1>>[1]
    BY <2>1, <2>2, SentSteps
  <2> QED
    BY <2>1, <2>3
<1>7. IsWhole(uploads', <<<<new, 1>>>>)
  <2>1. <<<<new, 1>>>> = Piece(new, 1)
    BY DEF Piece
  <2>2. new \in 0..Len(uploads') /\ new # 0
    BY <1>3, <1>5
  <2>3. uploads'[new].chunks = <<1>> /\ Len(<<1>>) = 1
    BY <1>3
  <2> HIDE DEF new
  <2> QED
    BY <1>6, <2>1, <2>2, <2>3 DEF IsWhole
<1>8. IsHandler(uploads', sessions[h.proc], c, h)
  <2>1. h.proc = p /\ h.upload = 0 /\ h.op = "write" /\ h.body = <<<<new, 1>>>>
    BY DEF Write
  <2>2. 0 \notin DOMAIN sessions[p] /\ 0 \in 0..Len(uploads')
    BY <1>3, <1>5
  <2> HIDE DEF h, new
  <2> QED
    BY <1>7, <2>1, <2>2 DEF IsHandler
<1>9. HandlersOk'
  <2>1. handler'[c] = h /\ \A d \in Clients : d # c => handler'[d] = handler[d]
    BY <1>1 DEF IInv, Shapes
  <2> HIDE DEF h, new, plan
  <2> SUFFICES ASSUME NEW d \in Clients, handler'[d] # Idle
               PROVE  IsHandler(uploads', sessions[handler'[d].proc], d, handler'[d])
    BY <1>1 DEF HandlersOk
  <2>2. CASE d = c
    BY <1>8, <2>1, <2>2
  <2>3. CASE d # c
    BY <1>3, <2>1, <2>3
  <2> QED
    BY <2>2, <2>3
<1> QED
  BY <1>3, <1>4, <1>9 DEF Bodies

LEMMA grpcWriteBodies ==
  ASSUME NEW p \in Procs, NEW c \in Clients, NEW n \in Names, IInv, Bodies, grpcWrite(p, c, n)
  PROVE  Bodies'
<1>0. PICK h : h = Write(p, n, Whole(0), 0)
  OBVIOUS
<1>1. handler' = [handler EXCEPT ![c] = h] /\ UNCHANGED <<disk, mem, sessions, uploads>>
  BY <1>0 DEF grpcWrite, Accept
<1>2. h.proc = p /\ h.upload = 0 /\ h.op = "write" /\ h.body = Whole(0)
  BY <1>0 DEF Write
<1>3. 0 \notin DOMAIN sessions[p] /\ 0 \in 0..Len(uploads)
  BY DEF IInv, Shapes, Running
<1>4. IsHandler(uploads, sessions[h.proc], c, h)
  BY <1>2, <1>3, ProfileIsWhole DEF IsHandler
<1> QED
  BY <1>1, <1>4, OneHandler

LEMMA copyObjectBodies ==
  ASSUME NEW p \in Procs, NEW c \in Clients, NEW n \in Names, NEW source \in Names, IInv, Bodies,
         copyObject(p, c, source, n)
  PROVE  Bodies'
<1>0. PICK h : h = Write(p, n, mem[p][source], 0)
  OBVIOUS
<1>1. /\ handler' = [handler EXCEPT ![c] = h] /\ UNCHANGED <<disk, mem, sessions, uploads>>
      /\ source \in DOMAIN mem[p]
  BY <1>0 DEF copyObject, Accept
<1>2. h.proc = p /\ h.upload = 0 /\ h.op = "write" /\ h.body = mem[p][source]
  BY <1>0 DEF Write
<1>3. 0 \notin DOMAIN sessions[p] /\ 0 \in 0..Len(uploads)
  BY DEF IInv, Shapes, Running
<1>4. IsWhole(uploads, mem[p][source])
  BY <1>1 DEF Bodies, ObjectsOk
<1>5. IsHandler(uploads, sessions[h.proc], c, h)
  BY <1>2, <1>3, <1>4 DEF IsHandler
<1> QED
  BY <1>1, <1>5, OneHandler

LEMMA deleteObjectBodies ==
  ASSUME NEW p \in Procs, NEW c \in Clients, NEW n \in Names, IInv, Bodies, deleteObject(p, c, n)
  PROVE  Bodies'
<1>0. PICK h : h = [proc |-> p, op |-> "delete", name |-> n, body |-> <<>>, upload |-> 0]
  OBVIOUS
<1>1. handler' = [handler EXCEPT ![c] = h] /\ UNCHANGED <<disk, mem, sessions, uploads>>
  BY <1>0 DEF deleteObject, Accept
<1>2. h.proc = p /\ h.upload = 0 /\ h.op = "delete"
  BY <1>0
<1>3. 0 \notin DOMAIN sessions[p] /\ 0 \in 0..Len(uploads)
  BY DEF IInv, Shapes, Running
<1>4. IsHandler(uploads, sessions[h.proc], c, h)
  BY <1>2, <1>3 DEF IsHandler
<1> QED
  BY <1>1, <1>4, OneHandler

LEMMA handleGCSUploadBodies ==
  ASSUME NEW p \in Procs, NEW c \in Clients, NEW n \in Names, NEW plan \in Plans, IsClear(plan),
         IInv, Bodies, handleGCSUpload(p, c, n, plan)
  PROVE  Bodies'
<1> DEFINE new == Len(uploads) + 1
           s == [name |-> n, client |-> c, body |-> <<>>]
<1>1. /\ uploads' = Append(uploads, plan) /\ UNCHANGED <<disk, mem, handler>>
      /\ sessions' = [sessions EXCEPT ![p] = Bind(sessions[p], new, s)]
  BY DEF handleGCSUpload, NewUpload
<1>2. plan \in PlanSet
  BY ConstantAssumptions DEF PlanSet
<1>3. /\ PlansOk' /\ ObjectsOk' /\ Len(uploads') = new /\ uploads'[new] = plan
      /\ \A q \in Procs : \A u \in DOMAIN sessions[q] : IsSession(uploads', u, sessions[q][u])
      /\ \A d \in Clients : handler[d] # Idle =>
           IsHandler(uploads', sessions[handler[d].proc], d, handler[d])
  BY <1>1, <1>2, OnePlan
<1>4. /\ Len(uploads) \in Nat /\ DOMAIN sessions = Procs
      /\ \A q \in Procs : DOMAIN sessions[q] \subseteq 1..Len(uploads)
  BY DEF IInv, Shapes, Running
<1>5. IsSession(uploads', new, s)
  <2>1. s = [name |-> s.name, client |-> s.client, body |-> s.body] /\ s.body = <<>>
    OBVIOUS
  <2>2. plan.chunks \in Seq(Nat \ {0})
    BY <1>2 DEF PlanSet
  <2>3. 0 \in 0..Len(plan.chunks) /\ Sent(plan.chunks, 0) = 0
    BY <2>2, SentSteps
  <2>4. <<>> = Piece(new, 0)
    BY DEF Piece
  <2>5. IsPart(uploads', new, <<>>)
    BY <1>3, <2>3, <2>4 DEF IsPart
  <2> HIDE DEF s
  <2> QED
    BY <2>1, <2>5 DEF IsSession
<1>6. /\ sessions'[p] = Bind(sessions[p], new, s)
      /\ \A q \in Procs : q # p => sessions'[q] = sessions[q]
  BY <1>1, <1>4
<1>7. /\ DOMAIN sessions'[p] = DOMAIN sessions[p] \cup {new} /\ sessions'[p][new] = s
      /\ \A u \in DOMAIN sessions[p] : sessions'[p][u] = sessions[p][u]
  <2>1. new \notin DOMAIN sessions[p]
    BY <1>4
  <2> HIDE DEF new, s
  <2> QED
    BY <1>6, <2>1 DEF Bind
<1>8. SessionsOk'
  <2> HIDE DEF new, s
  <2> SUFFICES ASSUME NEW q \in Procs, NEW u \in DOMAIN sessions'[q]
               PROVE  IsSession(uploads', u, sessions'[q][u])
    BY DEF SessionsOk
  <2> QED
    BY <1>3, <1>5, <1>6, <1>7
<1>9. HandlersOk'
  <2> SUFFICES ASSUME NEW d \in Clients, handler[d] # Idle
               PROVE  IsHandler(uploads', sessions'[handler[d].proc], d, handler[d])
    BY <1>1 DEF HandlersOk
  <2> DEFINE h == handler[d]
  <2>1. /\ IsHandler(uploads', sessions[h.proc], d, h) /\ IsHandler(uploads, sessions[h.proc], d, h)
        /\ h.proc \in Procs
    BY <1>3 DEF Bodies, HandlersOk, IInv, Running
  <2>2. h.upload # new
    BY <1>4, <2>1 DEF IsHandler
  <2>3. CASE h.proc # p
    BY <1>6, <2>1, <2>3
  <2>4. CASE h.proc = p
    <3> HIDE DEF new, s, h
    <3>1. IsHandler(uploads', sessions'[p], d, h)
      BY <1>7, <2>1, <2>2, <2>4 DEF IsHandler
    <3> QED
      BY <2>4, <3>1 DEF h
  <2> QED
    BY <2>3, <2>4
<1> QED
  BY <1>3, <1>8, <1>9 DEF Bodies

LEMMA handleGCSResumableChunkBodies ==
  ASSUME NEW p \in Procs, NEW c \in Clients, NEW u \in DOMAIN uploads,
         NEW i \in 0..Len(uploads[u].chunks), IInv, Bodies, handleGCSResumableChunk(p, c, u, i)
  PROVE  Bodies'
<1>0. PICK from : from = Len(sessions[p][u].body)
  OBVIOUS
<1>1. PICK size : size = IF i = 0 THEN 0 ELSE uploads[u].chunks[i]
  OBVIOUS
<1>2. PICK h : h = [proc |-> p, op |-> "chunk", name |-> sessions[p][u].name, upload |-> u,
                    body |-> [j \in 1..size |-> <<u, from + j>>]]
  OBVIOUS
<1>3. /\ handler' = [handler EXCEPT ![c] = h] /\ UNCHANGED <<disk, mem, sessions, uploads>>
      /\ u \in DOMAIN sessions[p] /\ sessions[p][u].client = c
      /\ i > 0 => from = Sent(uploads[u].chunks, i - 1)
  BY <1>0, <1>1, <1>2 DEF handleGCSResumableChunk, Accept
<1>4. h.proc = p /\ h.upload = u /\ h.op = "chunk" /\ h.body = [j \in 1..size |-> <<u, from + j>>]
  BY <1>2
<1>5. PICK chunks \in Seq(Nat \ {0}) : chunks = uploads[u].chunks
  <2>1. uploads \in Seq(PlanSet)
    BY DEF IInv, Shapes, PlanSet
  <2>2. uploads[u] \in PlanSet
    BY <2>1
  <2> QED
    BY <2>2 DEF PlanSet
<1>6. PICK k \in 0..Len(chunks) : sessions[p][u].body = Piece(u, Sent(chunks, k))
  BY <1>3, <1>5 DEF Bodies, SessionsOk, IsSession, IsPart
<1>7. \A j \in 0..Len(chunks) : Sent(chunks, j) \in Nat
  BY SentIsNat
<1>8. from = Sent(chunks, k) /\ from \in Nat
  BY <1>0, <1>6, <1>7, PieceFacts
<1>9. size \in Nat /\ sessions[p][u].body \o h.body = Piece(u, from + size)
  <2>1. size \in Nat
    BY <1>1, <1>5
  <2> QED
    <3>1. Piece(u, from) \o [j \in 1..size |-> <<u, from + j>>] = Piece(u, from + size)
      BY <1>8, <2>1, PieceFacts
    <3>2. sessions[p][u].body = Piece(u, from)
      BY <1>6, <1>8
    <3> QED
      BY <1>4, <2>1, <3>1, <3>2
<1>10. \E j \in 0..Len(chunks) : from + size = Sent(chunks, j)
  <2>1. CASE i = 0
    BY <1>1, <1>8, <2>1
  <2>2. CASE i # 0
    <3>1. i \in 1..Len(chunks) /\ i > 0
      BY <1>5, <2>2
    <3>2. Sent(chunks, i) = Sent(chunks, i - 1) + chunks[i]
      BY <3>1, SentSteps
    <3>3. from + size = Sent(chunks, i) /\ i \in 0..Len(chunks)
      BY <1>1, <1>3, <1>5, <2>2, <3>1, <3>2
    <3> QED
      BY <3>3
  <2> QED
    BY <2>1, <2>2
<1>11. IsPart(uploads, u, sessions[p][u].body \o h.body)
  BY <1>5, <1>9, <1>10 DEF IsPart
<1>12. u \in 0..Len(uploads)
  BY <1>3 DEF IInv, Shapes, Running
<1>13. IsHandler(uploads, sessions[h.proc], c, h)
  BY <1>3, <1>4, <1>11, <1>12 DEF IsHandler
<1> QED
  BY <1>3, <1>13, OneHandler

\* The one place where a body goes on to the Store: it is whole.
LEMMA CompleteIsWhole ==
  ASSUME IInv, Bodies, NEW u \in 1..Len(uploads), NEW body, IsPart(uploads, u, body),
         ~ incomplete(u, body)
  PROVE  IsWhole(uploads, body)
<1>1. PICK plan \in PlanSet : plan = uploads[u]
  <2>1. uploads \in Seq(PlanSet)
    BY DEF IInv, Shapes, PlanSet
  <2> QED
    BY <2>1
<1>2. PICK chunks \in Seq(Nat \ {0}) : chunks = plan.chunks
  BY DEF PlanSet
<1>3. PICK k \in 0..Len(chunks) : body = Piece(u, Sent(chunks, k))
  BY <1>1, <1>2 DEF IsPart
<1>4. PICK sent \in Nat : sent = Sent(chunks, k)
  BY SentIsNat
<1>5. Len(body) = sent
  BY <1>3, <1>4, PieceFacts
<1>6. PICK total : total = Sent(chunks, Len(chunks))
  OBVIOUS
<1>7. (plan.known \/ sent = total) /\ RangeMatches(total, sent)
  BY <1>1, <1>2, <1>5, <1>6 DEF incomplete, Announces, Total
<1>8. sent = total
  <2>1. sent = 0 => total = 0
    BY <1>7 DEF RangeMatches
  <2> SUFFICES ASSUME plan.known, sent # 0 PROVE sent = total
    BY <1>7, <2>1
  <2>2. k # 0
    BY <1>4, SentSteps
  <2>3. k \in DOMAIN chunks
    BY <2>2
  <2>4. IsClear(plan)
    BY <1>1 DEF Bodies, PlansOk
  <2>5. k = Len(chunks)
    BY <1>2, <1>4, <1>6, <1>7, <2>3, <2>4 DEF IsClear
  <2> QED
    BY <1>4, <1>6, <2>5
<1>9. u \in 0..Len(uploads) /\ u # 0
  BY DEF IInv, Shapes
<1> QED
  BY <1>1, <1>2, <1>3, <1>4, <1>6, <1>8, <1>9 DEF IsWhole

LEMMA AppendChunkBodies ==
  ASSUME NEW c \in Clients, IInv, Bodies, AppendChunk(c)
  PROVE  Bodies'
<1>1. PICK h : h = handler[c]
  OBVIOUS
<1>2. PICK p : p = h.proc
  OBVIOUS
<1>3. PICK u : u = h.upload
  OBVIOUS
<1>4. PICK body : body = sessions[p][u].body \o h.body
  OBVIOUS
<1>5. PICK next : next = IF incomplete(u, body) THEN Idle ELSE Write(p, h.name, body, u)
  OBVIOUS
<1>6. /\ h # Idle /\ h.op = "chunk" /\ UNCHANGED <<disk, mem, uploads>>
      /\ sessions' = [sessions EXCEPT ![p][u].body = body]
      /\ handler' = [handler EXCEPT ![c] = next]
  BY <1>1, <1>2, <1>3, <1>4, <1>5 DEF AppendChunk
<1>7. p \in Procs /\ DOMAIN sessions = Procs /\ DOMAIN sessions[p] \subseteq 1..Len(uploads)
  BY <1>1, <1>2, <1>6 DEF IInv, Shapes, Running
<1>8. IsHandler(uploads, sessions[p], c, h)
  BY <1>1, <1>2, <1>6 DEF Bodies, HandlersOk
<1>9. u \in DOMAIN sessions[p] /\ sessions[p][u].client = c /\ IsPart(uploads, u, body)
  BY <1>3, <1>4, <1>6, <1>8 DEF IsHandler
<1>10. PICK s : s = sessions[p][u]
  OBVIOUS
<1>11. s = [name |-> s.name, client |-> s.client, body |-> s.body]
  BY <1>7, <1>9, <1>10 DEF Bodies, SessionsOk, IsSession
<1>12. PICK t : t = [name |-> s.name, client |-> s.client, body |-> body]
  OBVIOUS
<1>13. t = [s EXCEPT !.body = body]
  BY <1>11, <1>12
<1>14. sessions' = [sessions EXCEPT ![p] = [sessions[p] EXCEPT ![u] = t]]
  BY <1>6, <1>7, <1>9, <1>10, <1>13
<1>15. /\ \A q \in Procs : q # p => sessions'[q] = sessions[q]
       /\ DOMAIN sessions'[p] = DOMAIN sessions[p] /\ sessions'[p][u] = t
       /\ \A v \in DOMAIN sessions[p] : v # u => sessions'[p][v] = sessions[p][v]
  BY <1>7, <1>9, <1>14
<1>16. t.client = c /\ t.body = body /\ IsSession(uploads, u, t)
  BY <1>9, <1>10, <1>12 DEF IsSession
<1>17. SessionsOk'
  <2> SUFFICES ASSUME NEW q \in Procs, NEW v \in DOMAIN sessions'[q]
               PROVE  IsSession(uploads, v, sessions'[q][v])
    BY <1>6 DEF SessionsOk
  <2> QED
    BY <1>15, <1>16 DEF Bodies, SessionsOk
<1>18. PlansOk' /\ ObjectsOk'
  BY <1>6 DEF Bodies, PlansOk, ObjectsOk
<1>19. u \in 1..Len(uploads) /\ u \in 0..Len(uploads)
  BY <1>7, <1>9 DEF IInv, Shapes
<1>20. next # Idle => IsHandler(uploads, sessions'[p], c, next) /\ next.proc = p
  <2> SUFFICES ASSUME next # Idle
               PROVE  IsHandler(uploads, sessions'[p], c, next) /\ next.proc = p
    OBVIOUS
  <2>1. next = Write(p, h.name, body, u) /\ ~ incomplete(u, body)
    BY <1>5
  <2>2. next.proc = p /\ next.op = "write" /\ next.body = body /\ next.upload = u
    BY <2>1 DEF Write
  <2>3. IsWhole(uploads, body)
    BY <1>9, <1>19, <2>1, CompleteIsWhole
  <2> QED
    BY <1>15, <1>16, <1>19, <2>2, <2>3 DEF IsHandler
<1>21. HandlersOk'
  <2>1. handler'[c] = next /\ \A d \in Clients : d # c => handler'[d] = handler[d]
    BY <1>6 DEF IInv, Shapes
  <2> SUFFICES ASSUME NEW d \in Clients, handler'[d] # Idle
               PROVE  IsHandler(uploads, sessions'[handler'[d].proc], d, handler'[d])
    BY <1>6 DEF HandlersOk
  <2>2. CASE d = c
    BY <1>20, <2>1, <2>2
  <2>3. CASE d # c
    <3>1. PICK g : g = handler[d]
      OBVIOUS
    <3>2. handler'[d] = g /\ g # Idle /\ IsHandler(uploads, sessions[g.proc], d, g) /\ g.proc \in Procs
      BY <2>1, <2>3, <3>1 DEF Bodies, HandlersOk, IInv, Running
    <3>3. CASE g.proc # p
      BY <1>15, <3>2, <3>3
    <3>4. CASE g.proc = p
      <4>1. g.upload # u
        BY <1>9, <2>3, <3>2, <3>4 DEF IsHandler
      <4>2. IsHandler(uploads, sessions'[p], d, g)
        BY <1>15, <3>2, <3>4, <4>1 DEF IsHandler
      <4> QED
        BY <3>2, <3>4, <4>2
    <3> QED
      BY <3>3, <3>4
  <2> QED
    BY <2>2, <2>3
<1> QED
  BY <1>17, <1>18, <1>21 DEF Bodies

LEMMA CommitBodies ==
  ASSUME NEW c \in Clients, IInv, Bodies, Commit(c)
  PROVE  Bodies'
<1>1. PICK h : h = handler[c]
  OBVIOUS
<1>2. PICK p : p = h.proc
  OBVIOUS
<1>3. /\ h # Idle /\ uploads' = uploads /\ disk' = mem'[p]
      /\ mem' = [mem EXCEPT ![p] = Applied(mem[p], h)]
      /\ sessions' = [sessions EXCEPT ![p] = Without(sessions[p], h.upload)]
      /\ handler' = [handler EXCEPT ![c] = Idle]
  BY <1>1, <1>2 DEF Commit, Answer
<1>4. p \in Procs /\ DOMAIN sessions = Procs /\ DOMAIN mem = Procs
  BY <1>1, <1>2, <1>3 DEF IInv, Shapes, Running
<1>5. IsHandler(uploads, sessions[p], c, h)
  BY <1>1, <1>2, <1>3 DEF Bodies, HandlersOk
<1>6. \A n \in DOMAIN Applied(mem[p], h) : IsWhole(uploads, Applied(mem[p], h)[n])
  <2>1. \A n \in DOMAIN mem[p] : IsWhole(uploads, mem[p][n])
    BY <1>4 DEF Bodies, ObjectsOk
  <2>2. CASE h.op = "write"
    <3>1. IsWhole(uploads, h.body) /\ Applied(mem[p], h) = Bind(mem[p], h.name, h.body)
      BY <1>5, <2>2 DEF IsHandler, Applied
    <3> QED
      BY <2>1, <3>1, BoundIsWhole
  <2>3. CASE h.op # "write"
    <3>1. Applied(mem[p], h) = Without(mem[p], h.name)
      BY <2>3 DEF Applied
    <3> QED
      BY <2>1, <3>1, BoundIsWhole
  <2> QED
    BY <2>2, <2>3
<1>7. PlansOk' /\ ObjectsOk'
  BY <1>3, <1>4, <1>6 DEF Bodies, PlansOk, ObjectsOk
<1>8. /\ \A q \in Procs : q # p => sessions'[q] = sessions[q]
      /\ DOMAIN sessions'[p] = DOMAIN sessions[p] \ {h.upload}
      /\ \A u \in DOMAIN sessions'[p] : sessions'[p][u] = sessions[p][u]
  BY <1>3, <1>4 DEF Without
<1>9. SessionsOk'
  <2> SUFFICES ASSUME NEW q \in Procs, NEW u \in DOMAIN sessions'[q]
               PROVE  IsSession(uploads, u, sessions'[q][u])
    BY <1>3 DEF SessionsOk
  <2> QED
    BY <1>8 DEF Bodies, SessionsOk
<1>10. HandlersOk'
  <2>1. handler'[c] = Idle /\ \A d \in Clients : d # c => handler'[d] = handler[d]
    BY <1>3 DEF IInv, Shapes
  <2> SUFFICES ASSUME NEW d \in Clients, handler'[d] # Idle
               PROVE  IsHandler(uploads, sessions'[handler'[d].proc], d, handler'[d])
    BY <1>3 DEF HandlersOk
  <2>2. PICK g : g = handler[d]
    OBVIOUS
  <2>3. /\ d # c /\ handler'[d] = g /\ IsHandler(uploads, sessions[g.proc], d, g)
        /\ g.proc \in Procs
    BY <2>1, <2>2 DEF Bodies, HandlersOk, IInv, Running
  <2>4. CASE g.proc # p
    BY <1>8, <2>3, <2>4
  <2>5. CASE g.proc = p
    <3>1. g.upload \in DOMAIN sessions[p] => g.upload # h.upload
      BY <1>5, <2>3, <2>5 DEF IsHandler
    <3>2. IsHandler(uploads, sessions'[p], d, g)
      BY <1>8, <2>3, <2>5, <3>1 DEF IsHandler
    <3> QED
      BY <2>3, <2>5, <3>2
  <2> QED
    BY <2>4, <2>5
<1> QED
  BY <1>7, <1>9, <1>10 DEF Bodies

LEMMA CommitFailsBodies ==
  ASSUME NEW c \in Clients, IInv, Bodies, CommitFails(c)
  PROVE  Bodies'
<1>1. handler' = [handler EXCEPT ![c] = Idle] /\ UNCHANGED <<disk, mem, sessions, uploads>>
  BY DEF CommitFails, Answer
<1> QED
  BY <1>1, OneHandler

LEMMA BodiesStep == PlansAreClear /\ IInv /\ Bodies /\ [Next]_vars => Bodies'
<1> SUFFICES ASSUME PlansAreClear, IInv, Bodies, [Next]_vars PROVE Bodies'
  OBVIOUS
<1>1. ASSUME NEW p \in Procs, NEW c \in Clients, Requests(p, c) PROVE Bodies'
  BY <1>1, putObjectBodies, grpcWriteBodies, copyObjectBodies, deleteObjectBodies,
     handleGCSUploadBodies, handleGCSResumableChunkBodies DEF Requests, PlansAreClear
<1>2. ASSUME NEW p \in Procs,
             \/ acquireDataDirLock(p) \/ run(p) \/ StartFails(p) \/ Kill(p) \/ Lifecycle(p)
      PROVE  Bodies'
  BY <1>2, LifecycleBodies, SeedDemoBodies, EndBodies DEF Lifecycle, main, Kill
<1>3. CASE UNCHANGED vars
  <2>1. UNCHANGED <<disk, mem, sessions, handler, uploads>>
    BY <1>3 DEF vars
  <2> QED
    BY <2>1 DEF Bodies, PlansOk, ObjectsOk, SessionsOk, HandlersOk
<1> QED
  BY <1>1, <1>2, <1>3, AppendChunkBodies, CommitBodies, CommitFailsBodies DEF Next

-----------------------------------------------------------------------------
(* The theorems.                                                            *)

\* The flock is held exactly while a process may touch the directory, except
\* for handlers that outlive their shutdown, and nothing of a process outlives
\* the process.
THEOREM TypeCorrect == Spec => []TypeOK
<1>1. IInv => TypeOK
  BY DEF IInv, Shapes, Locking, Running, TypeOK
<1> QED
  BY <1>1, Invariance, PTL

\* No commit is lost and no failed call leaves a trace, whichever processes
\* start, stop, fail and die, until a shutdown is cut short under a handler.
THEOREM CommitsSurvive == Spec => []OneStore
<1>1. IInv => OneStore
  BY DEF IInv
<1> QED
  BY <1>1, Invariance, PTL

\* An object has the body of one upload, every chunk of it, in order and once,
\* or what the profile creates, whichever chunks, copies, failed commits, kills
\* and shutdowns interleave: if no client announces a total whose digits begin
\* with those of the length of a proper part.
THEOREM BodiesAreWhole ==
  ASSUME PlansAreClear
  PROVE  Spec => []ObjectsAreWhole
<1>1. ASSUME IInv, Bodies PROVE ObjectsAreWhole
  <2> SUFFICES ASSUME NEW n \in DOMAIN disk PROVE \E u \in 0..Len(uploads) : disk[n] = Whole(u)
    BY DEF ObjectsAreWhole
  <2>1. PICK u \in 0..Len(uploads) :
          disk[n] = Piece(u, IF u = 0 THEN 1 ELSE Sent(uploads[u].chunks, Len(uploads[u].chunks)))
    BY <1>1 DEF Bodies, ObjectsOk, IsWhole
  <2>2. disk[n] = Whole(u)
    BY <2>1 DEF Whole, Total, Piece
  <2> QED
    BY <2>2
<1>2. IInv /\ Bodies /\ [Next]_vars => (IInv /\ Bodies)'
  BY StepInv, BodiesStep
<1>3. Init => IInv /\ Bodies
  BY InitInv, BodiesInit
<1> QED
  BY <1>1, <1>2, <1>3, PTL DEF Spec

=============================================================================
