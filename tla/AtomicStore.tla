----------------------------- MODULE AtomicStore -----------------------------
(***************************************************************************)
(* What the object services promise a client, with no files in it: a store *)
(* of objects and uploads to which one call at a time is applied, at once  *)
(* and completely or not at all.  A call reports success only after it was *)
(* applied and failure only if it was not; a crash applies or forgets the  *)
(* call in flight and touches nothing else.                                *)
(***************************************************************************)
EXTENDS Naturals, Sequences

VARIABLES
  objects,   \* [s3, gcs: <<bucket, key>> -> [body, tag]], uploads and their parts,
             \* buckets, notification filters and queued events
  call,      \* the call in flight
  applied,   \* has it been applied?
  before     \* the objects before it was applied

vars == <<objects, call, applied, before>>

None == [name |-> "none"]

NoEntries == [z \in {} |-> z]
Empty == [buckets |-> {}, gcsBuckets |-> {}, notify |-> {}, s3 |-> NoEntries,
          gcs |-> NoEntries, uploads |-> NoEntries, events |-> <<>>]

Put(f, x, y) == [z \in DOMAIN f \cup {x} |-> IF z = x THEN y ELSE f[z]]
Drop(f, x) == [z \in DOMAIN f \ {x} |-> f[z]]

Notified(o, event, b, k, body) ==
  IF <<b, k, event>> \in o.notify
  THEN Append(o.events, [name |-> event, bucket |-> b, key |-> k, body |-> body])
  ELSE o.events

\* The body of a completed upload is that of its parts, in the order listed.
Joined(upload, list) == [i \in 1..Len(list) |-> upload.parts[list[i]]]

\* What each call makes of the objects o; c is the request with its arguments.
CreateBucket(o, c) == [o EXCEPT !.buckets = @ \cup {c.b}]
DeleteBucket(o, c) == [o EXCEPT !.buckets = @ \ {c.b}, !.notify = {n \in @ : n[1] # c.b}]
SetNotifications(o, c) ==
  [o EXCEPT !.notify = {n \in @ : n[1] # c.b} \cup {<<c.b, f[1], f[2]>> : f \in c.filter}]
PurgeEvents(o, c) == [o EXCEPT !.events = <<>>]

PutObject(o, c) ==
  [o EXCEPT !.s3 = Put(@, <<c.b, c.k>>, [body |-> <<c.c>>, tag |-> c.t]),
            !.events = Notified(o, "Put", c.b, c.k, <<c.c>>)]
DeleteObject(o, c) == [o EXCEPT !.s3 = Drop(@, <<c.b, c.k>>)]

CreateMultipartUpload(o, c) ==
  [o EXCEPT !.uploads = Put(@, c.u, [b |-> c.b, k |-> c.k, t |-> c.t, parts |-> NoEntries])]
UploadMultipartPart(o, c) == [o EXCEPT !.uploads[c.u].parts = Put(@, c.n, c.c)]
CompleteMultipartUpload(o, c) ==
  LET up == o.uploads[c.u]
      body == Joined(up, c.list)
  IN  [o EXCEPT !.s3 = Put(@, <<up.b, up.k>>, [body |-> body, tag |-> up.t]),
                !.uploads = Drop(@, c.u),
                !.events = Notified(o, "CompleteMultipartUpload", up.b, up.k, body)]
AbortMultipartUpload(o, c) == [o EXCEPT !.uploads = Drop(@, c.u)]

CreateGCSBucket(o, c) == [o EXCEPT !.gcsBuckets = @ \cup {c.b}]
DeleteGCSBucket(o, c) == [o EXCEPT !.gcsBuckets = @ \ {c.b}]
PutGCSObject(o, c) == [o EXCEPT !.gcs = Put(@, <<c.b, c.k>>, [body |-> <<c.c>>, tag |-> c.t])]
PatchGCSObject(o, c) == [o EXCEPT !.gcs[<<c.b, c.k>>].tag = c.t]
DeleteGCSObject(o, c) == [o EXCEPT !.gcs = Drop(@, <<c.b, c.k>>)]

ResetWorkloadData(o, c) ==
  [o EXCEPT !.s3 = NoEntries, !.gcs = NoEntries, !.uploads = NoEntries, !.events = <<>>]

Effect(o, c) ==
  CASE c.name = "CreateBucket" -> CreateBucket(o, c)
    [] c.name = "DeleteBucket" -> DeleteBucket(o, c)
    [] c.name = "SetNotifications" -> SetNotifications(o, c)
    [] c.name = "PurgeEvents" -> PurgeEvents(o, c)
    [] c.name = "PutObject" -> PutObject(o, c)
    [] c.name = "DeleteObject" -> DeleteObject(o, c)
    [] c.name = "CreateMultipartUpload" -> CreateMultipartUpload(o, c)
    [] c.name = "UploadMultipartPart" -> UploadMultipartPart(o, c)
    [] c.name = "CompleteMultipartUpload" -> CompleteMultipartUpload(o, c)
    [] c.name = "AbortMultipartUpload" -> AbortMultipartUpload(o, c)
    [] c.name = "CreateGCSBucket" -> CreateGCSBucket(o, c)
    [] c.name = "DeleteGCSBucket" -> DeleteGCSBucket(o, c)
    [] c.name = "PutGCSObject" -> PutGCSObject(o, c)
    [] c.name = "PatchGCSObject" -> PatchGCSObject(o, c)
    [] c.name = "DeleteGCSObject" -> DeleteGCSObject(o, c)
    [] c.name = "Reset" -> Empty
    [] c.name = "ResetWorkloadData" -> ResetWorkloadData(o, c)

Init == objects = Empty /\ call = None /\ applied = FALSE /\ before = Empty

Invoke ==
  /\ call = None /\ call' # None
  /\ UNCHANGED <<objects, applied, before>>

Apply ==
  /\ call # None /\ ~applied
  /\ objects' = Effect(objects, call)
  /\ before' = objects /\ applied' = TRUE
  /\ UNCHANGED call

Succeed ==
  /\ applied
  /\ call' = None /\ applied' = FALSE /\ before' = objects
  /\ UNCHANGED objects

Fail ==
  /\ call # None /\ ~applied
  /\ call' = None
  /\ UNCHANGED <<objects, applied, before>>

\* A crash forgets the call in flight; a power failure may also undo it.
Crash ==
  /\ applied
  /\ objects' \in {objects, before}
  /\ call' = None /\ applied' = FALSE /\ before' = objects'

Next == Invoke \/ Apply \/ Succeed \/ Fail \/ Crash

Spec == Init /\ [][Next]_vars
=============================================================================
