----------------------------- MODULE SdkUpload -----------------------------
(***************************************************************************)
(* Uploads through the JavaScript SDK and the API.                         *)
(*                                                                         *)
(*   multipart  uploadVideo of packages/sdk/src/client/index.ts and        *)
(*              services/uploadFile.ts: initiate, list the parts, put one  *)
(*              part after the other, complete;                            *)
(*   single     the type "upload" of services/processRequest.ts with       *)
(*              services/initiateUpload.ts, and the PUT its caller makes   *)
(*              to the presigned URL;                                      *)
(*   dashboard  the type "dashboardUpload" with services/                  *)
(*              dashboardUpload.ts, which posts the file to a path that    *)
(*              the router of the API does not have.                       *)
(*                                                                         *)
(* The handlers are those of api/internal/videos/handler.go.  A request is *)
(* under way until the API or the storage has handled it; the client may   *)
(* see it fail before, and what it asked for is done all the same.  The    *)
(* client never retries and never aborts a multipart upload.  The storage  *)
(* is external: it numbers parts, and joins those a list names.            *)
(*                                                                         *)
(* Two files of one name have one object: the key is made of the account   *)
(* and the name.  A file is the sequence of its units, PartSize of them    *)
(* in a part of 5 MiB.                                                     *)
(***************************************************************************)
EXTENDS Integers, Sequences, SequencesExt

CONSTANTS Uploads,       \* calls of the application, each for a file of its own
          Keys,          \* object keys
          KeyOf,         \* upload: the key its file name makes
          Kinds,         \* the ways of uploading that are tried
          PartFields,    \* names the API may give to the number of a part
          PartSize,
          DefaultCount,  \* parts listed when the count is no positive number (10)
          MaxSize,       \* bound on the length of a file
          None

Requests == {"create", "putFile", "uploadRoute", "initiate", "parts", "put", "complete", "join"}

ASSUME UploadAssumption ==
  /\ KeyOf \in [Uploads -> Keys] /\ None \notin Uploads \cup Requests
  /\ None \notin [upload : Uploads, content : Seq(1..MaxSize)]
  /\ Kinds \subseteq {"multipart", "single", "dashboard"}
  /\ PartFields \subseteq {"part_number", "partNumber", "PartNumber"}
  /\ PartSize \in Nat \ {0} /\ DefaultCount \in Nat \ {0} /\ MaxSize \in Nat

VARIABLES
  field,    \* the name the API gives to the number of a part
  kind,     \* upload: the way it goes
  size,     \* upload: length of its file
  wire,     \* upload: the request under way for it
  outcome,  \* upload: what the client has seen of it
  todo,     \* upload: parts listed and not yet put
  done,     \* upload: completedParts
  loaded,   \* upload: uploadedBytes
  row,      \* upload: its row in videos
  multi,    \* upload: its multipart upload in the storage
  stored,   \* upload: the parts the storage keeps for it
  object,   \* key: the object, None if there is none
  cleanup,  \* uploads with a cleanup event under way
  fault     \* history: uploads something was refused or failed for

client == <<outcome, todo, done, loaded>>
server == <<row, cleanup>>
storage == <<multi, stored, object>>
world == <<field, kind, size>>
uploadVars == <<world, wire, client, server, storage, fault>>

MaxParts == (MaxSize + PartSize - 1) \div PartSize + DefaultCount
Numbers == 1..MaxParts
Units == 1..MaxSize

(* The file of u, its units in order.                                      *)
File(u) == [i \in 1..size[u] |-> i]

UploadTypeOK ==
  /\ field \in PartFields /\ kind \in [Uploads -> Kinds] /\ size \in [Uploads -> 0..MaxSize]
  /\ wire \in [Uploads -> Requests \cup {None}]
  /\ outcome \in [Uploads -> {"none", "waiting", "returned", "threw"}]
  /\ todo \in [Uploads -> Seq(Numbers)] /\ loaded \in [Uploads -> 0..MaxSize]
  /\ done \in [Uploads -> Seq([number : Numbers \cup {0}, etag : Seq(Units)])]
  /\ stored \in [Uploads -> [Numbers -> Seq(Units) \cup {None}]]
  /\ row \in [Uploads -> {"none", "queued", "deleted"}]
  /\ multi \in [Uploads -> {"none", "open", "completed"}]
  /\ object \in [Keys -> {None} \cup [upload : Uploads, content : Seq(Units)]]
  /\ cleanup \subseteq Uploads /\ fault \subseteq Uploads

UploadInit ==
  /\ field \in PartFields /\ kind \in [Uploads -> Kinds] /\ size \in [Uploads -> 0..MaxSize]
  /\ wire = [u \in Uploads |-> None]
  /\ outcome = [u \in Uploads |-> "none"]
  /\ todo = [u \in Uploads |-> <<>>] /\ done = [u \in Uploads |-> <<>>]
  /\ loaded = [u \in Uploads |-> 0]
  /\ row = [u \in Uploads |-> "none"]
  /\ multi = [u \in Uploads |-> "none"]
  /\ stored = [u \in Uploads |-> [n \in Numbers |-> None]]
  /\ object = [k \in Keys |-> None]
  /\ cleanup = {} /\ fault = {}
-----------------------------------------------------------------------------
(* Math.ceil(size / partSize)                                              *)
TotalParts(u) == (size[u] + PartSize - 1) \div PartSize

(* getPartNumber knows two spellings.                                      *)
Readable == field \in {"partNumber", "PartNumber"}

\* Mutant: the last part is cut at the size of a part before it.
ChunkShort(u, n) ==
  IF Readable /\ n * PartSize <= size[u] THEN SubSeq(File(u), (n - 1) * PartSize + 1, n * PartSize) ELSE <<>>

(* The slice of the file for the part of number n.  Without a number the   *)
(* bounds are NaN, and the slice is empty.                                 *)
Chunk(u, n) ==
  IF Readable
  THEN SubSeq(File(u), (n - 1) * PartSize + 1,
              IF n * PartSize <= size[u] THEN n * PartSize ELSE size[u])
  ELSE <<>>

\* Mutant: parts are counted from 0.
SentNumberFromZero(n) == IF Readable THEN n - 1 ELSE 0

(* The number sent with the completion; an undefined one is left out of    *)
(* the JSON and is 0 for the API.                                          *)
SentNumber(n) == IF Readable THEN n ELSE 0

(* As many parts as were asked for, or DefaultCount if that is none.       *)
Listed(u) == IF TotalParts(u) < 1 THEN DefaultCount ELSE TotalParts(u)

(* The application starts an upload.                                       *)
Start(u) ==
  /\ outcome[u] = "none"
  /\ outcome' = [outcome EXCEPT ![u] = "waiting"]
  /\ wire' = [wire EXCEPT ![u] = IF kind[u] = "multipart" THEN "initiate" ELSE "create"]
  /\ UNCHANGED <<world, todo, done, loaded, server, storage, fault>>

(* The answer to the request of u: the next request, the error below or    *)
(* the return; a client that has given up hears none of it.                *)
Continue(u, request) ==
  /\ wire' = [wire EXCEPT ![u] = IF outcome[u] = "waiting" THEN request ELSE None]
  /\ UNCHANGED outcome

\* Mutant: the error is logged and not thrown.
HandleApiErrorQuiet(u) ==
  /\ wire' = [wire EXCEPT ![u] = None]
  /\ UNCHANGED outcome

(* Every branch throws, an error of one class or another; the caller gets  *)
(* it, as uploadVideo catches none.                                        *)
HandleApiError(u) ==
  /\ wire' = [wire EXCEPT ![u] = None]
  /\ outcome' = [outcome EXCEPT ![u] = IF @ = "waiting" THEN "threw" ELSE @]

Return(u) ==
  /\ wire' = [wire EXCEPT ![u] = None]
  /\ outcome' = [outcome EXCEPT ![u] = IF @ = "waiting" THEN "returned" ELSE @]

(* fetch rejects: the request or its answer is lost.                       *)
FetchFails(u) ==
  /\ outcome[u] = "waiting" /\ wire[u] # None
  /\ outcome' = [outcome EXCEPT ![u] = "threw"]
  /\ fault' = fault \cup {u}
  /\ UNCHANGED <<world, wire, todo, done, loaded, server, storage>>

(* ... and never reaches the other side.                                   *)
RequestLost(u) ==
  /\ outcome[u] = "threw" /\ wire[u] # None
  /\ wire' = [wire EXCEPT ![u] = None]
  /\ UNCHANGED <<world, client, server, storage, fault>>
-----------------------------------------------------------------------------
(* HandleUploadInitiation and HandleMultipartInitiate: the row is there    *)
(* even if what follows fails.                                             *)
HandleUploadInitiation(u) ==
  /\ wire[u] = "create"
  /\ \/ /\ row' = [row EXCEPT ![u] = "queued"]
        /\ Continue(u, IF kind[u] = "single" THEN "putFile" ELSE "uploadRoute")
        /\ UNCHANGED fault
     \/ /\ row' \in {row, [row EXCEPT ![u] = "queued"]}
        /\ HandleApiError(u)
        /\ fault' = fault \cup {u}
  /\ UNCHANGED <<world, todo, done, loaded, cleanup, storage>>

HandleMultipartInitiate(u) ==
  /\ wire[u] = "initiate"
  /\ \/ /\ row' = [row EXCEPT ![u] = "queued"]
        /\ multi' = [multi EXCEPT ![u] = "open"]
        /\ Continue(u, "parts")
        /\ UNCHANGED fault
     \/ /\ row' \in {row, [row EXCEPT ![u] = "queued"]}
        /\ HandleApiError(u)
        /\ fault' = fault \cup {u}
        /\ UNCHANGED multi
  /\ UNCHANGED <<world, todo, done, loaded, cleanup, stored, object>>

(* Every request about a video looks for its row first.                    *)
NotFound(u) ==
  /\ row[u] = "deleted"
  /\ HandleApiError(u)
  /\ fault' = fault \cup {u}
  /\ UNCHANGED <<world, todo, done, loaded, server, storage>>

(* A URL for each part that is listed.                                     *)
HandleMultipartGetParts(u) ==
  /\ wire[u] = "parts"
  /\ \/ NotFound(u)
     \/ /\ row[u] = "queued"
        /\ todo' = [todo EXCEPT ![u] = [n \in 1..Listed(u) |-> n]]
        /\ Continue(u, "put")
        /\ UNCHANGED <<world, done, loaded, server, storage, fault>>

(* The URL has expired, or the answer shows no ETag.                       *)
PutPartRefused(u) ==
  /\ HandleApiError(u)
  /\ fault' = fault \cup {u}
  /\ UNCHANGED <<world, todo, done, loaded, server, storage>>

(* The storage has the part; the loop takes its ETag and goes on.          *)
PutPartTaken(u) ==
  LET n == Head(todo[u]) chunk == Chunk(u, n) IN
  /\ multi[u] = "open"
  /\ stored' = [stored EXCEPT ![u][n] = chunk]
  /\ IF outcome[u] = "waiting"
     THEN /\ done' = [done EXCEPT ![u] = Append(@, [number |-> SentNumber(n), etag |-> chunk])]
          /\ loaded' = [loaded EXCEPT ![u] = @ + Len(chunk)]
          /\ todo' = [todo EXCEPT ![u] = Tail(@)]
     ELSE UNCHANGED <<done, loaded, todo>>
  /\ Continue(u, IF Len(todo[u]) = 1 THEN "complete" ELSE "put")
  /\ UNCHANGED <<world, server, multi, object, fault>>

PutPart(u) ==
  /\ wire[u] = "put"
  /\ PutPartRefused(u) \/ PutPartTaken(u)

(* HandleMultipartComplete looks for the row, and then asks the storage.   *)
HandleMultipartComplete(u) ==
  /\ wire[u] = "complete"
  /\ \/ NotFound(u)
     \/ /\ row[u] = "queued"
        /\ wire' = [wire EXCEPT ![u] = "join"]
        /\ UNCHANGED <<world, client, server, storage, fault>>

(* What the storage takes for a list of parts: numbers in order, parts it  *)
(* has, and none but the last below the least size.                        *)
Joinable(u) ==
  /\ done[u] # <<>>
  /\ \A i \in DOMAIN done[u] :
       /\ done[u][i].number \in Numbers
       /\ stored[u][done[u][i].number] = done[u][i].etag
       /\ i < Len(done[u]) =>
            /\ Len(done[u][i].etag) >= PartSize
            /\ done[u][i].number < done[u][i + 1].number

\* Mutant: the answer to the completion is not looked at.
JoinRefusedReturns(u) ==
  /\ Return(u)
  /\ fault' = IF Joinable(u) THEN fault \cup {u} ELSE fault
  /\ UNCHANGED <<world, todo, done, loaded, server, storage>>

JoinRefused(u) ==
  /\ HandleApiError(u)
  /\ fault' = IF Joinable(u) THEN fault \cup {u} ELSE fault
  /\ UNCHANGED <<world, todo, done, loaded, server, storage>>

CompleteMultipartUpload(u) ==
  /\ wire[u] = "join"
  /\ \/ /\ Joinable(u) /\ multi[u] = "open"
        /\ multi' = [multi EXCEPT ![u] = "completed"]
        /\ stored' = [stored EXCEPT ![u] = [n \in Numbers |-> None]]
        /\ object' = [object EXCEPT ![KeyOf[u]] =
             [upload |-> u, content |-> FlattenSeq([i \in DOMAIN done[u] |-> done[u][i].etag])]]
        /\ Return(u)
        /\ UNCHANGED <<world, todo, done, loaded, server, fault>>
     \/ JoinRefused(u)
-----------------------------------------------------------------------------
(* The PUT of the whole file to upload_url.                                *)
PutFile(u) ==
  /\ wire[u] = "putFile"
  /\ \/ /\ object' = [object EXCEPT ![KeyOf[u]] = [upload |-> u, content |-> File(u)]]
        /\ Return(u)
        /\ UNCHANGED fault
     \/ /\ HandleApiError(u)
        /\ fault' = fault \cup {u}
        /\ UNCHANGED object
  /\ UNCHANGED <<world, todo, done, loaded, server, multi, stored>>

(* POST /videos/{id}/upload: RegisterRoutes has no such route.             *)
UploadRoute(u) ==
  /\ wire[u] = "uploadRoute"
  /\ HandleApiError(u)
  /\ UNCHANGED <<world, todo, done, loaded, server, storage, fault>>

(* A user deletes the video, which takes effect on the objects later.      *)
HandleDeleteVideo(u) ==
  /\ row[u] = "queued"
  /\ row' = [row EXCEPT ![u] = "deleted"]
  /\ cleanup' = cleanup \cup {u}
  /\ UNCHANGED <<world, wire, client, storage, fault>>

(* The worker's cleanup removes the object of the key.                     *)
Cleanup(u) ==
  /\ u \in cleanup
  /\ cleanup' = cleanup \ {u}
  /\ object' = [object EXCEPT ![KeyOf[u]] = None]
  /\ UNCHANGED <<world, wire, client, row, multi, stored, fault>>

Handle(u) ==
  \/ HandleUploadInitiation(u) \/ HandleMultipartInitiate(u) \/ HandleMultipartGetParts(u)
  \/ PutPart(u) \/ HandleMultipartComplete(u) \/ CompleteMultipartUpload(u)
  \/ PutFile(u) \/ UploadRoute(u)

UploadNext == \E u \in Uploads :
  \/ Start(u) \/ FetchFails(u) \/ RequestLost(u) \/ Handle(u)
  \/ HandleDeleteVideo(u) \/ Cleanup(u)

UploadSpec == UploadInit /\ [][UploadNext]_uploadVars

(* A request is handled or fails.                                          *)
UploadFairSpec == UploadSpec /\ \A u \in Uploads : WF_uploadVars(Handle(u) \/ FetchFails(u))
-----------------------------------------------------------------------------
\* An object is one whole file: a listing that is cut short, a part that is
\* missing or a list of another upload never makes an object.
ObjectIsWhole ==
  \A k \in Keys : object[k] # None => object[k].content = File(object[k].upload)

\* A key is returned only after the storage has joined the parts or taken the
\* file, and there is an object under it until a video of that key is deleted,
\* whoever uploads, is refused or gives up meanwhile.
ReturnedWasStored ==
  \A u \in Uploads : outcome[u] = "returned" =>
    /\ kind[u] = "multipart" => multi[u] = "completed"
    /\ object[KeyOf[u]] # None \/ \E v \in Uploads : KeyOf[v] = KeyOf[u] /\ row[v] = "deleted"

\* javascript.mdx:37-41 promises the caller of uploadVideo the key of the uploaded
\* video: an upload of a file that is not empty, for which nothing was refused or
\* failed, does not end in an error.
FaultFreeReturns ==
  \A u \in Uploads :
    outcome[u] = "threw" /\ kind[u] # "dashboard" /\ size[u] > 0 => u \in fault

\* What is true of it.  A single upload keeps the promise; a multipart upload keeps it
\* if the API names the numbers of the parts as the SDK reads them, as no list of parts
\* that the SDK makes of a file is then refused.  Under any other name, part_number
\* among them, no multipart upload ever returns a key, whatever the file and whatever
\* fails; and no dashboard upload does.
OutcomeFollowsField ==
  \A u \in Uploads :
    /\ outcome[u] = "threw" /\ size[u] > 0 /\ u \notin fault =>
         kind[u] = "dashboard" \/ (kind[u] = "multipart" /\ ~Readable)
    /\ outcome[u] = "returned" => kind[u] = "single" \/ (kind[u] = "multipart" /\ Readable)

\* An upload that is started ends, with the key or with an error.
UploadEnds == \A u \in Uploads : outcome[u] = "waiting" ~> outcome[u] # "waiting"

(* What is under way agrees with what there is.                            *)
UnderWay ==
  \A u \in Uploads :
    /\ outcome[u] = "waiting" => wire[u] # None
    /\ outcome[u] \in {"none", "returned"} => wire[u] = None
    /\ outcome[u] = "none" \/ wire[u] \in {"create", "initiate"} => row[u] = "none"
    /\ wire[u] = "create" => kind[u] # "multipart"
    /\ wire[u] = "putFile" => kind[u] = "single"
    /\ wire[u] \in {"initiate", "parts", "put", "complete", "join"} => kind[u] = "multipart"
    /\ wire[u] \in {"parts", "put", "complete", "join"} => multi[u] = "open" /\ row[u] # "none"
    /\ wire[u] = "put" => todo[u] # <<>>
    /\ wire[u] = "uploadRoute" => kind[u] = "dashboard"
    /\ u \in cleanup => row[u] = "deleted"

(* The units of the file of u before its part n + 1.                       *)
Before(u, n) == IF n * PartSize <= size[u] THEN n * PartSize ELSE size[u]

(* What a multipart upload has put and the storage has, in order, and what *)
(* it has still to put.                                                    *)
Progress ==
  \A u \in Uploads :
    /\ outcome[u] = "none" \/ wire[u] \in {"initiate", "parts"} => done[u] = <<>>
    /\ loaded[u] = IF Readable THEN Before(u, Len(done[u])) ELSE 0
    /\ wire[u] \in {"put", "complete", "join"} =>
         /\ Len(done[u]) + Len(todo[u]) = Listed(u)
         /\ \A i \in 1..Len(todo[u]) : todo[u][i] = Len(done[u]) + i
         /\ \A i \in 1..Len(done[u]) :
              /\ done[u][i] = [number |-> SentNumber(i), etag |-> Chunk(u, i)]
              /\ stored[u][i] = Chunk(u, i)
    /\ wire[u] \in {"complete", "join"} => todo[u] = <<>>

\* The inductive invariant: the requests under way agree with the rows, the
\* multipart uploads and the parts in the storage.
UploadIInv == UploadTypeOK /\ UnderWay /\ Progress
=============================================================================
