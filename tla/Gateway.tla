------------------------------ MODULE Gateway ------------------------------
(***************************************************************************)
(* Requests and calls as they reach the handlers, and the two image        *)
(* handlers with the object store behind them.                             *)
(*                                                                         *)
(* The program serves the routes of SetupRouter and no gRPC service. The   *)
(* image handlers can answer only under the routes that setupImageTest     *)
(* gives them, and the interceptor runs only where the generated functions *)
(* have registered services: each is a setting of its own.                 *)
(*                                                                         *)
(* A file name is abstracted to what GetImage makes of it: "plus" is the   *)
(* name "space" with a + for each space, "refused" is not an encoding or   *)
(* one of a name with a slash, and "noSuchKey" holds the text that tells a *)
(* missing object. The contents of an image is the number of the upload.   *)
(* The object store keeps the last object put under a key. A request lasts *)
(* less than one tick of the clock.                                        *)
(*                                                                         *)
(* Images are answered with "public": besides the browsers, a cache        *)
(* between them and the program may keep an answer, by its path, which     *)
(* does not name the client.                                               *)
(***************************************************************************)
EXTENDS Routes, Integers

CONSTANTS
  Requests,    \* goroutines that serve requests
  Clients,     \* clients, each with a browser that keeps what it may
  Tasks,       \* task ids in paths
  MaxPuts,     \* bound: objects put
  MaxRequests, \* bound: requests and calls
  MaxTime,     \* bound: ticks
  URLDuration, \* ticks for which a presigned URL is good (an hour)
  MaxAge       \* ticks for which a cache keeps an image (a year)

ASSUME GatewayAssumption ==
  /\ MaxPuts \in Nat
  /\ MaxRequests \in Nat
  /\ MaxTime \in Nat
  /\ URLDuration \in Nat \ {0}
  /\ MaxAge \in Nat \ {0}

VARIABLES
  setting,  \* which servers run: one of Settings
  store,    \* the object under each key; 0 if there is none
  puts,     \* history: what was put and until when it was current
  urls,     \* presigned URLs handed out
  cache,    \* what each client's browser keeps
  shared,   \* what a cache that the clients share keeps
  req,      \* what each goroutine is doing
  started,  \* requests and calls
  now,      \* the time
  uploaded, \* history: uploads that were answered 200
  answer    \* the last answer

storage == <<store, puts>>
caches == <<cache, shared>>
vars == <<setting, storage, urls, caches, req, started, now, uploaded, answer>>

Names == {"space", "plus", "refused", "noSuchKey"}
Keys == Clients \X Tasks \X Names
Versions == 1 .. MaxPuts
NoObject == 0
Current == -1

Settings == {"program", "imageTests", "services"}

Credentials == {"missing", "malformed", "invalid", "valid"}

Idle == [ pc |-> "idle" ]
At(r, pc) == req[r].pc = pc

NoAnswer == [ kind |-> "none" ]

NotCached == [ version |-> NoObject, at |-> 0, from |-> "program" ]

Routes ==
  CASE setting = "program" -> SetupRouter
    [] setting = "imageTests" -> setupImageTest
    [] setting = "services" -> {}

Accept ==
  /\ started < MaxRequests
  /\ started' = started + 1
  /\ UNCHANGED <<setting, now>>

-----------------------------------------------------------------------------
(* REST: the route, the middleware, then the handler *)

\* A request for a route or for a documented operation.
Requested(client, method, path, credential) ==
  [ client |-> client, method |-> method, path |-> path, credential |-> credential ]

\* q is answered, by handler if a handler ran; claims: whether it found claims.
Answered(q, status, handler, claims) ==
  [ kind |-> "REST", status |-> status, request |-> q, handler |-> handler, claims |-> claims ]

Reply(r, a) ==
  /\ answer' = a
  /\ req' = [req EXCEPT ![r] = Idle]

\* gin answers 404; the tests set NoRoute to answer 400.
NoRoute(r, q) ==
  /\ ~ \E route \in Routes : route.method = q.method /\ Matches(route.path, q.path)
  /\ Reply(r, Answered(q, IF setting = "program" THEN 404 ELSE 400, "none", FALSE))
  /\ UNCHANGED <<storage, urls, caches, uploaded>>

Routed(q, route) ==
  /\ route \in Routes
  /\ route.method = q.method
  /\ Matches(route.path, q.path)

\* Without a header, with one that is not "Bearer {token}", or with a token
\* that does not verify, JWTAuthMiddleware aborts with 401.
JWTAuthMiddleware(route, q) == route.protected => q.credential = "valid"

ClaimsSet(route) == route.protected \/ setting = "imageTests"

Abort(r, q, route) ==
  /\ Routed(q, route)
  /\ ~ JWTAuthMiddleware(route, q)
  /\ Reply(r, Answered(q, 401, "none", FALSE))
  /\ UNCHANGED <<storage, urls, caches, uploaded>>

\* The other components' handlers.
Handle(r, q, route) ==
  /\ Routed(q, route)
  /\ JWTAuthMiddleware(route, q)
  /\ route.handler \notin {"UploadImage", "GetImage"}
  /\ Reply(r, Answered(q, 200, route.handler, ClaimsSet(route)))
  /\ UNCHANGED <<storage, urls, caches, uploaded>>

\* Mutant: the client is left out of the key.
ImageKeyOfTask(clientID, taskID, filename) ==
  <<CHOOSE c \in Clients : TRUE, taskID, filename>>

ImageKey(clientID, taskID, filename) == <<clientID, taskID, filename>>

\* The file of the request: there is none, it cannot be opened, or it can.
Attachments == {"none", "unreadable", "file"}

UploadImage(r, q, route, name, attached) ==
  /\ Routed(q, route)
  /\ JWTAuthMiddleware(route, q)
  /\ route.handler = "UploadImage"
  /\ LET taskID == Param(route.path, q.path, ":task_id") IN
     IF taskID = "" \/ attached = "none"
     THEN Reply(r, Answered(q, 400, "UploadImage", ClaimsSet(route)))
     ELSE IF attached = "unreadable"
     THEN Reply(r, Answered(q, 500, "UploadImage", ClaimsSet(route)))
     ELSE /\ req' = [req EXCEPT ![r] =
               [ pc |-> "put", request |-> q, key |-> ImageKey(q.client, taskID, name) ]]
          /\ UNCHANGED answer
  /\ UNCHANGED <<storage, urls, caches, uploaded>>

\* url.QueryUnescape, for the names that are not refused
Decoded(name) == IF name = "plus" THEN "space" ELSE name

GetImage(r, q, route) ==
  /\ Routed(q, route)
  /\ JWTAuthMiddleware(route, q)
  /\ route.handler = "GetImage"
  /\ LET taskID == Param(route.path, q.path, ":task_id")
         filename == Param(route.path, q.path, ":image_id") IN
     IF filename \in {"", "refused"}
     THEN Reply(r, Answered(q, 400, "GetImage", ClaimsSet(route)))
     ELSE /\ req' = [req EXCEPT ![r] =
               [ pc |-> "get", request |-> q, name |-> filename,
                 key |-> ImageKey(q.client, taskID, Decoded(filename)) ]]
          /\ UNCHANGED answer
  /\ UNCHANGED <<storage, urls, caches, uploaded>>

REST(r, q) ==
  /\ At(r, "idle")
  /\ Accept
  /\ \/ NoRoute(r, q)
     \/ \E route \in Routes :
          \/ Abort(r, q, route)
          \/ Handle(r, q, route)
          \/ \E name \in Names, attached \in Attachments : UploadImage(r, q, route, name, attached)
          \/ GetImage(r, q, route)

-----------------------------------------------------------------------------
(* The image service and the object store *)

Put(key) ==
  LET version == Len(puts) + 1 IN
  /\ Len(puts) < MaxPuts
  /\ store' = [store EXCEPT ![key] = version]
  /\ puts' = Append([v \in DOMAIN puts |->
                       IF v = store[key] THEN [puts[v] EXCEPT !.until = now] ELSE puts[v]],
                    [ key |-> key, until |-> Current ])

\* Mutant: the error of PutObject is not looked at.
PutObjectUnchecked(r) ==
  /\ At(r, "put")
  /\ Put(req[r].key) \/ UNCHANGED storage
  /\ req' = [req EXCEPT ![r] =
       [ pc |-> "presign", request |-> @.request, key |-> @.key, version |-> Len(puts') ]]
  /\ UNCHANGED <<setting, urls, caches, started, now, uploaded, answer>>

PutObject(r) ==
  /\ At(r, "put")
  /\ Put(req[r].key)
  /\ req' = [req EXCEPT ![r] =
       [ pc |-> "presign", request |-> @.request, key |-> @.key, version |-> Len(puts) + 1 ]]
  /\ UNCHANGED <<setting, urls, caches, started, now, uploaded, answer>>

\* The store's answer is lost, and the client of the store tries again.
PutRetried(r) ==
  /\ At(r, "put")
  /\ Put(req[r].key)
  /\ UNCHANGED <<setting, urls, caches, req, started, now, uploaded, answer>>

PutFails(r) ==
  /\ At(r, "put")
  /\ Reply(r, Answered(req[r].request, 500, "UploadImage", TRUE))
  /\ UNCHANGED <<setting, storage, urls, caches, started, now, uploaded>>

\* GetPresignedURL computes the URL; the object stays if that fails.
GetPresignedURL(r) ==
  /\ At(r, "presign")
  /\ \/ /\ urls' = urls \cup { [ key |-> req[r].key, expires |-> now + URLDuration ] }
        /\ uploaded' = uploaded \cup {req[r].version}
        /\ Reply(r, Answered(req[r].request, 200, "UploadImage", TRUE))
     \/ /\ Reply(r, Answered(req[r].request, 500, "UploadImage", TRUE))
        /\ UNCHANGED <<urls, uploaded>>
  /\ UNCHANGED <<setting, storage, caches, started, now>>

\* Mutant: whatever error the store answers means that there is no such key.
GetObjectNotFound(r) ==
  /\ At(r, "get")
  /\ \/ /\ store[req[r].key] # NoObject
        /\ req' = [req EXCEPT ![r] =
             [ pc |-> "deliver", request |-> @.request, name |-> @.name, key |-> @.key,
               version |-> store[@.key] ]]
        /\ UNCHANGED answer
     \/ Reply(r, Answered(req[r].request, 404, "GetImage", TRUE))
  /\ UNCHANGED <<setting, storage, urls, caches, started, now, uploaded>>

\* The service looks for "NoSuchKey" in the text of the error. That of a request
\* which got no answer quotes the URL, and so the key.
LooksMissing(key) == key[3] = "noSuchKey"

GetObject(r) ==
  /\ At(r, "get")
  /\ \/ /\ store[req[r].key] # NoObject
        /\ req' = [req EXCEPT ![r] =
             [ pc |-> "deliver", request |-> @.request, name |-> @.name, key |-> @.key,
               version |-> store[@.key] ]]
        /\ UNCHANGED answer
     \/ /\ store[req[r].key] = NoObject
        /\ Reply(r, Answered(req[r].request, 404, "GetImage", TRUE))
     \/ /\ LooksMissing(req[r].key)
        /\ Reply(r, Answered(req[r].request, 404, "GetImage", TRUE))
     \/ Reply(r, Answered(req[r].request, 500, "GetImage", TRUE))
  /\ UNCHANGED <<setting, storage, urls, caches, started, now, uploaded>>

\* The browser keeps the answer by its path, as Cache-Control allows, and a
\* cache on the way may.
Deliver(r) ==
  LET q == req[r].request
      entry == [ version |-> req[r].version, at |-> now, from |-> "program" ] IN
  /\ At(r, "deliver")
  /\ cache' = [cache EXCEPT ![<<q.client, req[r].key[2], req[r].name>>] = entry]
  /\ \/ shared' = [shared EXCEPT ![<<req[r].key[2], req[r].name>>] = entry]
     \/ UNCHANGED shared
  /\ Reply(r, Answered(q, 200, "GetImage", TRUE))
  /\ UNCHANGED <<setting, storage, urls, started, now, uploaded>>

\* Mutant: the handler's answer may be kept for good.
FreshForever(entry) == entry.version # NoObject

\* A cache serves what it keeps without a request to the program.
Fresh(entry) == entry.version # NoObject /\ now - entry.at < MaxAge

\* The shared cache answers any client that asks for the path, and tells the age
\* of its answer.
ServeShared(client, task, name) ==
  /\ Fresh(shared[<<task, name>>])
  /\ cache' = [cache EXCEPT ![<<client, task, name>>] =
                 [ shared[<<task, name>>] EXCEPT !.from = "shared" ]]
  /\ UNCHANGED <<setting, storage, urls, shared, req, started, now, uploaded, answer>>

-----------------------------------------------------------------------------
(* gRPC *)

\* A server of the program registers no service.
Registered(m) == setting = "services"

\* authenticate: metadata with "Bearer " and a token that verifies.
Authenticated(credential) == credential = "valid"

\* Unary and Stream alike: a method of the list needs a token.
Intercepted(m, credential) ==
  [ service |-> m.service, method |-> m.method ] \in protectedMethods
    => Authenticated(credential)

\* Only TaskService has an implementation; the others embed the
\* unimplemented server. A message that does not decode fails before the
\* interceptor is called.
Call(r, m, credential, decodes) ==
  LET a(status, handler, claims) ==
        [ kind |-> "gRPC", status |-> status, call |-> m, handler |-> handler, claims |-> claims ] IN
  /\ At(r, "idle")
  /\ Accept
  /\ Reply(r,
       CASE ~ Registered(m) -> a("Unimplemented", "none", FALSE)
         [] Registered(m) /\ ~ decodes -> a("Internal", "none", FALSE)
         [] Registered(m) /\ decodes /\ ~ Intercepted(m, credential) ->
              a("Unauthenticated", "none", FALSE)
         [] Registered(m) /\ decodes /\ Intercepted(m, credential) ->
              IF m.service = "TaskService"
              THEN a("OK", m.method,
                     [ service |-> m.service, method |-> m.method ] \in protectedMethods)
              ELSE a("Unimplemented", "none", FALSE))
  /\ UNCHANGED <<storage, urls, caches, uploaded>>

-----------------------------------------------------------------------------
Tick ==
  /\ now < MaxTime
  /\ \A r \in Requests : At(r, "idle")
  /\ now' = now + 1
  /\ UNCHANGED <<setting, storage, urls, caches, req, started, uploaded, answer>>

Init ==
  /\ setting \in Settings
  /\ store = [k \in Keys |-> NoObject]
  /\ puts = <<>>
  /\ urls = {}
  /\ cache = [k \in Keys |-> NotCached]
  /\ shared = [k \in Tasks \X Names |-> NotCached]
  /\ req = [r \in Requests |-> Idle]
  /\ started = 0
  /\ now = 0
  /\ uploaded = {}
  /\ answer = NoAnswer

\* Requests for the routes of either router and for the documented operations.
Templates ==
  { [ method |-> x.method, path |-> x.path ] : x \in SetupRouter \cup setupImageTest }
    \cup { [ method |-> x.method, path |-> x.path ] : x \in DocumentedOperations }

Values(task, name) == [p \in Parameters |-> IF p = ":image_id" THEN name ELSE task]

\* The tests send no credential, and requests for images alone.
Sent ==
  CASE setting = "program" -> Templates \X Credentials
    [] setting = "imageTests" ->
         { x \in Templates : x.path[1] = "recognition-tasks" } \X {"missing"}
    [] setting = "services" -> {}

\* A name matters only where the path has one.
NamesFor(path) ==
  { name \in Names : name = "space" \/ \E i \in DOMAIN path : path[i] = ":image_id" }

Arrive(r) ==
  \/ \E x \in Sent : \E client \in Clients, task \in Tasks, name \in NamesFor(x[1].path) :
       REST(r, Requested(client, x[1].method, Filled(x[1].path, Values(task, name)), x[2]))
  \/ /\ setting # "imageTests"
     /\ \E m \in ServiceDescs, credential \in Credentials, decodes \in BOOLEAN :
          Call(r, m, credential, decodes)

Continue(r) ==
  \/ PutObject(r)
  \/ PutRetried(r)
  \/ PutFails(r)
  \/ GetPresignedURL(r)
  \/ GetObject(r)
  \/ Deliver(r)

Next ==
  \/ Tick
  \/ \E r \in Requests : Arrive(r) \/ Continue(r)
  \/ \E client \in Clients, task \in Tasks, name \in Names : ServeShared(client, task, name)

Spec == Init /\ [][Next]_vars

-----------------------------------------------------------------------------
(* Properties *)

Entries == [ version : Versions \cup {NoObject}, at : Nat, from : {"program", "shared"} ]

TypeOK ==
  /\ setting \in Settings
  /\ store \in [Keys -> Versions \cup {NoObject}]
  /\ puts \in Seq([ key : Keys, until : Nat \cup {Current} ])
  /\ urls \subseteq [ key : Keys, expires : Nat ]
  /\ cache \in [Keys -> Entries]
  /\ shared \in [Tasks \X Names -> Entries]
  /\ DOMAIN req = Requests
  /\ \A r \in Requests :
       \/ req[r] = Idle
       \/ req[r].pc \in {"put", "presign", "get", "deliver"} /\ req[r].key \in Keys
  /\ started \in Nat
  /\ now \in Nat
  /\ uploaded \subseteq Versions

\* An upload that was answered 200 is in the store under its key, or an object
\* put later is, whatever failed, was retried or overlapped.
SuccessStored ==
  \A v \in uploaded : v \in DOMAIN puts /\ store[puts[v].key] >= v

\* A presigned URL that has not expired finds an object.
UrlsServe == \A u \in urls : now < u.expires => store[u.key] # NoObject

\* What a client is told of an upload stays true: the image is there, under its URL.
UploadsKept == TypeOK /\ SuccessStored /\ UrlsServe

\* What a browser shows under a path was uploaded for the same task, under the name
\* the path decodes to. It was uploaded by the same client if the program answered
\* this browser; what came out of the shared cache may be another client's.
OwnImages ==
  \A k \in Keys :
    cache[k].version # NoObject =>
      LET key == puts[cache[k].version].key IN
      /\ key[2] = k[2] /\ key[3] = Decoded(k[3])
      /\ cache[k].from = "program" => key[1] = k[1]

\* An upload under the name of an older one reaches every browser within a year,
\* whichever caches the older one went through: what a browser shows was current
\* less than MaxAge ago.
CachedIsRecent ==
  \A k \in Keys :
    Fresh(cache[k]) =>
      LET until == puts[cache[k].version].until IN until = Current \/ now - until < MaxAge

\* A step that answers a read of an object with 404 finds that no upload under its
\* key was answered 200, unless the name makes any failed request look like a
\* missing object.
FindsUploads ==
  \A r \in Requests :
    /\ At(r, "get") /\ req'[r] = Idle
    /\ answer'.kind = "REST" /\ answer'.status = 404
    =>
      \/ LooksMissing(req[r].key)
      \/ ~ \E v \in uploaded : puts[v].key = req[r].key

\* GetImage answers 404 only if no upload under that key was answered 200, or the
\* name holds the text that the service looks for in errors.
ReadsFindUploads == [][FindsUploads]_vars

\* The routes ask for a token where the document says BearerAuth, and only there.
SecuredAsDocumented ==
  \A o \in DocumentedOperations :
    /\ setting = "program"
    /\ answer.kind = "REST"
    /\ answer.status \in {200, 401}
    /\ answer.request.method = o.method
    /\ Matches(o.path, answer.request.path)
    /\ answer.request.credential # "valid"
    => (answer.status = 401) = o.secured

\* A unary method of the task service runs only with the claims of a token: the
\* list of protected methods names all of them as the generated code does.
UnaryCallsHaveClaims ==
  answer.kind = "gRPC" /\ answer.status = "OK" /\ ~ answer.call.stream => answer.claims

\* Neither server answers without a token what it is declared to answer with one.
TokensRequired == SecuredAsDocumented /\ UnaryCallsHaveClaims

\* The documented operations have routes.
DocumentedRoutesServed ==
  setting = "program" /\ answer.kind = "REST" =>
    \A o \in DocumentedOperations :
      o.method = answer.request.method /\ Matches(o.path, answer.request.path)
        => answer.status # 404
=============================================================================
