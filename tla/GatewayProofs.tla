---------------------------- MODULE GatewayProofs ----------------------------
(* Proofs about Gateway, for any number of goroutines, clients, tasks, puts, *)
(* requests and ticks, and any duration of URLs and caches.                  *)
EXTENDS Gateway, SequenceTheorems, TLAPS

\* The store has the last object put under each key, and that one is current.
Stored ==
  /\ Len(puts) <= MaxPuts
  /\ \A k \in Keys :
       /\ store[k] <= Len(puts)
       /\ store[k] # NoObject => puts[store[k]].key = k /\ puts[store[k]].until = Current
  /\ \A v \in 1 .. Len(puts) : v <= store[puts[v].key]

\* Only the image tests reach the store. A request there knows its key; the
\* version it put, or got, is one of that key, and what it got was current in
\* this tick.
Got(q) ==
  /\ q.version \in 1 .. Len(puts)
  /\ puts[q.version].key = q.key

Works(q) ==
  \/ q = Idle
  \/ /\ setting = "imageTests"
     /\ q.pc \in {"put", "presign", "get", "deliver"} /\ q.key \in Keys
     /\ q.pc \in {"presign", "deliver"} => Got(q)
     /\ q.pc \in {"get", "deliver"} =>
          q.name \in Names /\ q.key[1] = q.request.client /\ q.key[3] = Decoded(q.name)
     /\ q.pc = "deliver" => puts[q.version].until \in {Current, now}

Holding == \A r \in Requests : Works(req[r])

\* An entry of a cache is an image that was current when the cache got it.
Kept(entry) ==
  entry.version # NoObject =>
    /\ entry.version \in 1 .. Len(puts)
    /\ entry.at <= now
    /\ \/ puts[entry.version].until = Current
       \/ puts[entry.version].until >= entry.at

\* An entry under a path is of the task and of the name that the path decodes to.
Under(entry, task, name) ==
  entry.version # NoObject =>
    puts[entry.version].key[2] = task /\ puts[entry.version].key[3] = Decoded(name)

\* An entry that the program gave a browser is of the browser's client.
OwnedBy(entry, client) ==
  entry.version # NoObject /\ entry.from = "program" =>
    puts[entry.version].key[1] = client

\* What the clients were given: uploads that were put, URLs of objects, and
\* images, through the shared cache or not.
Given ==
  /\ uploaded \subseteq 1 .. Len(puts)
  /\ \A u \in urls : store[u.key] # NoObject
  /\ \A k \in Keys : Kept(cache[k]) /\ Under(cache[k], k[2], k[3]) /\ OwnedBy(cache[k], k[1])
  /\ \A k \in Tasks \X Names : Kept(shared[k]) /\ Under(shared[k], k[1], k[2])

\* An answer of the program that tells whether a token was needed comes from a
\* route that matches the request.
Explained ==
  setting = "program" /\ answer.kind = "REST" /\ answer.status \in {200, 401} =>
    \E route \in SetupRouter :
      /\ Matches(route.path, answer.request.path)
      /\ answer.request.credential # "valid" => (answer.status = 401) = route.protected

\* The inductive invariant.
IInv == TypeOK /\ Stored /\ Holding /\ Given /\ Explained /\ UnaryCallsHaveClaims

-----------------------------------------------------------------------------
(* The tables of routes *)

\* The routes of the program that need no token are those of auth; none has a
\* parameter the image handlers ask for.
LEMMA ProgramRoutes ==
  ASSUME NEW route \in SetupRouter
  PROVE  /\ Len(route.path) >= 2 /\ DOMAIN route.path = 1 .. Len(route.path)
         /\ route.path[1] = "api/v1"
         /\ route.path[2] \notin Parameters
         /\ route.protected \in BOOLEAN
         /\ route.protected <=> route.path[2] # "auth"
         /\ \A i \in DOMAIN route.path : route.path[i] \notin {":task_id", ":image_id"}
  <1>1. CASE route \in PublicRoutes
    <2>1. /\ Len(route.path) >= 2 /\ DOMAIN route.path = 1 .. Len(route.path)
          /\ route.path[1] = "api/v1"
          /\ route.path[2] = "auth"
          /\ \A i \in DOMAIN route.path : route.path[i] \notin {":task_id", ":image_id"}
      BY <1>1 DEF PublicRoutes, Route
    <2>2. route.protected = FALSE
      BY <1>1 DEF PublicRoutes, Route
    <2> QED BY <2>1, <2>2 DEF Parameters
  <1>2. CASE route \in ProtectedRoutes
    <2>1. PICK r \in apiAuth : route = [r EXCEPT !.protected = TRUE]
      BY <1>2 DEF ProtectedRoutes
    <2>2. /\ Len(r.path) >= 2 /\ DOMAIN r.path = 1 .. Len(r.path)
          /\ r.path[1] = "api/v1"
          /\ r.path[2] \notin Parameters
          /\ r.path[2] # "auth"
          /\ \A i \in DOMAIN r.path : r.path[i] \notin {":task_id", ":image_id"}
      <3> DEFINE p == r.path
      <3>1. \/ p = <<"api/v1", "account">>
            \/ p = <<"api/v1", "recognition_tasks">>
            \/ p = <<"api/v1", "recognition_tasks", ":id">>
            \/ p = <<"api/v1", "images", "upload">>
            \/ p = <<"api/v1", "images", ":id">>
        BY DEF apiAuth, Route
      <3> HIDE DEF p
      <3>2. /\ Len(p) >= 2 /\ DOMAIN p = 1 .. Len(p) /\ p[1] = "api/v1"
            /\ p[2] \in {"account", "recognition_tasks", "images"}
            /\ \A i \in DOMAIN p : p[i] \notin {":task_id", ":image_id"}
        <4>1. CASE p = <<"api/v1", "account">>
          BY <4>1
        <4>2. CASE p = <<"api/v1", "recognition_tasks">>
          BY <4>2
        <4>3. CASE p = <<"api/v1", "recognition_tasks", ":id">>
          BY <4>3
        <4>4. CASE p = <<"api/v1", "images", "upload">>
          BY <4>4
        <4>5. CASE p = <<"api/v1", "images", ":id">>
          BY <4>5
        <4> QED BY <3>1, <4>1, <4>2, <4>3, <4>4, <4>5
      <3>3. p[2] \notin Parameters /\ p[2] # "auth"
        BY <3>2 DEF Parameters
      <3> QED BY <3>2, <3>3 DEF p
    <2>3. route.path = r.path /\ route.protected = TRUE
      BY <2>1 DEF apiAuth, Route
    <2> QED BY <2>2, <2>3
  <1> QED BY <1>1, <1>2 DEF SetupRouter

\* The documented operations under /api/v1 that ask for BearerAuth are those
\* outside auth; the others are outside /api/v1.
LEMMA Documented ==
  ASSUME NEW o \in DocumentedOperations
  PROVE  /\ Len(o.path) >= 2 /\ DOMAIN o.path = 1 .. Len(o.path)
         /\ o.path[1] \notin Parameters
         /\ o.secured \in BOOLEAN
         /\ o.path[1] = "api/v1" =>
              o.path[2] \notin Parameters /\ (o.secured <=> o.path[2] # "auth")
  <1>1. CASE o \in AccountPaths
    <2>1. /\ Len(o.path) >= 2 /\ DOMAIN o.path = 1 .. Len(o.path)
          /\ o.path[1] = "api/v1" /\ o.path[2] \notin Parameters
      BY <1>1 DEF AccountPaths, Operation, Parameters
    <2>2. \/ o.path[2] = "account" /\ o.secured = TRUE
          \/ o.path[2] = "auth" /\ o.secured = FALSE
      BY <1>1 DEF AccountPaths, Operation
    <2> QED BY <2>1, <2>2 DEF Parameters
  <1>2. CASE o \in TaskPaths \cup TaskIdPaths \cup TaskDeletePath
    <2>1. /\ Len(o.path) >= 2 /\ DOMAIN o.path = 1 .. Len(o.path)
          /\ o.path[1] = "api/v1" /\ o.path[2] = "recognition_tasks"
      <3>1. CASE o \in TaskPaths
        BY <3>1 DEF TaskPaths, Operation
      <3>2. CASE o \in TaskIdPaths
        BY <3>2 DEF TaskIdPaths, Operation
      <3>3. CASE o \in TaskDeletePath
        BY <3>3 DEF TaskDeletePath, Operation
      <3> QED BY <1>2, <3>1, <3>2, <3>3
    <2>2. o.secured = TRUE
      BY <1>2 DEF TaskPaths, TaskIdPaths, TaskDeletePath, Operation
    <2> QED BY <2>1, <2>2 DEF Parameters
  <1>3. CASE o \in ImagePaths
    <2>1. /\ Len(o.path) >= 2 /\ DOMAIN o.path = 1 .. Len(o.path)
          /\ o.path[1] = "recognition-tasks"
      BY <1>3 DEF ImagePaths, Operation
    <2>2. o.secured = FALSE
      BY <1>3 DEF ImagePaths, Operation
    <2> QED BY <2>1, <2>2 DEF Parameters
  <1> QED BY <1>1, <1>2, <1>3 DEF DocumentedOperations

\* A request that a route of the program serves is documented with a token
\* exactly if the route needs one.
LEMMA SecuredAsRouted ==
  ASSUME NEW route \in SetupRouter, NEW o \in DocumentedOperations, NEW path,
         Matches(route.path, path), Matches(o.path, path)
  PROVE  o.secured = route.protected
  <1>1. 1 \in DOMAIN route.path /\ 2 \in DOMAIN route.path
        /\ 1 \in DOMAIN o.path /\ 2 \in DOMAIN o.path
    BY ProgramRoutes, Documented DEF Routes
  <1>2. path[1] = "api/v1" /\ path[2] = route.path[2]
    BY <1>1, ProgramRoutes DEF Matches, Parameters
  <1>3. o.path[1] = "api/v1"
    BY <1>1, <1>2, Documented DEF Matches
  <1>4. o.path[2] = path[2]
    BY <1>1, <1>3, Documented DEF Matches
  <1> QED BY <1>2, <1>3, <1>4, ProgramRoutes, Documented

\* What a handler finds in the path of a request is what the request was sent
\* with under the routes of the image tests, and nothing under the program's.
LEMMA ParamsFound ==
  ASSUME setting \in Settings, NEW task \in Tasks, NEW name \in Names, NEW x \in Sent,
         NEW route \in Routes, route.method = x[1].method,
         Matches(route.path, Filled(x[1].path, Values(task, name)))
  PROVE  \/ /\ setting = "imageTests"
            /\ Param(route.path, Filled(x[1].path, Values(task, name)), ":task_id") = task
            /\ route.handler = "GetImage" =>
                 Param(route.path, Filled(x[1].path, Values(task, name)), ":image_id") = name
         \/ /\ setting = "program"
            /\ Param(route.path, Filled(x[1].path, Values(task, name)), ":task_id") = ""
            /\ Param(route.path, Filled(x[1].path, Values(task, name)), ":image_id") = ""
  <1> DEFINE path == Filled(x[1].path, Values(task, name))
  <1>1. CASE setting = "program"
    BY <1>1, ProgramRoutes DEF Routes, Param
  <1>2. CASE setting = "imageTests"
    <2>1. route \in setupImageTest
      BY <1>2 DEF Routes
    <2>2. x[1] \in Templates /\ x[1].path[1] = "recognition-tasks"
      BY <1>2 DEF Sent
    <2>3. /\ DOMAIN x[1].path = 1 .. Len(x[1].path) /\ Len(x[1].path) \in {3, 4}
          /\ x[1].path[2] = ":task_id"
          /\ x[1].method = "GET" => Len(x[1].path) = 4 /\ x[1].path[4] = ":image_id"
      <3>1. CASE \E y \in SetupRouter : x[1] = [ method |-> y.method, path |-> y.path ]
        BY <2>2, <3>1, ProgramRoutes
      <3>2. CASE \E y \in setupImageTest : x[1] = [ method |-> y.method, path |-> y.path ]
        BY <3>2 DEF setupImageTest, Route
      <3>3. CASE \E y \in DocumentedOperations : x[1] = [ method |-> y.method, path |-> y.path ]
        <4>1. PICK y \in DocumentedOperations : x[1] = [ method |-> y.method, path |-> y.path ]
          BY <3>3
        <4>2. CASE y \in ImagePaths
          BY <4>1, <4>2 DEF ImagePaths, Operation
        <4>3. CASE y \notin ImagePaths
          BY <2>2, <4>1, <4>3 DEF DocumentedOperations, AccountPaths, TaskPaths, TaskIdPaths,
             TaskDeletePath, Operation
        <4> QED BY <4>2, <4>3
      <3> QED BY <2>2, <3>1, <3>2, <3>3 DEF Templates
    <2>4. Values(task, name)[":task_id"] = task /\ Values(task, name)[":image_id"] = name
      BY DEF Values, Parameters
    <2>5. path[2] = task /\ (x[1].method = "GET" => path[4] = name)
      BY <2>3, <2>4 DEF Filled, Parameters
    <2>6. Param(route.path, path, ":task_id") = path[2]
      <3>1. 2 \in DOMAIN route.path /\ \A i \in DOMAIN route.path : route.path[i] = ":task_id" <=> i = 2
        BY <2>1 DEF setupImageTest, Route
      <3>2. (CHOOSE i \in DOMAIN route.path : route.path[i] = ":task_id") = 2
        BY <3>1
      <3> QED BY <3>1, <3>2 DEF Param
    <2>7. ASSUME route.handler = "GetImage"
          PROVE  Param(route.path, path, ":image_id") = path[4] /\ route.method = "GET"
      <3>1. /\ route.method = "GET" /\ 4 \in DOMAIN route.path
            /\ \A i \in DOMAIN route.path : route.path[i] = ":image_id" <=> i = 4
        BY <2>1, <2>7 DEF setupImageTest, Route
      <3>2. (CHOOSE i \in DOMAIN route.path : route.path[i] = ":image_id") = 4
        BY <3>1
      <3> QED BY <3>1, <3>2 DEF Param
    <2> QED BY <1>2, <2>5, <2>6, <2>7
  <1>3. CASE setting = "services"
    BY <1>3 DEF Routes
  <1> QED BY <1>1, <1>2, <1>3 DEF Settings

-----------------------------------------------------------------------------
(* The object store *)

\* The rows of the history.
PutRow == [ key : Keys, until : Nat \cup {Current} ]

\* The history is a sequence of such rows.
LEMMA PutsAreRows ==
  ASSUME TypeOK
  PROVE  /\ Len(puts) \in Nat /\ DOMAIN puts = 1 .. Len(puts) /\ puts \in Seq(PutRow)
         /\ \A v \in 1 .. Len(puts) :
              puts[v] \in PutRow /\ puts[v].key \in Keys /\ puts[v].until \in Nat \cup {Current}
  <1>1. puts \in Seq(PutRow)
    BY DEF TypeOK, PutRow
  <1>2. \A v \in 1 .. Len(puts) : puts[v] \in PutRow
    BY <1>1, ElementOfSeq
  <1>3. \A row \in PutRow : row.key \in Keys /\ row.until \in Nat \cup {Current}
    BY DEF PutRow
  <1>4. Len(puts) \in Nat /\ DOMAIN puts = 1 .. Len(puts)
    BY <1>1
  <1> QED BY <1>1, <1>2, <1>3, <1>4

\* A put appends to the history, ends what was current under its key, and
\* changes nothing else.
LEMMA PutAppends ==
  ASSUME TypeOK, Stored, NEW k \in Keys, Put(k)
  PROVE  /\ puts' \in Seq([ key : Keys, until : Nat \cup {Current} ])
         /\ Len(puts') = Len(puts) + 1 /\ Len(puts') <= MaxPuts
         /\ puts'[Len(puts) + 1].key = k /\ puts'[Len(puts) + 1].until = Current
         /\ \A v \in 1 .. Len(puts) :
              /\ puts'[v].key = puts[v].key
              /\ puts'[v].until = IF v = store[k] THEN now ELSE puts[v].until
         /\ store' \in [Keys -> Versions \cup {NoObject}]
         /\ \A j \in Keys : store'[j] = IF j = k THEN Len(puts) + 1 ELSE store[j]
  <1> DEFINE ended == [v \in DOMAIN puts |->
                         IF v = store[k] THEN [puts[v] EXCEPT !.until = now] ELSE puts[v]]
             new == [ key |-> k, until |-> Current ]
  <1>1. puts \in Seq(PutRow) /\ Len(puts) \in Nat /\ DOMAIN puts = 1 .. Len(puts)
    BY PutsAreRows
  <1>2. \A v \in 1 .. Len(puts) : puts[v] \in PutRow
    BY PutsAreRows
  <1>0. \A row \in PutRow :
          /\ [row EXCEPT !.until = now] \in PutRow
          /\ [row EXCEPT !.until = now].key = row.key
          /\ [row EXCEPT !.until = now].until = now
    BY DEF TypeOK, PutRow
  <1>3. \A v \in 1 .. Len(puts) :
          /\ ended[v] \in PutRow /\ ended[v].key = puts[v].key
          /\ ended[v].until = IF v = store[k] THEN now ELSE puts[v].until
    BY <1>0, <1>1, <1>2
  <1>4. ended \in Seq(PutRow) /\ Len(ended) = Len(puts)
    BY <1>1, <1>3, IsASeq
  <1>5. new \in PutRow
    BY DEF PutRow
  <1>6. puts' = Append(ended, new) /\ Len(puts) < MaxPuts /\ store' = [store EXCEPT ![k] = Len(puts) + 1]
    BY DEF Put
  <1> HIDE DEF ended, new
  <1>7. /\ puts' \in Seq(PutRow) /\ Len(puts') = Len(puts) + 1 /\ puts'[Len(puts) + 1] = new
        /\ \A v \in 1 .. Len(puts) : puts'[v] = ended[v]
    BY <1>4, <1>5, <1>6
  <1>8. Len(puts) + 1 \in Versions
    BY <1>1, <1>6, GatewayAssumption DEF Versions
  <1>9. /\ store' \in [Keys -> Versions \cup {NoObject}]
        /\ \A j \in Keys : store'[j] = IF j = k THEN Len(puts) + 1 ELSE store[j]
    BY <1>6, <1>8 DEF TypeOK
  <1>10. new.key = k /\ new.until = Current
    BY DEF new
  <1>11. Len(puts') <= MaxPuts
    BY <1>1, <1>6, <1>7, GatewayAssumption
  <1>12. puts' \in Seq([ key : Keys, until : Nat \cup {Current} ])
    BY <1>7 DEF PutRow
  <1> QED BY <1>3, <1>7, <1>9, <1>10, <1>11, <1>12

\* The store keeps the last object under each key, and only that is current.
LEMMA PutStored ==
  ASSUME TypeOK, Stored, NEW k \in Keys, Put(k)
  PROVE  Stored'
  <1>0. Len(puts) \in Nat /\ \A j \in Keys : store[j] \in Nat
    BY DEF TypeOK, Versions, NoObject
  <1>1. Len(puts') <= MaxPuts
    BY PutAppends
  <1>2. ASSUME NEW j \in Keys
        PROVE  /\ store'[j] <= Len(puts')
               /\ store'[j] # NoObject => puts'[store'[j]].key = j /\ puts'[store'[j]].until = Current
    <2>1. CASE j = k
      BY <2>1, <1>0, PutAppends
    <2>2. CASE j # k
      <3>1. store'[j] = store[j] /\ store[j] <= Len(puts)
        BY <2>2, PutAppends DEF Stored
      <3>2. ASSUME store[j] # NoObject
            PROVE  puts'[store[j]].key = j /\ puts'[store[j]].until = Current
        <4>1. store[j] \in 1 .. Len(puts) /\ puts[store[j]].key = j /\ puts[store[j]].until = Current
          BY <1>0, <3>1, <3>2 DEF Stored, NoObject
        <4>2. store[j] # store[k]
          BY <2>2, <4>1, <3>2 DEF Stored
        <4> QED BY <4>1, <4>2, PutAppends
      <3> QED BY <1>0, <3>1, <3>2, PutAppends
    <2> QED BY <2>1, <2>2
  <1>3. ASSUME NEW v \in 1 .. Len(puts')
        PROVE  v <= store'[puts'[v].key]
    <2>1. CASE v = Len(puts) + 1
      BY <2>1, <1>0, PutAppends
    <2>2. CASE v # Len(puts) + 1
      <3>1. v \in 1 .. Len(puts) /\ puts'[v].key = puts[v].key /\ puts[v].key \in Keys
        <4>1. v \in 1 .. Len(puts)
          BY <1>0, <2>2, PutAppends
        <4>2. puts[v].key \in Keys
          BY <4>1, PutsAreRows
        <4> QED BY <4>1, <4>2, PutAppends
      <3>2. v <= store[puts[v].key]
        BY <3>1 DEF Stored
      <3> QED BY <1>0, <3>1, <3>2, PutAppends
    <2> QED BY <2>1, <2>2
  <1> QED BY <1>1, <1>2, <1>3 DEF Stored

-----------------------------------------------------------------------------
(* The invariant is inductive *)

\* Nothing is stored, handed out or answered at first.
LEMMA InitIInv == Init => IInv
  <1> SUFFICES ASSUME Init PROVE IInv
    OBVIOUS
  <1>1. Len(puts) = 0 /\ puts \in Seq([ key : Keys, until : Nat \cup {Current} ])
    BY EmptySeq DEF Init
  <1>2. TypeOK
    BY <1>1 DEF Init, TypeOK, Entries, NotCached, NoObject
  <1>3. Stored
    BY <1>1, GatewayAssumption DEF Init, Stored, NoObject
  <1>4. Holding
    BY DEF Init, Holding, Works
  <1>5. Given
    BY <1>1 DEF Init, Given, Kept, Under, OwnedBy, NotCached
  <1>6. Explained /\ UnaryCallsHaveClaims
    BY DEF Init, Explained, UnaryCallsHaveClaims, NoAnswer
  <1> QED BY <1>2, <1>3, <1>4, <1>5, <1>6 DEF IInv

\* A step of one goroutine that leaves the store and what was given alone.
LEMMA RequestKeeps ==
  ASSUME IInv, NEW r \in Requests,
         UNCHANGED <<setting, storage, urls, caches, now, uploaded>>,
         started' \in Nat, DOMAIN req' = Requests,
         \A s \in Requests \ {r} : req'[s] = req[s], Works(req'[r]),
         Explained', UnaryCallsHaveClaims'
  PROVE  IInv'
  <1> USE DEF storage, caches
  <1>1. \A s \in Requests : Works(req'[s])
    BY DEF IInv, Holding
  <1>2. \A s \in Requests : Works(req[s])'
    BY <1>1 DEF Works, Got
  <1>3. \A s \in Requests :
          \/ req'[s] = Idle
          \/ req'[s].pc \in {"put", "presign", "get", "deliver"} /\ req'[s].key \in Keys
    BY <1>1 DEF Works
  <1>4. TypeOK'
    BY <1>3 DEF IInv, TypeOK
  <1>5. Stored' /\ Given'
    BY DEF IInv, Stored, Given, Kept, Under, OwnedBy
  <1> QED BY <1>2, <1>4, <1>5 DEF IInv, Holding

\* The same for a step that replies, with an answer that tells nothing of tokens.
LEMMA ReplyKeeps ==
  ASSUME IInv, NEW r \in Requests, req' = [req EXCEPT ![r] = Idle],
         UNCHANGED <<setting, storage, urls, caches, now, uploaded>>, started' \in Nat,
         answer'.kind = "REST",
         answer'.status \in {400, 404, 500}
  PROVE  IInv'
  <1>1. DOMAIN req' = Requests /\ req'[r] = Idle /\ \A s \in Requests \ {r} : req'[s] = req[s]
    BY DEF IInv, TypeOK
  <1>2. Works(req'[r])
    BY <1>1 DEF Works
  <1>3. Explained' /\ UnaryCallsHaveClaims'
    BY DEF Explained, UnaryCallsHaveClaims
  <1> QED BY <1>1, <1>2, <1>3, RequestKeeps

\* REST requests: a route or none, the middleware, the handler.
LEMMA RESTKeeps ==
  ASSUME IInv, NEW r \in Requests,
         NEW client \in Clients, NEW task \in Tasks, NEW name \in Names, NEW x \in Sent,
         REST(r, Requested(client, x[1].method, Filled(x[1].path, Values(task, name)), x[2]))
  PROVE  IInv'
  <1> DEFINE path == Filled(x[1].path, Values(task, name))
             q == Requested(client, x[1].method, path, x[2])
  <1>0. /\ UNCHANGED <<setting, now>> /\ started' \in Nat /\ setting \in Settings
        /\ q.client = client /\ q.method = x[1].method /\ q.path = path
    BY DEF REST, Accept, IInv, TypeOK, Requested
  <1> HIDE DEF q
  <1>1. CASE NoRoute(r, q)
    <2>1. /\ req' = [req EXCEPT ![r] = Idle] /\ UNCHANGED <<storage, urls, caches, uploaded>>
          /\ answer' = Answered(q, IF setting = "program" THEN 404 ELSE 400, "none", FALSE)
      BY <1>1 DEF NoRoute, Reply
    <2>2. answer'.kind = "REST" /\ answer'.status \in {400, 404, 500}
      BY <2>1 DEF Answered
    <2>4. req' = [req EXCEPT ![r] = Idle]
      BY <2>1
    <2>3. UNCHANGED <<setting, storage, urls, caches, now, uploaded>> /\ started' \in Nat
      BY <1>0, <2>1
    <2> QED BY <2>2, <2>3, <2>4, ReplyKeeps
  <1>2. ASSUME NEW route \in Routes, Abort(r, q, route) \/ Handle(r, q, route)
        PROVE  IInv'
    <2>1. DOMAIN req' = Requests /\ req'[r] = Idle /\ \A s \in Requests \ {r} : req'[s] = req[s]
      BY <1>2 DEF Abort, Handle, Reply, IInv, TypeOK
    <2>2. Works(req'[r])
      BY <2>1 DEF Works
    <2>3. /\ answer'.kind = "REST" /\ answer'.request = q
          /\ \/ answer'.status = 401 /\ route.protected /\ q.credential # "valid"
             \/ answer'.status = 200 /\ (route.protected => q.credential = "valid")
      <3>1. CASE Abort(r, q, route)
        <4>1. answer' = Answered(q, 401, "none", FALSE) /\ route.protected /\ q.credential # "valid"
          BY <3>1 DEF Abort, Reply, JWTAuthMiddleware
        <4> QED BY <4>1 DEF Answered
      <3>2. CASE Handle(r, q, route)
        <4>1. /\ answer' = Answered(q, 200, route.handler, ClaimsSet(route))
              /\ route.protected => q.credential = "valid"
          BY <3>2 DEF Handle, Reply, JWTAuthMiddleware
        <4> QED BY <4>1 DEF Answered
      <3> QED BY <1>2, <3>1, <3>2
    <2>4. Explained'
      <3> SUFFICES ASSUME setting = "program"
                   PROVE  \E rt \in SetupRouter :
                            /\ Matches(rt.path, answer'.request.path)
                            /\ answer'.request.credential # "valid" =>
                                 (answer'.status = 401) = rt.protected
        BY <1>0 DEF Explained
      <3>1. route \in SetupRouter /\ route.protected \in BOOLEAN
        BY ProgramRoutes DEF Routes
      <3>2. Matches(route.path, answer'.request.path)
        BY <1>2, <2>3 DEF Abort, Handle, Routed
      <3>3. ASSUME answer'.request.credential # "valid"
            PROVE  (answer'.status = 401) = route.protected
        <4>1. CASE answer'.status = 401 /\ route.protected
          BY <3>1, <4>1
        <4>2. CASE answer'.status = 200 /\ ~ route.protected
          BY <3>1, <4>2
        <4> QED BY <2>3, <3>3, <4>1, <4>2
      <3> QED BY <3>1, <3>2, <3>3
    <2>5. UnaryCallsHaveClaims'
      BY <2>3 DEF UnaryCallsHaveClaims
    <2> QED BY <1>0, <1>2, <2>1, <2>2, <2>4, <2>5, RequestKeeps DEF Abort, Handle
  <1>3. ASSUME NEW route \in Routes, NEW n \in Names, NEW attached \in Attachments,
               UploadImage(r, q, route, n, attached)
        PROVE  IInv'
    <2> DEFINE taskID == Param(route.path, q.path, ":task_id")
    <2>1. \/ setting = "imageTests" /\ taskID = task
          \/ setting = "program" /\ taskID = ""
      <3>1. route.method = x[1].method /\ Matches(route.path, path)
        BY <1>0, <1>3 DEF UploadImage, Routed
      <3>2. taskID = Param(route.path, path, ":task_id")
        BY <1>0
      <3> QED BY <1>0, <1>3, <3>1, <3>2, ParamsFound DEF UploadImage
    <2>2. CASE \E status \in {400, 500} :
                 Reply(r, Answered(q, status, "UploadImage", ClaimsSet(route)))
      <3>0. PICK status \in {400, 500} :
              Reply(r, Answered(q, status, "UploadImage", ClaimsSet(route)))
        BY <2>2
      <3>1. /\ req' = [req EXCEPT ![r] = Idle] /\ UNCHANGED <<storage, urls, caches, uploaded>>
            /\ answer' = Answered(q, status, "UploadImage", ClaimsSet(route))
        BY <1>3, <3>0 DEF UploadImage, Reply
      <3>2. answer'.kind = "REST" /\ answer'.status = status
        BY <3>1 DEF Answered
      <3>3. req' = [req EXCEPT ![r] = Idle] /\ answer'.status \in {400, 404, 500}
        BY <3>1, <3>2
      <3>4. UNCHANGED <<setting, storage, urls, caches, now, uploaded>> /\ started' \in Nat
        BY <1>0, <3>1
      <3> QED BY <3>2, <3>3, <3>4, ReplyKeeps
    <2>3. CASE taskID # "" /\ UNCHANGED answer /\ req' = [req EXCEPT ![r] =
                 [ pc |-> "put", request |-> q, key |-> ImageKey(q.client, taskID, n) ]]
      <3>1. setting = "imageTests" /\ ImageKey(q.client, taskID, n) \in Keys
        BY <1>0, <2>1, <2>3 DEF ImageKey, Keys
      <3>2. DOMAIN req' = Requests /\ \A s \in Requests \ {r} : req'[s] = req[s]
        BY <2>3 DEF IInv, TypeOK
      <3>3. req'[r].pc = "put" /\ req'[r].key \in Keys
        BY <2>3, <3>1 DEF IInv, TypeOK
      <3>4. Works(req'[r])
        BY <3>1, <3>3 DEF Works
      <3>5. Explained' /\ UnaryCallsHaveClaims'
        <4>1. answer' = answer /\ setting' = setting
          BY <1>0, <2>3
        <4> QED BY <4>1 DEF IInv, Explained, UnaryCallsHaveClaims
      <3>6. UNCHANGED <<setting, storage, urls, caches, now, uploaded>> /\ started' \in Nat
        BY <1>0, <1>3 DEF UploadImage
      <3> QED BY <3>2, <3>4, <3>5, <3>6, RequestKeeps
    <2>4. CASE taskID # "" /\ attached = "file"
      BY <1>3, <2>3, <2>4 DEF UploadImage
    <2>5. CASE ~ (taskID # "" /\ attached = "file")
      <3>1. \/ Reply(r, Answered(q, 400, "UploadImage", ClaimsSet(route)))
            \/ Reply(r, Answered(q, 500, "UploadImage", ClaimsSet(route)))
        BY <1>3, <2>5 DEF UploadImage, Attachments
      <3>2. \E status \in {400, 500} :
              Reply(r, Answered(q, status, "UploadImage", ClaimsSet(route)))
        <4> DEFINE R(status) == Reply(r, Answered(q, status, "UploadImage", ClaimsSet(route)))
        <4>1. R(400) \/ R(500)
          BY <3>1
        <4> HIDE DEF R
        <4>2. \E status \in {400, 500} : R(status)
          BY <4>1
        <4> QED BY <4>2 DEF R
      <3> QED BY <2>2, <3>2
    <2> QED BY <2>4, <2>5
  <1>4. ASSUME NEW route \in Routes, GetImage(r, q, route)
        PROVE  IInv'
    <2> DEFINE taskID == Param(route.path, q.path, ":task_id")
               filename == Param(route.path, q.path, ":image_id")
               get == [ pc |-> "get", request |-> q, name |-> filename,
                        key |-> ImageKey(q.client, taskID, Decoded(filename)) ]
    <2>1. \/ setting = "imageTests" /\ taskID = task /\ filename = name
          \/ setting = "program" /\ filename = ""
      <3>1. route.method = x[1].method /\ Matches(route.path, path)
        BY <1>0, <1>4 DEF GetImage, Routed
      <3>2. taskID = Param(route.path, path, ":task_id")
            /\ filename = Param(route.path, path, ":image_id")
        BY <1>0
      <3> QED BY <1>0, <1>4, <3>1, <3>2, ParamsFound DEF GetImage
    <2>2. CASE Reply(r, Answered(q, 400, "GetImage", ClaimsSet(route)))
      <3>1. /\ req' = [req EXCEPT ![r] = Idle] /\ UNCHANGED <<storage, urls, caches, uploaded>>
            /\ answer' = Answered(q, 400, "GetImage", ClaimsSet(route))
        BY <1>4, <2>2 DEF GetImage, Reply
      <3>2. answer'.kind = "REST" /\ answer'.status = 400
        BY <3>1 DEF Answered
      <3> QED BY <1>0, <3>1, <3>2, ReplyKeeps
    <2>3. CASE filename \notin {"", "refused"} /\ UNCHANGED answer /\ req' = [req EXCEPT ![r] = get]
      <3>1. setting = "imageTests" /\ filename \in Names /\ taskID = task
        BY <2>1, <2>3
      <3>2. Decoded(filename) \in Names
        BY <3>1 DEF Decoded, Names
      <3>3. DOMAIN req' = Requests /\ \A s \in Requests \ {r} : req'[s] = req[s]
        BY <2>3 DEF IInv, TypeOK
      <3>4. req'[r] = get
        BY <2>3 DEF IInv, TypeOK
      <3>5. get.key \in Keys /\ get.key[1] = q.client /\ get.key[3] = Decoded(filename)
        BY <1>0, <3>1, <3>2 DEF ImageKey, Keys
      <3>6. Works(req'[r])
        BY <3>1, <3>4, <3>5 DEF Works
      <3>7. Explained' /\ UnaryCallsHaveClaims'
        <4>1. answer' = answer /\ setting' = setting
          BY <1>0, <2>3
        <4> QED BY <4>1 DEF IInv, Explained, UnaryCallsHaveClaims
      <3>8. UNCHANGED <<setting, storage, urls, caches, now, uploaded>> /\ started' \in Nat
        BY <1>0, <1>4 DEF GetImage
      <3> QED BY <3>3, <3>6, <3>7, <3>8, RequestKeeps
    <2> QED BY <1>4, <2>2, <2>3 DEF GetImage
  <1>5. REST(r, q)
    BY DEF q
  <1> QED BY <1>1, <1>2, <1>3, <1>4, <1>5 DEF REST

\* Calls: an unprotected method of the task service is the stream.
LEMMA CallKeeps ==
  ASSUME IInv, NEW r \in Requests, NEW m \in ServiceDescs, NEW credential \in Credentials,
         NEW decodes \in BOOLEAN, Call(r, m, credential, decodes)
  PROVE  IInv'
  <1> DEFINE method == [ service |-> m.service, method |-> m.method ]
             a(status, handler, claims) ==
               [ kind |-> "gRPC", status |-> status, call |-> m, handler |-> handler,
                 claims |-> claims ]
  <1>1. /\ UNCHANGED <<setting, storage, urls, caches, now, uploaded>> /\ started' \in Nat
        /\ req' = [req EXCEPT ![r] = Idle]
    BY DEF Call, Accept, Reply, IInv, TypeOK
  <1>2. \/ answer' = a("Unimplemented", "none", FALSE)
        \/ answer' = a("Internal", "none", FALSE)
        \/ answer' = a("Unauthenticated", "none", FALSE)
        \/ m.service = "TaskService" /\ answer' = a("OK", m.method, method \in protectedMethods)
    BY DEF Call, Reply
  <1>3. DOMAIN req' = Requests /\ req'[r] = Idle /\ \A s \in Requests \ {r} : req'[s] = req[s]
    BY <1>1 DEF IInv, TypeOK
  <1>4. Works(req'[r])
    BY <1>3 DEF Works
  <1>5. Explained'
    BY <1>2 DEF Explained
  <1>6. UnaryCallsHaveClaims'
    <2>1. CASE m.service = "TaskService" /\ answer' = a("OK", m.method, method \in protectedMethods)
      <3>1. CASE m.stream
        <4>1. answer'.call = m
          BY <2>1
        <4> QED BY <3>1, <4>1 DEF UnaryCallsHaveClaims
      <3>2. CASE ~ m.stream
        <4>1. m \in TaskService_ServiceDesc
          BY <2>1 DEF ServiceDescs, TaskService_ServiceDesc, ImageService_ServiceDesc,
             ImageProcessingService_ServiceDesc, ImageRecognitionService_ServiceDesc, Methods
        <4>2. m.method \in {"ReserveTask", "ReportTaskStatus", "FinishTask", "FailTask"}
          BY <3>2, <4>1 DEF TaskService_ServiceDesc, Methods
        <4>3. method \in protectedMethods
          BY <2>1, <4>2 DEF protectedMethods
        <4>4. answer' = a("OK", m.method, TRUE)
          BY <2>1, <4>3
        <4>5. answer'.claims = TRUE
          BY <4>4
        <4> QED BY <4>5 DEF UnaryCallsHaveClaims
      <3> QED BY <3>1, <3>2
    <2>2. CASE \E status \in {"Unimplemented", "Internal", "Unauthenticated"} :
                 answer' = a(status, "none", FALSE)
      BY <2>2 DEF UnaryCallsHaveClaims
    <2> QED BY <1>2, <2>1, <2>2
  <1> QED BY <1>1, <1>3, <1>4, <1>5, <1>6, RequestKeeps

\* A put ends what browsers and goroutines hold under its key, in this tick.
LEMMA PutKeeps ==
  ASSUME IInv, NEW r \in Requests, PutObject(r) \/ PutRetried(r)
  PROVE  IInv'
  <1> DEFINE presign == [ pc |-> "presign", request |-> req[r].request, key |-> req[r].key,
                          version |-> Len(puts) + 1 ]
  <1>0. TypeOK /\ Stored /\ Holding /\ Given
    BY DEF IInv
  <1>1. /\ At(r, "put") /\ Put(req[r].key)
        /\ UNCHANGED <<setting, urls, caches, started, now, uploaded, answer>>
        /\ req' = req \/ req' = [req EXCEPT ![r] = presign]
    BY DEF PutObject, PutRetried
  <1>2. req[r].key \in Keys /\ setting = "imageTests"
    BY <1>0, <1>1 DEF Holding, Works, At, Idle
  <1>3. Stored'
    BY <1>0, <1>1, <1>2, PutStored
  <1>4. Len(puts) \in Nat /\ Len(puts') = Len(puts) + 1 /\ 1 .. Len(puts) \subseteq 1 .. Len(puts')
        /\ Len(puts') <= MaxPuts
    BY <1>0, <1>1, <1>2, PutsAreRows, PutAppends
  <1>5. \A v \in 1 .. Len(puts) :
          /\ puts'[v].key = puts[v].key
          /\ puts'[v].until = puts[v].until \/ puts'[v].until = now
    BY <1>0, <1>1, <1>2, PutAppends
  <1>6. \A q : Works(q) => Works(q)'
    BY <1>1, <1>4, <1>5 DEF Works, Got
  <1>7. Works(req[r])'
    <2>1. CASE req' = req
      BY <1>0, <1>6, <2>1 DEF Holding
    <2>2. CASE req' = [req EXCEPT ![r] = presign]
      <3>1. req'[r] = presign
        BY <1>0, <2>2 DEF TypeOK
      <3>2. req'[r].pc = "presign" /\ req'[r].key = req[r].key /\ req'[r].version = Len(puts) + 1
        BY <3>1
      <3>3. puts'[Len(puts) + 1].key = req[r].key /\ Len(puts) + 1 \in 1 .. Len(puts')
        BY <1>0, <1>1, <1>2, <1>4, PutAppends
      <3> QED BY <1>1, <1>2, <3>2, <3>3 DEF Works, Got
    <2> QED BY <1>1, <2>1, <2>2
  <1>8. DOMAIN req' = Requests /\ \A s \in Requests \ {r} : req'[s] = req[s]
    BY <1>0, <1>1 DEF TypeOK
  <1> HIDE DEF presign
  <1>9. Holding'
    BY <1>0, <1>6, <1>7, <1>8 DEF Holding
  <1>10. TypeOK'
    <2>1. \A s \in Requests :
            \/ req'[s] = Idle
            \/ req'[s].pc \in {"put", "presign", "get", "deliver"} /\ req'[s].key \in Keys
      BY <1>9 DEF Holding, Works
    <2>2. /\ puts' \in Seq([ key : Keys, until : Nat \cup {Current} ])
          /\ store' \in [Keys -> Versions \cup {NoObject}]
      BY <1>0, <1>1, <1>2, PutAppends
    <2> QED BY <1>0, <1>1, <1>8, <2>1, <2>2 DEF TypeOK, caches
  <1>11. Given'
    <2>1. \A u \in urls : store'[u.key] # NoObject
      <3> SUFFICES ASSUME NEW u \in urls PROVE store'[u.key] # NoObject
        OBVIOUS
      <3>1. u.key \in Keys /\ store[u.key] # NoObject
        BY <1>0 DEF TypeOK, Given
      <3> QED BY <1>0, <1>1, <1>2, <1>4, <3>1, PutAppends DEF NoObject
    <2>2. ASSUME NEW e \in Entries, NEW client, NEW task, NEW name
          PROVE  /\ Kept(e) => Kept(e)'
                 /\ Kept(e) /\ Under(e, task, name) => Under(e, task, name)'
                 /\ Kept(e) /\ OwnedBy(e, client) => OwnedBy(e, client)'
      <3>1. now \in Nat /\ e.at \in Nat
        BY <1>0 DEF TypeOK, Entries
      <3> QED BY <1>1, <1>4, <1>5, <3>1 DEF Kept, Under, OwnedBy
    <2>4. /\ \A k \in Keys : cache[k] \in Entries
          /\ \A k \in Tasks \X Names : shared[k] \in Entries
      BY <1>0 DEF TypeOK
    <2>5. \A k \in Keys :
            (Kept(cache[k]) /\ Under(cache[k], k[2], k[3]) /\ OwnedBy(cache[k], k[1]))'
      BY <1>0, <1>1, <2>2, <2>4 DEF Given, caches
    <2>6. \A k \in Tasks \X Names : (Kept(shared[k]) /\ Under(shared[k], k[1], k[2]))'
      BY <1>0, <1>1, <2>2, <2>4 DEF Given, caches
    <2>3. uploaded \subseteq 1 .. Len(puts')
      BY <1>0, <1>4 DEF Given
    <2> QED BY <1>1, <2>1, <2>3, <2>5, <2>6 DEF Given
  <1>12. Explained' /\ UnaryCallsHaveClaims'
    BY <1>1 DEF IInv, Explained, UnaryCallsHaveClaims
  <1> QED BY <1>3, <1>9, <1>10, <1>11, <1>12 DEF IInv

\* The answer of an upload: its object is there for the URL.
LEMMA PresignKeeps ==
  ASSUME IInv, NEW r \in Requests, GetPresignedURL(r)
  PROVE  IInv'
  <1> USE DEF storage, caches
  <1>0. TypeOK /\ Stored /\ Holding /\ Given
    BY DEF IInv
  <1>1. /\ UNCHANGED <<setting, storage, caches, started, now>>
        /\ req' = [req EXCEPT ![r] = Idle]
        /\ answer'.kind = "REST"
    BY DEF GetPresignedURL, Reply, Answered
  <1>2. /\ setting = "imageTests" /\ req[r].key \in Keys
        /\ req[r].version \in 1 .. Len(puts) /\ puts[req[r].version].key = req[r].key
    BY <1>0 DEF GetPresignedURL, At, Holding, Works, Got, Idle
  <1>3. store[req[r].key] # NoObject
    <2>1. Len(puts) \in Nat
      BY <1>0, PutsAreRows
    <2>2. store[req[r].key] \in Nat
      BY <1>0, <1>2, GatewayAssumption DEF TypeOK, Versions, NoObject
    <2>3. req[r].version <= store[puts[req[r].version].key]
      BY <1>0, <1>2 DEF Stored
    <2> QED BY <1>2, <2>1, <2>2, <2>3 DEF NoObject
  <1>4. /\ urls' = urls \/ urls' = urls \cup { [ key |-> req[r].key, expires |-> now + URLDuration ] }
        /\ uploaded' \subseteq uploaded \cup {req[r].version}
    BY DEF GetPresignedURL
  <1>5. DOMAIN req' = Requests /\ req'[r] = Idle /\ \A s \in Requests \ {r} : req'[s] = req[s]
    BY <1>0, <1>1 DEF TypeOK
  <1>6. Holding'
    BY <1>0, <1>1, <1>5 DEF Holding, Works, Got
  <1>7. TypeOK'
    <2>1. now + URLDuration \in Nat
      BY <1>0, GatewayAssumption DEF TypeOK
    <2>2. urls' \subseteq [ key : Keys, expires : Nat ]
      BY <1>0, <1>2, <1>4, <2>1 DEF TypeOK
    <2>3. req[r].version \in Versions
      <3>1. Len(puts) \in Nat /\ Len(puts) <= MaxPuts
        BY <1>0, PutsAreRows DEF Stored
      <3> QED BY <1>2, <3>1, GatewayAssumption DEF Versions
    <2>4. \A s \in Requests : req'[s] = Idle \/ req'[s] = req[s]
      BY <1>5
    <2> QED BY <1>0, <1>1, <1>4, <1>5, <2>2, <2>3, <2>4 DEF TypeOK
  <1>8. Stored'
    BY <1>0, <1>1 DEF Stored
  <1>9. Given'
    <2>1. \A u \in urls' : store[u.key] # NoObject
      BY <1>0, <1>3, <1>4 DEF Given
    <2>2. uploaded' \subseteq 1 .. Len(puts)
      BY <1>0, <1>2, <1>4 DEF Given
    <2> QED BY <1>0, <1>1, <2>1, <2>2 DEF Given, Kept, Under, OwnedBy
  <1>10. Explained' /\ UnaryCallsHaveClaims'
    BY <1>1, <1>2 DEF Explained, UnaryCallsHaveClaims
  <1> QED BY <1>6, <1>7, <1>8, <1>9, <1>10 DEF IInv

\* What the store has is current, and of the key that is asked for.
LEMMA GetObjectKeeps ==
  ASSUME IInv, NEW r \in Requests, GetObject(r) \/ PutFails(r)
  PROVE  IInv'
  <1> DEFINE deliver == [ pc |-> "deliver", request |-> req[r].request, name |-> req[r].name,
                          key |-> req[r].key, version |-> store[req[r].key] ]
  <1>0. TypeOK /\ Stored /\ Holding
    BY DEF IInv
  <1>1. UNCHANGED <<setting, storage, urls, caches, started, now, uploaded>> /\ started' \in Nat
    BY <1>0 DEF GetObject, PutFails, TypeOK
  <1>2. CASE /\ At(r, "get") /\ store[req[r].key] # NoObject /\ UNCHANGED answer
             /\ req' = [req EXCEPT ![r] = deliver]
    <2>1. /\ setting = "imageTests" /\ req[r].key \in Keys
          /\ req[r].name \in Names /\ req[r].key[1] = req[r].request.client
          /\ req[r].key[3] = Decoded(req[r].name)
      BY <1>0, <1>2 DEF At, Holding, Works, Idle
    <2>2. /\ store[req[r].key] \in 1 .. Len(puts)
          /\ puts[store[req[r].key]].key = req[r].key /\ puts[store[req[r].key]].until = Current
      <3>1. Len(puts) \in Nat
        BY <1>0, PutsAreRows
      <3>2. store[req[r].key] \in Nat
        <4>1. store \in [Keys -> Versions \cup {NoObject}]
          BY <1>0 DEF TypeOK
        <4> QED BY <2>1, <4>1, GatewayAssumption DEF Versions, NoObject
      <3> QED BY <1>0, <1>2, <2>1, <3>1, <3>2 DEF Stored, NoObject
    <2>3. DOMAIN req' = Requests /\ req'[r] = deliver /\ \A s \in Requests \ {r} : req'[s] = req[s]
      BY <1>0, <1>2 DEF TypeOK
    <2>4. /\ req'[r].pc = "deliver" /\ req'[r].request = req[r].request
          /\ req'[r].name = req[r].name /\ req'[r].key = req[r].key
          /\ req'[r].version = store[req[r].key]
      BY <2>3
    <2>5. Works(req'[r])
      BY <2>1, <2>2, <2>4 DEF Works, Got
    <2>6. Explained' /\ UnaryCallsHaveClaims'
      BY <1>1, <1>2 DEF IInv, Explained, UnaryCallsHaveClaims
    <2> QED BY <1>1, <2>3, <2>5, <2>6, RequestKeeps
  <1>3. CASE \E status \in {404, 500}, h \in {"GetImage", "UploadImage"} :
               Reply(r, Answered(req[r].request, status, h, TRUE))
    <2>1. /\ req' = [req EXCEPT ![r] = Idle]
          /\ answer'.kind = "REST" /\ answer'.status \in {400, 404, 500}
      BY <1>3 DEF Reply, Answered
    <2>2. UNCHANGED <<setting, storage, urls, caches, now, uploaded>>
      BY <1>1
    <2>3. started' \in Nat
      BY <1>1
    <2> QED BY <2>1, <2>2, <2>3, ReplyKeeps
  <1>4. CASE PutFails(r)
    <2>1. Reply(r, Answered(req[r].request, 500, "UploadImage", TRUE))
      BY <1>4 DEF PutFails
    <2> QED BY <1>3, <2>1
  <1>5. CASE GetObject(r)
    <2>1. CASE UNCHANGED answer /\ req' = [req EXCEPT ![r] = deliver]
               /\ At(r, "get") /\ store[req[r].key] # NoObject
      BY <1>2, <2>1
    <2>2. CASE Reply(r, Answered(req[r].request, 404, "GetImage", TRUE))
      BY <1>3, <2>2
    <2>3. CASE Reply(r, Answered(req[r].request, 500, "GetImage", TRUE))
      BY <1>3, <2>3
    <2> QED BY <1>5, <2>1, <2>2, <2>3 DEF GetObject
  <1> QED BY <1>4, <1>5

\* Caches that get entries which are kept, under their paths, keep the invariant.
LEMMA CachesKeep ==
  ASSUME IInv, UNCHANGED <<setting, storage, urls, started, now, uploaded>>,
         cache' \in [Keys -> Entries], shared' \in [Tasks \X Names -> Entries],
         \A k \in Keys :
           Kept(cache'[k]) /\ Under(cache'[k], k[2], k[3]) /\ OwnedBy(cache'[k], k[1]),
         \A k \in Tasks \X Names : Kept(shared'[k]) /\ Under(shared'[k], k[1], k[2]),
         DOMAIN req' = Requests, \A s \in Requests : req'[s] \in {Idle, req[s]},
         Explained', UnaryCallsHaveClaims'
  PROVE  IInv'
  <1> USE DEF storage
  <1>0. TypeOK /\ Stored /\ Holding /\ Given
    BY DEF IInv
  <1>1. TypeOK'
    <2>1. \A s \in Requests : req'[s] = Idle \/ req'[s] = req[s]
      OBVIOUS
    <2> QED BY <1>0, <2>1 DEF TypeOK
  <1>2. Stored'
    BY <1>0 DEF Stored
  <1>3. Holding'
    BY <1>0 DEF Holding, Works, Got
  <1>4. Given'
    <2>1. \A e, task, name, client :
            /\ Kept(e) => Kept(e)'
            /\ Under(e, task, name) => Under(e, task, name)'
            /\ OwnedBy(e, client) => OwnedBy(e, client)'
      BY DEF Kept, Under, OwnedBy
    <2>2. \A k \in Keys :
            (Kept(cache[k]) /\ Under(cache[k], k[2], k[3]) /\ OwnedBy(cache[k], k[1]))'
      BY <2>1
    <2>3. \A k \in Tasks \X Names : (Kept(shared[k]) /\ Under(shared[k], k[1], k[2]))'
      BY <2>1
    <2> QED BY <1>0, <2>2, <2>3 DEF Given
  <1> QED BY <1>1, <1>2, <1>3, <1>4 DEF IInv

\* The browser keeps, under the path, an image of the key the path decodes to, and
\* so may the shared cache.
LEMMA DeliverKeeps ==
  ASSUME IInv, NEW r \in Requests, Deliver(r)
  PROVE  IInv'
  <1> DEFINE k == <<req[r].request.client, req[r].key[2], req[r].name>>
             j == <<req[r].key[2], req[r].name>>
             entry == [ version |-> req[r].version, at |-> now, from |-> "program" ]
  <1>0. TypeOK /\ Stored /\ Holding /\ Given
    BY DEF IInv
  <1>1. /\ UNCHANGED <<setting, storage, urls, started, now, uploaded>>
        /\ req' = [req EXCEPT ![r] = Idle]
        /\ answer'.kind = "REST"
        /\ cache' = [cache EXCEPT ![k] = entry]
        /\ shared' = [shared EXCEPT ![j] = entry] \/ shared' = shared
    BY DEF Deliver, Reply, Answered
  <1>2. /\ setting = "imageTests" /\ req[r].key \in Keys /\ Got(req[r])
        /\ req[r].name \in Names /\ req[r].key[1] = req[r].request.client
        /\ req[r].key[3] = Decoded(req[r].name)
        /\ puts[req[r].version].until \in {Current, now}
    BY <1>0 DEF Deliver, At, Holding, Works, Idle
  <1>3. /\ k \in Keys /\ j \in Tasks \X Names
        /\ k[1] = req[r].key[1] /\ k[2] = req[r].key[2] /\ Decoded(k[3]) = req[r].key[3]
        /\ j[1] = req[r].key[2] /\ Decoded(j[2]) = req[r].key[3]
    BY <1>2 DEF Keys
  <1>4. DOMAIN req' = Requests /\ \A s \in Requests : req'[s] \in {Idle, req[s]}
    BY <1>0, <1>1 DEF TypeOK
  <1>5. /\ entry.version = req[r].version /\ entry.at = now /\ entry.from = "program"
        /\ entry \in Entries
    <2>1. Len(puts) \in Nat /\ Len(puts) <= MaxPuts /\ now \in Nat
      BY <1>0, PutsAreRows DEF Stored, TypeOK
    <2>2. req[r].version \in Versions
      BY <1>2, <2>1, GatewayAssumption DEF Got, Versions
    <2> QED BY <2>1, <2>2 DEF Entries
  <1> HIDE DEF k, j, entry
  <1>6. /\ cache' \in [Keys -> Entries]
        /\ \A i \in Keys : cache'[i] = IF i = k THEN entry ELSE cache[i]
    BY <1>0, <1>1, <1>5 DEF TypeOK
  <1>7. /\ shared' \in [Tasks \X Names -> Entries]
        /\ \A i \in Tasks \X Names : shared'[i] = shared[i] \/ (i = j /\ shared'[i] = entry)
    BY <1>0, <1>1, <1>5 DEF TypeOK
  <1>8. /\ Kept(entry) /\ Under(entry, k[2], k[3]) /\ OwnedBy(entry, k[1])
        /\ Under(entry, j[1], j[2])
    <2>1. now \in Nat
      BY <1>0 DEF TypeOK
    <2> QED BY <1>2, <1>3, <1>5, <2>1 DEF Got, Kept, Under, OwnedBy
  <1>9. \A i \in Keys :
          Kept(cache'[i]) /\ Under(cache'[i], i[2], i[3]) /\ OwnedBy(cache'[i], i[1])
    BY <1>0, <1>6, <1>8 DEF Given
  <1>10. \A i \in Tasks \X Names : Kept(shared'[i]) /\ Under(shared'[i], i[1], i[2])
    BY <1>0, <1>7, <1>8 DEF Given
  <1>11. Explained' /\ UnaryCallsHaveClaims'
    BY <1>1, <1>2 DEF Explained, UnaryCallsHaveClaims
  <1> QED BY <1>1, <1>4, <1>6, <1>7, <1>9, <1>10, <1>11, CachesKeep

\* What the shared cache answers with keeps its age and its path.
LEMMA ServeSharedKeeps ==
  ASSUME IInv, NEW client \in Clients, NEW task \in Tasks, NEW name \in Names,
         ServeShared(client, task, name)
  PROVE  IInv'
  <1> DEFINE k == <<client, task, name>>
             old == shared[<<task, name>>]
             entry == [ old EXCEPT !.from = "shared" ]
  <1>0. TypeOK /\ Given
    BY DEF IInv
  <1>1. /\ UNCHANGED <<setting, storage, urls, shared, req, started, now, uploaded, answer>>
        /\ cache' = [cache EXCEPT ![k] = entry]
    BY DEF ServeShared
  <1>2. k \in Keys /\ k[2] = task /\ k[3] = name /\ <<task, name>> \in Tasks \X Names
    BY DEF Keys
  <1>3. old \in Entries /\ Kept(old) /\ Under(old, task, name)
    <2>1. <<task, name>>[1] = task /\ <<task, name>>[2] = name
      OBVIOUS
    <2> QED BY <1>0, <1>2, <2>1 DEF TypeOK, Given
  <1> HIDE DEF old
  <1>4. entry \in Entries /\ entry.version = old.version /\ entry.at = old.at /\ entry.from = "shared"
    BY <1>3 DEF Entries
  <1> HIDE DEF entry, k
  <1>5. Kept(entry) /\ Under(entry, k[2], k[3]) /\ OwnedBy(entry, k[1])
    BY <1>2, <1>3, <1>4 DEF Kept, Under, OwnedBy
  <1>6. /\ cache' \in [Keys -> Entries]
        /\ \A i \in Keys : cache'[i] = IF i = k THEN entry ELSE cache[i]
    BY <1>0, <1>1, <1>4 DEF TypeOK
  <1>7. \A i \in Keys :
          Kept(cache'[i]) /\ Under(cache'[i], i[2], i[3]) /\ OwnedBy(cache'[i], i[1])
    BY <1>0, <1>5, <1>6 DEF Given
  <1>8. /\ shared' \in [Tasks \X Names -> Entries]
        /\ \A i \in Tasks \X Names : Kept(shared'[i]) /\ Under(shared'[i], i[1], i[2])
    BY <1>0, <1>1 DEF TypeOK, Given
  <1>9. DOMAIN req' = Requests /\ \A s \in Requests : req'[s] \in {Idle, req[s]}
    BY <1>0, <1>1 DEF TypeOK
  <1>10. Explained' /\ UnaryCallsHaveClaims'
    BY <1>1 DEF IInv, Explained, UnaryCallsHaveClaims
  <1> QED BY <1>1, <1>6, <1>7, <1>8, <1>9, <1>10, CachesKeep

\* Time passes while no image is on its way.
LEMMA TickKeeps ==
  ASSUME IInv, Tick
  PROVE  IInv'
  <1> USE DEF Tick, storage, caches, At
  <1>0. TypeOK /\ Stored /\ Holding /\ Given
    BY DEF IInv
  <1>1. now' \in Nat /\ now <= now' /\ now \in Nat
    BY <1>0 DEF TypeOK
  <1>2. TypeOK' /\ Stored'
    BY <1>0, <1>1 DEF TypeOK, Stored
  <1>3. Holding'
    <2>1. \A r \in Requests : req[r] = Idle
      BY <1>0 DEF Holding, Works
    <2> QED BY <2>1 DEF Holding, Works
  <1>4. Given'
    <2>1. \A e \in Entries : \A task, name, client :
            /\ Kept(e) => Kept(e)'
            /\ Under(e, task, name) => Under(e, task, name)'
            /\ OwnedBy(e, client) => OwnedBy(e, client)'
      BY <1>1 DEF Entries, Kept, Under, OwnedBy
    <2>2. /\ \A k \in Keys : cache[k] \in Entries
          /\ \A k \in Tasks \X Names : shared[k] \in Entries
      BY <1>0 DEF TypeOK
    <2>3. \A k \in Keys :
            (Kept(cache[k]) /\ Under(cache[k], k[2], k[3]) /\ OwnedBy(cache[k], k[1]))'
      BY <1>0, <2>1, <2>2 DEF Given
    <2>4. \A k \in Tasks \X Names : (Kept(shared[k]) /\ Under(shared[k], k[1], k[2]))'
      BY <1>0, <2>1, <2>2 DEF Given
    <2> QED BY <1>0, <2>3, <2>4 DEF Given
  <1>5. Explained' /\ UnaryCallsHaveClaims'
    BY DEF IInv, Explained, UnaryCallsHaveClaims
  <1> QED BY <1>2, <1>3, <1>4, <1>5 DEF IInv

\* Every step keeps the invariant.
LEMMA Inductive == IInv /\ [Next]_vars => IInv'
  <1> SUFFICES ASSUME IInv, [Next]_vars PROVE IInv'
    OBVIOUS
  <1>1. CASE UNCHANGED vars
    <2> USE <1>1 DEF vars, storage, caches, IInv
    <2>1. TypeOK' /\ Stored'
      BY DEF TypeOK, Stored
    <2>2. Holding' /\ Given'
      BY DEF Holding, Works, Got, Given, Kept, Under, OwnedBy
    <2>3. Explained' /\ UnaryCallsHaveClaims'
      BY DEF Explained, UnaryCallsHaveClaims
    <2> QED BY <2>1, <2>2, <2>3
  <1>2. CASE Tick
    BY <1>2, TickKeeps
  <1>3. ASSUME NEW r \in Requests, Arrive(r) PROVE IInv'
    <2>1. \A path : NamesFor(path) \subseteq Names
      BY DEF NamesFor
    <2> QED BY <1>3, <2>1, RESTKeeps, CallKeeps DEF Arrive
  <1>4. ASSUME NEW r \in Requests, Continue(r) PROVE IInv'
    BY <1>4, PutKeeps, PresignKeeps, GetObjectKeeps, DeliverKeeps DEF Continue
  <1>5. ASSUME NEW client \in Clients, NEW task \in Tasks, NEW name \in Names,
               ServeShared(client, task, name)
        PROVE  IInv'
    BY <1>5, ServeSharedKeeps
  <1> QED BY <1>1, <1>2, <1>3, <1>4, <1>5 DEF Next

-----------------------------------------------------------------------------
(* The properties *)

\* The inductive invariant holds in every state.
THEOREM Invariance == Spec => []IInv
  BY InitIInv, Inductive, PTL DEF Spec

\* What a client is told of an upload stays true: the store has its object, or
\* a later one under the key, and the URL finds it.
THEOREM UploadsAreKept == Spec => []UploadsKept
  <1>1. ASSUME IInv PROVE UploadsKept
    <2>0. TypeOK /\ Stored /\ Given
      BY <1>1 DEF IInv
    <2>1. SuccessStored
      <3>1. ASSUME NEW v \in uploaded
            PROVE  v \in DOMAIN puts /\ v <= store[puts[v].key]
        <4>1. v \in 1 .. Len(puts)
          BY <2>0 DEF Given
        <4> QED BY <2>0, <4>1, PutsAreRows DEF Stored
      <3>2. ASSUME NEW v \in uploaded
            PROVE  store[puts[v].key] \in Nat /\ v \in Nat
        <4>1. v \in 1 .. Len(puts) /\ Len(puts) \in Nat
          BY <2>0, PutsAreRows DEF Given
        <4>2. puts[v].key \in Keys
          BY <2>0, <4>1, PutsAreRows
        <4> HIDE DEF Keys
        <4>3. store[puts[v].key] \in Versions \cup {NoObject}
          BY <2>0, <4>2 DEF TypeOK
        <4> QED BY <4>1, <4>3, GatewayAssumption DEF Versions, NoObject
      <3> QED BY <3>1, <3>2 DEF SuccessStored
    <2>2. UrlsServe
      BY <2>0 DEF UrlsServe, Given
    <2> QED BY <2>0, <2>1, <2>2 DEF UploadsKept
  <1> QED BY <1>1, Invariance, PTL

\* What a browser shows under a path was uploaded for the task, under the name, and
\* by the same client unless it came out of the shared cache.
THEOREM ImagesAreOwn == Spec => []OwnImages
  <1>1. IInv => OwnImages
    BY DEF IInv, Given, Under, OwnedBy, OwnImages
  <1> QED BY <1>1, Invariance, PTL

\* What a browser shows was current less than MaxAge ago.
THEOREM CachesAreRecent == Spec => []CachedIsRecent
  <1>1. ASSUME IInv, NEW k \in Keys, Fresh(cache[k]), puts[cache[k].version].until # Current
        PROVE  now - puts[cache[k].version].until < MaxAge
    <2>0. TypeOK /\ Given
      BY <1>1 DEF IInv
    <2>1. /\ cache[k].version \in 1 .. Len(puts)
          /\ puts[cache[k].version].until >= cache[k].at
          /\ now - cache[k].at < MaxAge
      BY <1>1, <2>0 DEF Given, Kept, Fresh
    <2>2. /\ puts[cache[k].version].until \in Nat
          /\ cache[k].at \in Nat /\ now \in Nat /\ MaxAge \in Nat
      <3>1. puts[cache[k].version].until \in Nat
        BY <1>1, <2>0, <2>1, PutsAreRows
      <3> QED BY <2>0, <3>1, GatewayAssumption DEF TypeOK, Entries
    <2>3. \A until, at \in Nat : until >= at /\ now - at < MaxAge => now - until < MaxAge
      BY <2>2
    <2> QED BY <2>1, <2>2, <2>3
  <1>2. IInv => CachedIsRecent
    BY <1>1 DEF CachedIsRecent
  <1> QED BY <1>2, Invariance, PTL

\* Neither server answers without a token what it is declared to answer with one.
THEOREM TokensAreRequired == Spec => []TokensRequired
  <1>1. ASSUME IInv, NEW o \in DocumentedOperations,
               setting = "program", answer.kind = "REST", answer.status \in {200, 401},
               Matches(o.path, answer.request.path),
               answer.request.credential # "valid"
        PROVE  (answer.status = 401) = o.secured
    <2>1. PICK route \in SetupRouter :
            /\ Matches(route.path, answer.request.path)
            /\ (answer.status = 401) = route.protected
      BY <1>1 DEF IInv, Explained
    <2> QED BY <2>1, <1>1, SecuredAsRouted
  <1>2. IInv => SecuredAsDocumented
    BY <1>1 DEF SecuredAsDocumented
  <1>3. IInv => TokensRequired
    BY <1>2 DEF IInv, TokensRequired
  <1> QED BY <1>3, Invariance, PTL

\* A read of an object that an upload was answered for ends in 404 only if its name
\* holds the text that the service looks for in errors.
THEOREM UploadsAreFound == Spec => ReadsFindUploads
  <1>1. ASSUME IInv, [Next]_vars, NEW r \in Requests,
               At(r, "get"), req'[r] = Idle, answer'.kind = "REST", answer'.status = 404,
               ~ LooksMissing(req[r].key), NEW v \in uploaded, puts[v].key = req[r].key
        PROVE  FALSE
    <2>0. TypeOK /\ Stored /\ Given /\ req[r].pc = "get"
      BY <1>1 DEF IInv, At
    <2>1. req'[r] # req[r]
      BY <1>1 DEF At, Idle
    <2>2. GetObject(r)
      <3>1. Arrive(r) \/ Continue(r)
        <4>1. ASSUME NEW s \in Requests, Arrive(s) \/ Continue(s), s # r PROVE req'[r] = req[r]
          <5>1. CASE Arrive(s)
            <6>1. UNCHANGED req \/ \E e : req' = [req EXCEPT ![s] = e]
              <7>1. ASSUME NEW q, REST(s, q) PROVE \E e : req' = [req EXCEPT ![s] = e]
                <8>1. CASE NoRoute(s, q)
                  BY <8>1 DEF NoRoute, Reply
                <8>2. ASSUME NEW route \in Routes, Abort(s, q, route) \/ Handle(s, q, route)
                      PROVE  \E e : req' = [req EXCEPT ![s] = e]
                  BY <8>2 DEF Abort, Handle, Reply
                <8>3. ASSUME NEW route \in Routes, NEW name, NEW attached,
                             UploadImage(s, q, route, name, attached)
                      PROVE  \E e : req' = [req EXCEPT ![s] = e]
                  BY <8>3 DEF UploadImage, Reply
                <8>4. ASSUME NEW route \in Routes, GetImage(s, q, route)
                      PROVE  \E e : req' = [req EXCEPT ![s] = e]
                  BY <8>4 DEF GetImage, Reply
                <8> QED BY <7>1, <8>1, <8>2, <8>3, <8>4 DEF REST
              <7>2. ASSUME NEW m, NEW credential, NEW decodes, Call(s, m, credential, decodes)
                    PROVE  \E e : req' = [req EXCEPT ![s] = e]
                BY <7>2 DEF Call, Reply
              <7> QED BY <5>1, <7>1, <7>2 DEF Arrive
            <6> QED BY <2>0, <4>1, <6>1 DEF TypeOK
          <5>2. CASE Continue(s)
            <6>1. UNCHANGED req \/ \E e : req' = [req EXCEPT ![s] = e]
              <7>1. CASE PutObject(s) \/ PutRetried(s)
                BY <7>1 DEF PutObject, PutRetried
              <7>2. CASE GetObject(s)
                BY <7>2 DEF GetObject, Reply
              <7>3. CASE PutFails(s) \/ GetPresignedURL(s) \/ Deliver(s)
                BY <7>3 DEF PutFails, GetPresignedURL, Deliver, Reply
              <7> QED BY <5>2, <7>1, <7>2, <7>3 DEF Continue
            <6> QED BY <2>0, <4>1, <6>1 DEF TypeOK
          <5> QED BY <4>1, <5>1, <5>2
        <4>2. req' # req
          BY <2>1
        <4>3. ~ Tick /\ \A client, task, name : ~ ServeShared(client, task, name)
          BY <4>2 DEF Tick, ServeShared
        <4>4. Next
          BY <1>1, <4>2 DEF vars
        <4>5. \E s \in Requests : Arrive(s) \/ Continue(s)
          BY <4>3, <4>4 DEF Next
        <4> QED BY <2>1, <4>1, <4>5
      <3>2. ~ Arrive(r)
        BY <2>0 DEF Arrive, REST, Call, At
      <3> QED BY <2>0, <3>1, <3>2 DEF Continue, PutObject, PutRetried, PutFails,
             GetPresignedURL, Deliver, At
    <2>3. store[req[r].key] = NoObject
      <3>1. CASE /\ store[req[r].key] # NoObject
                 /\ req' = [req EXCEPT ![r] =
                      [ pc |-> "deliver", request |-> @.request, name |-> @.name, key |-> @.key,
                        version |-> store[@.key] ]]
        <4>1. req'[r].pc = "deliver"
          BY <2>0, <3>1 DEF TypeOK
        <4> QED BY <1>1, <4>1 DEF Idle
      <3>2. CASE Reply(r, Answered(req[r].request, 500, "GetImage", TRUE))
        BY <1>1, <3>2 DEF Reply, Answered
      <3> QED BY <1>1, <2>2, <3>1, <3>2 DEF GetObject
    <2>4. v \in 1 .. Len(puts) /\ Len(puts) \in Nat
      BY <2>0, PutsAreRows DEF Given
    <2>5. v <= store[req[r].key]
      BY <1>1, <2>0, <2>4 DEF Stored
    <2> QED BY <2>3, <2>4, <2>5 DEF NoObject
  <1>2. IInv /\ [Next]_vars => FindsUploads
    BY <1>1 DEF FindsUploads
  <1>3. IInv /\ [Next]_vars => [FindsUploads]_vars
    BY <1>2
  <1> QED BY <1>3, Invariance, PTL DEF Spec, ReadsFindUploads
=============================================================================
