---------------------------- MODULE AccountsProofs ----------------------------
(* Proofs about Accounts, for any number of goroutines, addresses, ids,      *)
(* ticks and requests, and any duration of a token.                          *)
EXTENDS Accounts, WellFoundedInduction, TLAPS

\* The sequences run ahead of the ids of their tables, that of the clients from
\* the second client on: the seed gave client 1 its number.
Numbered ==
  /\ \A u \in known.users : u < nextUser
  /\ \A u \in Ids : Exists(u) => u \in known.users
  /\ clients \subseteq known.clients
  /\ \A c \in known.clients : c = 1 \/ c < nextClient
  /\ collisions <= 1
  /\ nextClient = 1 => collisions = 0

\* A user belongs to the client of its row, and a token lasts its duration
\* from the last time its user belonged to its client.
Remembered ==
  /\ \A u, c \in Ids : member[u][c] <= now
  /\ \A u \in Ids : Exists(u) => member[u][user[u].client] = now
  /\ \A token \in tokens :
       token.expires <= member[token.user][token.client] + TokenDuration

\* Ids in the hands of a goroutine were inserted at some time, and the user that
\* logs in belonged to the client of the row it was read with in this tick.
Known(q) ==
  /\ q.pc \in {"login", "account", "form", "saveUser", "removeUser"} => q.id \in known.users
  /\ q.pc = "register" => q.row.client \in known.clients
  /\ q.pc \in {"task", "saveClient", "removeClient"} => q.client \in known.clients

Current(q) == q.pc = "login" => member[q.id][q.row.client] = now

Holding == \A r \in Requests : Known(req[r]) /\ Current(req[r])

\* The inductive invariant.
IInv == TypeOK /\ ReferencesHold /\ Numbered /\ Remembered /\ Holding
-----------------------------------------------------------------------------
(* What a step does to the parts of the invariant *)

\* A row is never mistaken for a missing one.
LEMMA RowsAreRows == NoRow \notin UserRow
  <1>1. \A row \in UserRow : DOMAIN row = {"email", "client"}
    BY DEF UserRow
  <1>2. DOMAIN NoRow = {"email"}
    BY DEF NoRow
  <1>3. "client" \notin DOMAIN NoRow
    BY <1>2
  <1> QED BY <1>1, <1>3

\* What a goroutine holds has the fields of the statement it is at.
LEMMA Fields ==
  ASSUME TypeOK, NEW r \in Requests
  PROVE  /\ req[r].pc \in {"login", "account", "form", "saveUser"} =>
              req[r].id \in Ids /\ req[r].row \in UserRow
         /\ req[r].pc = "register" => req[r].row \in UserRow
         /\ req[r].pc = "removeUser" => req[r].id \in Ids
         /\ req[r].pc \in {"task", "saveClient", "removeClient"} => req[r].client \in Ids
  BY DEF TypeOK, Request, Idle

\* What the others hold stays known and current while one goroutine moves on.
LEMMA HoldingKept ==
  ASSUME TypeOK, Holding, NEW r \in Requests,
         \A s \in Requests \ {r} : req'[s] = req[s],
         Known(req[r])', Current(req[r])', now' = now,
         known.users \subseteq known'.users, known.clients \subseteq known'.clients,
         \A u, c \in Ids : member[u][c] = now => member'[u][c] = now
  PROVE  Holding'
  <1> SUFFICES ASSUME NEW s \in Requests, s # r
               PROVE  Known(req[s])' /\ Current(req[s])'
    BY DEF Holding
  <1>1. req'[s] = req[s] /\ Known(req[s]) /\ Current(req[s])
    BY DEF Holding
  <1>2. Known(req[s])'
    BY <1>1 DEF Known
  <1>3. Current(req[s])'
    <2> SUFFICES ASSUME req[s].pc = "login"
                 PROVE  member'[req[s].id][req[s].row.client] = now
      BY <1>1 DEF Current
    <2>1. req[s].id \in Ids /\ req[s].row.client \in Ids
      BY Fields DEF UserRow
    <2> QED BY <1>1, <2>1 DEF Current
  <1> QED BY <1>2, <1>3

\* Users that belong to their clients at a time not earlier are remembered, and
\* the tokens there are stay covered.
LEMMA MembersKept ==
  ASSUME TypeOK, Remembered, tokens' = tokens, now' \in Nat, now <= now',
         user' \in [Ids -> UserRow \cup {NoRow}],
         member' = [u \in Ids |-> [c \in Ids |->
                      IF user'[u] # NoRow /\ user'[u].client = c THEN now' ELSE member[u][c]]]
  PROVE  /\ member' \in [Ids -> [Ids -> Int]]
         /\ Remembered'
         /\ \A u, c \in Ids : member[u][c] = now /\ now' = now => member'[u][c] = now'
  <1>1. \A u, c \in Ids : member[u][c] \in Int
    BY DEF TypeOK
  <1>2. member' \in [Ids -> [Ids -> Int]]
    BY <1>1
  <1>3. \A u, c \in Ids :
          member'[u][c] = IF user'[u] # NoRow /\ user'[u].client = c THEN now' ELSE member[u][c]
    OBVIOUS
  <1>4. \A u, c \in Ids : member[u][c] <= member'[u][c] /\ member'[u][c] <= now'
    BY <1>1, <1>3 DEF Remembered, TypeOK
  <1>5. \A u \in Ids : user'[u] # NoRow => user'[u].client \in Ids
    BY DEF UserRow
  <1>6. \A u \in Ids : Exists(u)' => member'[u][user'[u].client] = now'
    BY <1>3, <1>5 DEF Exists
  <1>7. \A token \in tokens : token.expires <= member'[token.user][token.client] + TokenDuration
    <2> SUFFICES ASSUME NEW token \in tokens
                 PROVE  token.expires <= member'[token.user][token.client] + TokenDuration
      OBVIOUS
    <2>1. token.user \in Ids /\ token.client \in Ids /\ token.expires \in Nat
      BY DEF TypeOK, Token
    <2>2. member'[token.user][token.client] \in Int
      BY <1>2, <2>1
    <2> QED BY <1>1, <1>4, <2>1, <2>2, AccountsAssumption DEF Remembered
  <1>8. Remembered'
    BY <1>4, <1>6, <1>7 DEF Remembered
  <1>9. \A u, c \in Ids : member[u][c] = now /\ now' = now => member'[u][c] = now'
    BY <1>3
  <1> QED BY <1>2, <1>8, <1>9

-----------------------------------------------------------------------------
(* The invariant is inductive *)

\* The seeded database.
LEMMA InitIInv == Init => IInv
  <1> SUFFICES ASSUME Init PROVE IInv
    OBVIOUS
  <1>0. 1 \in Ids
    BY AccountsAssumption DEF Ids
  <1>1. PICK e \in Emails :
          user = [u \in Ids |-> IF u = 1 THEN [ email |-> e, client |-> 1 ] ELSE NoRow]
    BY DEF Init
  <1>2. [ email |-> e, client |-> 1 ] \in UserRow
    BY <1>0 DEF UserRow
  <1>3. \A u \in Ids : Exists(u) => u = 1 /\ user[u].client = 1
    BY <1>1 DEF Exists
  <1>4. TypeOK
    <2>1. user \in [Ids -> UserRow \cup {NoRow}]
      BY <1>1, <1>2
    <2>2. nextUser \in 1 .. MaxId + 1 /\ nextClient \in 1 .. MaxId + 1
      BY AccountsAssumption DEF Init
    <2>3. req \in [Requests -> Request]
      BY DEF Init, Request
    <2>4. member \in [Ids -> [Ids -> Int]]
      BY DEF Init
    <2> QED BY <1>0, <2>1, <2>2, <2>3, <2>4 DEF Init, TypeOK
  <1>5. ReferencesHold /\ Numbered
    BY <1>3 DEF Init, ReferencesHold, Numbered
  <1>6. Remembered
    BY <1>0, <1>3 DEF Init, Remembered
  <1>7. Holding
    BY DEF Init, Holding, Known, Current, Idle
  <1> QED BY <1>4, <1>5, <1>6, <1>7 DEF IInv

\* Statements that only read: a goroutine takes a row, a client or nothing.
Reads(r) ==
  \/ \E u \in Ids : Login(r, u) \/ EditUser(r, u) \/ DeleteUser(r, u)
  \/ \E e \in Emails, c \in Ids : Register(r, e, c)
  \/ \E token \in tokens : GetAccountInfo(r, token) \/ CreateTask(r, token)
  \/ \E c \in Ids : UpdateClient(r, c) \/ DeleteClient(r, c)
  \/ AccountReply(r)
  \/ ClientMissing(r)
  \/ \E row \in UserRow : UpdateUser(r, row)

\* What they take is known and current.
LEMMA ReadsTake ==
  ASSUME IInv, NEW r \in Requests, Reads(r)
  PROVE  /\ \E q \in Request : req' = [req EXCEPT ![r] = q] /\ Known(q) /\ Current(q)
         /\ started' \in Nat /\ panics' \in Nat
         /\ UNCHANGED <<tables, tokens, now, collisions, known, member>>
  <1> USE DEF Accept, Reply, tables, history
  <1>0. TypeOK /\ Idle \in Request /\ Known(Idle) /\ Current(Idle)
    BY DEF IInv, Request, Idle, Known, Current
  <1>1. ASSUME NEW u \in Ids, Exists(u)
        PROVE  user[u] \in UserRow /\ u \in known.users /\ member[u][user[u].client] = now
    BY <1>1 DEF IInv, TypeOK, Exists, Numbered, Remembered
  <1>2. ASSUME NEW c \in clients
        PROVE  c \in Ids /\ c \in known.clients
    BY DEF IInv, TypeOK, Numbered
  <1>3. ASSUME NEW u \in Ids, Login(r, u) \/ EditUser(r, u)
        PROVE  \E q \in Request : req' = [req EXCEPT ![r] = q] /\ Known(q) /\ Current(q)
    <2> DEFINE q(l) == [ pc |-> l, id |-> u, row |-> user[u] ]
    <2>1. Exists(u) /\ \E l \in {"login", "form"} : req' = [req EXCEPT ![r] = q(l)]
      BY <1>3 DEF Login, EditUser
    <2>2. ASSUME NEW l \in {"login", "form"}
          PROVE  q(l) \in Request /\ Known(q(l)) /\ Current(q(l))
      BY <1>1, <2>1 DEF Request, Known, Current
    <2> QED BY <2>1, <2>2
  <1>4. ASSUME NEW e \in Emails, NEW c \in Ids, Register(r, e, c)
        PROVE  \E q \in Request : req' = [req EXCEPT ![r] = q] /\ Known(q) /\ Current(q)
    <2> DEFINE q == [ pc |-> "register", row |-> [ email |-> e, client |-> c ] ]
    <2>1. q \in Request /\ Known(q) /\ Current(q)
      BY <1>2, <1>4 DEF Register, Request, UserRow, Known, Current
    <2> QED BY <1>4, <2>1 DEF Register
  <1>5. ASSUME NEW token \in tokens, GetAccountInfo(r, token)
        PROVE  \E q \in Request : req' = [req EXCEPT ![r] = q] /\ Known(q) /\ Current(q)
    <2> DEFINE q == [ pc |-> "account", id |-> token.user, row |-> user[token.user] ]
    <2>1. token.user \in Ids
      BY <1>0 DEF TypeOK, Token
    <2>2. q \in Request /\ Known(q) /\ Current(q)
      BY <1>1, <1>5, <2>1 DEF GetAccountInfo, Request, Known, Current
    <2> QED BY <1>5, <2>2 DEF GetAccountInfo
  <1>6. ASSUME NEW token \in tokens, CreateTask(r, token)
        PROVE  \E q \in Request : req' = [req EXCEPT ![r] = q] /\ Known(q) /\ Current(q)
    <2> DEFINE q == [ pc |-> "task", client |-> token.client ]
    <2>1. q \in Request /\ Known(q) /\ Current(q)
      BY <1>2, <1>6 DEF CreateTask, Request, Known, Current
    <2> QED BY <1>6, <2>1 DEF CreateTask
  <1>7. ASSUME NEW c \in Ids, UpdateClient(r, c) \/ DeleteClient(r, c)
        PROVE  \E q \in Request : req' = [req EXCEPT ![r] = q] /\ Known(q) /\ Current(q)
    <2> DEFINE q(l) == [ pc |-> l, client |-> c ]
    <2>1. c \in clients /\ \E l \in {"saveClient", "removeClient"} : req' = [req EXCEPT ![r] = q(l)]
      BY <1>7 DEF UpdateClient, DeleteClient
    <2>2. ASSUME NEW l \in {"saveClient", "removeClient"}
          PROVE  q(l) \in Request /\ Known(q(l)) /\ Current(q(l))
      BY <1>2, <2>1 DEF Request, Known, Current
    <2> QED BY <2>1, <2>2
  <1>8. ASSUME NEW row \in UserRow, UpdateUser(r, row)
        PROVE  \E q \in Request : req' = [req EXCEPT ![r] = q] /\ Known(q) /\ Current(q)
    <2> DEFINE q == [ pc |-> "saveUser", id |-> req[r].id, row |-> row ]
    <2>1. req[r].pc = "form" /\ Known(req[r])
      BY <1>8 DEF UpdateUser, At, IInv, Holding
    <2>2. q \in Request /\ Known(q) /\ Current(q)
      BY <1>0, <2>1, Fields DEF Request, Known, Current
    <2>3. req' = [req EXCEPT ![r] = q] \/ req' = [req EXCEPT ![r] = Idle]
      BY <1>8 DEF UpdateUser
    <2> QED BY <1>0, <2>2, <2>3
  <1>9. ASSUME AccountReply(r) \/ ClientMissing(r)
        PROVE  \E q \in Request : req' = [req EXCEPT ![r] = q] /\ Known(q) /\ Current(q)
    BY <1>0, <1>9 DEF AccountReply, ClientMissing
  <1>10. started' \in Nat /\ panics' \in Nat
         /\ UNCHANGED <<tables, tokens, now, collisions, known, member>>
    BY <1>0 DEF Reads, Login, EditUser, Register, GetAccountInfo, CreateTask, UpdateClient,
       AccountReply, ClientMissing, UpdateUser, DeleteUser, DeleteClient, TypeOK
  <1>11. ASSUME NEW u \in Ids, DeleteUser(r, u)
         PROVE  \E q \in Request : req' = [req EXCEPT ![r] = q] /\ Known(q) /\ Current(q)
    <2> DEFINE q == [ pc |-> "removeUser", id |-> u ]
    <2>1. q \in Request /\ Known(q) /\ Current(q)
      BY <1>1, <1>11 DEF DeleteUser, Request, Known, Current
    <2> QED BY <1>11, <2>1 DEF DeleteUser
  <1> QED BY <1>3, <1>4, <1>5, <1>6, <1>7, <1>8, <1>9, <1>10, <1>11 DEF Reads

\* Reading keeps the invariant.
LEMMA ReadsKeep ==
  ASSUME IInv, NEW r \in Requests, Reads(r)
  PROVE  IInv'
  <1> USE DEF tables
  <1>1. PICK q \in Request : req' = [req EXCEPT ![r] = q] /\ Known(q) /\ Current(q)
    BY ReadsTake
  <1>2. started' \in Nat /\ panics' \in Nat
        /\ UNCHANGED <<tables, tokens, now, collisions, known, member>>
    BY ReadsTake
  <1>3. TypeOK'
    BY <1>1, <1>2 DEF IInv, TypeOK
  <1>4. ReferencesHold' /\ Numbered' /\ Remembered'
    BY <1>2 DEF IInv, ReferencesHold, Numbered, Remembered, Exists
  <1>5. req'[r] = q /\ \A s \in Requests \ {r} : req'[s] = req[s]
    BY <1>1 DEF IInv, TypeOK
  <1>6. Known(req[r])' /\ Current(req[r])'
    BY <1>1, <1>2, <1>5 DEF Known, Current
  <1>7. Holding'
    BY <1>2, <1>5, <1>6, HoldingKept DEF IInv
  <1> QED BY <1>3, <1>4, <1>7 DEF IInv

\* A request that is over holds nothing.
LEMMA RepliedHolding ==
  ASSUME TypeOK, Holding, NEW r \in Requests, req' = [req EXCEPT ![r] = Idle], now' = now,
         known.users \subseteq known'.users, known.clients \subseteq known'.clients,
         \A u, c \in Ids : member[u][c] = now => member'[u][c] = now
  PROVE  req' \in [Requests -> Request] /\ Holding'
  <1>1. req' \in [Requests -> Request]
    BY DEF TypeOK, Request
  <1>2. req'[r] = Idle /\ \A s \in Requests \ {r} : req'[s] = req[s]
    BY DEF TypeOK
  <1>3. Known(req[r])' /\ Current(req[r])'
    BY <1>2 DEF Known, Current, Idle
  <1> QED BY <1>1, <1>2, <1>3, HoldingKept

\* A failed statement advances a sequence at most.
LEMMA FailureKeeps ==
  ASSUME IInv, NEW r \in Requests, StatementFails(r)
  PROVE  IInv'
  <1> USE DEF AcceptAndReply, Accept, Reply
  <1>0. TypeOK /\ ReferencesHold /\ Numbered /\ Remembered /\ Holding
    BY DEF IInv
  <1>1. /\ UNCHANGED <<user, clients, busy, tokens, now, panics, collisions, known, member>>
        /\ req' = [req EXCEPT ![r] = Idle]
        /\ started' \in Nat
    BY <1>0 DEF StatementFails, history, TypeOK
  <1>2. /\ nextUser' \in 1 .. MaxId + 1 /\ nextUser <= nextUser'
        /\ nextClient' \in 1 .. MaxId + 1 /\ nextClient <= nextClient'
    BY <1>0, AccountsAssumption DEF StatementFails, TypeOK
  <1>3. req' \in [Requests -> Request] /\ Holding'
    BY <1>0, <1>1, RepliedHolding
  <1>4. TypeOK'
    BY <1>0, <1>1, <1>2, <1>3 DEF TypeOK
  <1>5. ReferencesHold' /\ Remembered'
    BY <1>0, <1>1 DEF ReferencesHold, Remembered, Exists
  <1>6. Numbered'
    <2>1. /\ nextUser \in Int /\ nextUser' \in Int /\ known.users \subseteq Int
          /\ nextClient \in Int /\ nextClient' \in Int /\ known.clients \subseteq Int
          /\ 1 <= nextClient
      BY <1>0, <1>2 DEF TypeOK, Ids
    <2> QED BY <1>0, <1>1, <1>2, <2>1 DEF Numbered, Exists
  <1> QED BY <1>3, <1>4, <1>5, <1>6 DEF IInv

\* A token starts its duration in the tick its user is known to belong to the
\* client.
LEMMA LoginReplyKeeps ==
  ASSUME IInv, NEW r \in Requests, LoginReply(r)
  PROVE  IInv'
  <1> USE DEF LoginReply, Reply, At, tables, history
  <1> DEFINE token == GenerateToken(req[r].id, req[r].row.client)
  <1>1. req[r].id \in Ids /\ req[r].row.client \in Ids
    BY Fields DEF IInv, UserRow
  <1>2. token \in Token /\ token.user = req[r].id /\ token.client = req[r].row.client
        /\ token.expires = now + TokenDuration
    BY <1>1, AccountsAssumption DEF IInv, TypeOK, Token, GenerateToken
  <1>3. member[req[r].id][req[r].row.client] = now
    BY DEF IInv, Holding, Current
  <1>4. req' \in [Requests -> Request] /\ Holding'
    BY RepliedHolding DEF IInv
  <1>5. TypeOK'
    BY <1>2, <1>4 DEF IInv, TypeOK
  <1>6. ReferencesHold' /\ Numbered'
    BY DEF IInv, ReferencesHold, Numbered, Exists
  <1>7. Remembered'
    <2>1. tokens' = tokens \cup {token}
      OBVIOUS
    <2>2. token.expires <= member[token.user][token.client] + TokenDuration
      BY <1>2, <1>3, AccountsAssumption DEF IInv, TypeOK
    <2> QED BY <2>1, <2>2 DEF IInv, Remembered, Exists
  <1> QED BY <1>4, <1>5, <1>6, <1>7 DEF IInv

\* The statements that write clients.
ClientWrites(r) ==
  \/ CreateClient(r)
  \/ RemoveClient(r)
  \/ CreateTaskSave(r)
  \/ SaveClient(r)

\* What such a statement leaves.
ClientsWritten(r) ==
  /\ UNCHANGED <<user, nextUser, tokens, panics, member, now>>
  /\ started' \in Nat
  /\ req' = [req EXCEPT ![r] = Idle]
  /\ clients' \subseteq Ids
  /\ known'.users = known.users
  /\ known'.clients = known.clients \cup clients'
  /\ known' \in [ users : SUBSET Ids, clients : SUBSET Ids ]
  /\ busy' \subseteq clients'
  /\ \A u \in Ids : Exists(u) => user[u].client \in clients'
  /\ nextClient' \in 1 .. MaxId + 1
  /\ \A c \in known.clients \cup clients' : c = 1 \/ c < nextClient'
  /\ collisions' \in 0 .. 1
  /\ nextClient' = 1 => collisions' = 0

\* A client inserted comes from its sequence; the sequence meets client 1 alone.
LEMMA CreateClientWrites ==
  ASSUME IInv, NEW r \in Requests, CreateClient(r)
  PROVE  ClientsWritten(r)
  <1> USE DEF CreateClient, AcceptAndReply, Accept, At
  <1>0. TypeOK /\ ReferencesHold /\ Numbered
    BY DEF IInv
  <1>1. nextClient \in Ids /\ nextClient' = nextClient + 1 /\ nextClient' \in 1 .. MaxId + 1
        /\ nextClient' # 1
    BY <1>0, AccountsAssumption DEF TypeOK, Ids
  <1>2. \A c \in known.clients \cup {nextClient} : c = 1 \/ c < nextClient'
    BY <1>0, <1>1, AccountsAssumption DEF Numbered, TypeOK, Ids
  <1>3. UNCHANGED <<user, nextUser, tokens, panics, member, now, busy>> /\ started' \in Nat
        /\ req' = [req EXCEPT ![r] = Idle]
    BY <1>0 DEF TypeOK
  <1>4. collisions \in 0 .. 1
    BY <1>0 DEF TypeOK, Numbered
  <1>5. /\ clients' \subseteq clients \cup {nextClient} /\ clients \subseteq clients'
        /\ known' = [known EXCEPT !.clients = @ \cup clients']
        /\ collisions' \in 0 .. 1
    <2>1. CASE nextClient \notin clients /\ SetClients(clients \cup {nextClient})
               /\ UNCHANGED collisions
      <3>1. clients' = clients \cup {nextClient} /\ collisions' = collisions
            /\ known' = [known EXCEPT !.clients = @ \cup (clients \cup {nextClient})]
        BY <2>1 DEF SetClients
      <3> HIDE DEF CreateClient
      <3> QED BY <3>1, <1>4
    <2>2. CASE nextClient \in clients /\ collisions' = collisions + 1
               /\ UNCHANGED <<clients, known>>
      <3>1. nextClient = 1 /\ collisions = 0
        BY <1>0, <2>2, <1>1, AccountsAssumption DEF Numbered, TypeOK, Ids
      <3>2. known' = [known EXCEPT !.clients = @ \cup clients']
        BY <1>0, <2>2 DEF Numbered, TypeOK
      <3>3. clients' = clients /\ collisions' = 1
        BY <2>2, <3>1
      <3> HIDE DEF CreateClient
      <3> QED BY <3>2, <3>3
    <2> QED BY <2>1, <2>2
  <1>6. clients' \subseteq Ids /\ known'.users = known.users
        /\ known'.clients = known.clients \cup clients'
        /\ known' \in [ users : SUBSET Ids, clients : SUBSET Ids ]
    BY <1>0, <1>1, <1>5 DEF TypeOK
  <1>7. busy' \subseteq clients' /\ \A u \in Ids : Exists(u) => user[u].client \in clients'
    BY <1>0, <1>3, <1>5 DEF ReferencesHold
  <1>8. \A c \in known.clients \cup clients' : c = 1 \/ c < nextClient'
    BY <1>0, <1>2, <1>5 DEF Numbered
  <1> HIDE DEF CreateClient
  <1> QED BY <1>1, <1>3, <1>5, <1>6, <1>7, <1>8 DEF ClientsWritten

\* A client that is deleted was not referred to.
LEMMA RemoveClientWrites ==
  ASSUME IInv, NEW r \in Requests, RemoveClient(r)
  PROVE  ClientsWritten(r)
  <1> USE DEF RemoveClient, Reply, At
  <1>0. TypeOK /\ ReferencesHold /\ Numbered
    BY DEF IInv
  <1>1. UNCHANGED <<user, nextUser, tokens, panics, member, now, busy, nextClient, collisions>>
        /\ started' \in Nat /\ req' = [req EXCEPT ![r] = Idle]
    BY <1>0 DEF TypeOK
  <1>2. clients' \subseteq clients /\ known' = [known EXCEPT !.clients = @ \cup clients']
    BY <1>0 DEF SetClients, Numbered, TypeOK
  <1>3. known'.users = known.users /\ known'.clients = known.clients \cup clients'
        /\ known' \in [ users : SUBSET Ids, clients : SUBSET Ids ]
    BY <1>0, <1>2 DEF TypeOK
  <1>4. busy' \subseteq clients' /\ \A u \in Ids : Exists(u) => user[u].client \in clients'
    BY <1>0 DEF SetClients, Referred, ReferencesHold
  <1>5. collisions' \in 0 .. 1 /\ nextClient' \in 1 .. MaxId + 1
        /\ (nextClient' = 1 => collisions' = 0)
        /\ \A d \in known.clients \cup clients' : d = 1 \/ d < nextClient'
    <2> HIDE DEF RemoveClient
    <2>1. collisions \in 0 .. 1
      BY <1>0 DEF Numbered, TypeOK
    <2> QED BY <2>1, <1>0, <1>1, <1>2 DEF Numbered, TypeOK
  <1> HIDE DEF RemoveClient
  <1> QED BY <1>0, <1>1, <1>2, <1>3, <1>4, <1>5 DEF ClientsWritten, TypeOK

\* A client that a copy brings back was there before.
LEMMA CopyClientWrites ==
  ASSUME IInv, NEW r \in Requests, CreateTaskSave(r) \/ SaveClient(r)
  PROVE  ClientsWritten(r)
  <1> USE DEF CreateTaskSave, SaveClient, Reply, At
  <1>0. TypeOK /\ ReferencesHold /\ Numbered
    BY DEF IInv
  <1>1. UNCHANGED <<user, nextUser, tokens, panics, member, now, nextClient, collisions>>
        /\ started' \in Nat /\ req' = [req EXCEPT ![r] = Idle]
    BY <1>0 DEF TypeOK
  <1>2. req[r].client \in Ids /\ req[r].client \in known.clients
    BY <1>0, Fields DEF IInv, Holding, Known
  <1>3. clients' = clients \cup {req[r].client}
        /\ known' = [known EXCEPT !.clients = @ \cup clients']
        /\ busy' \subseteq busy \cup {req[r].client}
    BY DEF SetClients
  <1>4. known'.users = known.users /\ known'.clients = known.clients \cup clients'
        /\ known' \in [ users : SUBSET Ids, clients : SUBSET Ids ]
    BY <1>0, <1>2, <1>3 DEF TypeOK
  <1>5. busy' \subseteq clients' /\ \A u \in Ids : Exists(u) => user[u].client \in clients'
    BY <1>0, <1>3 DEF ReferencesHold
  <1>6. collisions' \in 0 .. 1 /\ nextClient' \in 1 .. MaxId + 1
        /\ (nextClient' = 1 => collisions' = 0)
        /\ \A d \in known.clients \cup clients' : d = 1 \/ d < nextClient'
    <2> HIDE DEF CreateTaskSave, SaveClient
    <2>1. collisions \in 0 .. 1
      BY <1>0 DEF Numbered, TypeOK
    <2> QED BY <2>1, <1>0, <1>1, <1>2, <1>3 DEF Numbered, TypeOK
  <1> HIDE DEF CreateTaskSave, SaveClient
  <1> QED BY <1>0, <1>1, <1>2, <1>3, <1>4, <1>5, <1>6 DEF ClientsWritten, TypeOK

\* The table of clients stays numbered, and closed under the references to it.
LEMMA ClientWritesKeep ==
  ASSUME IInv, NEW r \in Requests, ClientWrites(r)
  PROVE  IInv'
  <1>0. TypeOK /\ ReferencesHold /\ Numbered /\ Remembered /\ Holding
    BY DEF IInv
  <1>1. ClientsWritten(r)
    BY CreateClientWrites, RemoveClientWrites, CopyClientWrites DEF ClientWrites
  <1> USE DEF ClientsWritten
  <1>2. req' \in [Requests -> Request] /\ Holding'
    BY <1>0, <1>1, RepliedHolding
  <1>3. TypeOK'
    BY <1>0, <1>1, <1>2 DEF TypeOK
  <1>4. ReferencesHold' /\ Numbered'
    BY <1>0, <1>1 DEF ReferencesHold, Numbered, Exists
  <1>5. Remembered'
    BY <1>0, <1>1 DEF Remembered, Exists
  <1> QED BY <1>2, <1>3, <1>4, <1>5 DEF IInv

\* The statements that write users.
UserWrites(r) ==
  \/ RegisterSave(r)
  \/ \E e \in Emails, c \in Ids : CreateUser(r, e, c)
  \/ SaveUser(r)
  \/ RemoveUser(r)

\* What such a statement leaves, and how a row changes: it gets the next id, it
\* is written by SaveUser, or it goes.
UsersWritten(r) ==
  /\ UNCHANGED <<busy, nextClient, tokens, panics, collisions, now>>
  /\ started' \in Nat
  /\ req' = [req EXCEPT ![r] = Idle]
  /\ user' \in [Ids -> UserRow \cup {NoRow}]
  /\ UNCHANGED <<user, member>> \/
       member' = [u \in Ids |-> [c \in Ids |->
                    IF user'[u] # NoRow /\ user'[u].client = c THEN now ELSE member[u][c]]]
  /\ clients \subseteq clients'
  /\ clients' \subseteq known.clients
  /\ known'.clients = known.clients
  /\ known' \in [ users : SUBSET Ids, clients : SUBSET Ids ]
  /\ known.users \subseteq known'.users
  /\ nextUser' \in 1 .. MaxId + 1
  /\ \A u \in known'.users : u < nextUser'
  /\ \A u \in Ids : user'[u] # NoRow => u \in known'.users /\ user'[u].client \in clients'

\* A user inserted by registration or by the form gets the next id.
LEMMA CreateUserWrites ==
  ASSUME IInv, NEW r \in Requests,
         RegisterSave(r) \/ \E e \in Emails, c \in Ids : CreateUser(r, e, c)
  PROVE  UsersWritten(r)
  <1>0. TypeOK /\ ReferencesHold /\ Numbered /\ Holding
    BY DEF IInv
  <1>1. /\ UNCHANGED <<busy, nextClient, tokens, panics, collisions, now>>
        /\ started' \in Nat
        /\ req' = [req EXCEPT ![r] = Idle]
        /\ nextUser <= MaxId /\ nextUser' = nextUser + 1
    <2>1. CASE RegisterSave(r)
      BY <1>0, <2>1 DEF RegisterSave, Reply, TypeOK
    <2>2. ASSUME NEW e \in Emails, NEW c \in Ids, CreateUser(r, e, c)
          PROVE  /\ UNCHANGED <<busy, nextClient, tokens, panics, collisions, now>>
                 /\ started' \in Nat
                 /\ req' = [req EXCEPT ![r] = Idle]
                 /\ nextUser <= MaxId /\ nextUser' = nextUser + 1
      BY <1>0, <2>2 DEF CreateUser, AcceptAndReply, Accept, TypeOK
    <2> QED BY <2>1, <2>2
  <1>2. nextUser \in Ids /\ nextUser' \in 1 .. MaxId + 1
    BY <1>0, <1>1, AccountsAssumption DEF TypeOK, Ids
  <1>3. \A u \in known.users \cup {nextUser} : u < nextUser'
    BY <1>0, <1>1, <1>2 DEF Numbered, TypeOK, Ids
  <1>4. ASSUME NEW row \in UserRow, row.client \in known.clients,
               user' = [user EXCEPT ![nextUser] = row], member' = Membership(user', now),
               clients' = clients \cup {row.client},
               known' = [ users |-> known.users \cup {nextUser}, clients |-> known.clients ]
        PROVE  UsersWritten(r)
    <2>1. user' \in [Ids -> UserRow \cup {NoRow}]
      BY <1>0, <1>4 DEF TypeOK
    <2>2. known' \in [ users : SUBSET Ids, clients : SUBSET Ids ]
      BY <1>0, <1>2, <1>4 DEF TypeOK
    <2>3. \A u \in Ids : user'[u] # NoRow => u \in known'.users /\ user'[u].client \in clients'
      BY <1>0, <1>2, <1>4 DEF TypeOK, Numbered, ReferencesHold, Exists
    <2>4. clients \subseteq clients' /\ clients' \subseteq known.clients
      BY <1>0, <1>4 DEF Numbered
    <2>5. member' = [u \in Ids |-> [c \in Ids |->
                       IF user'[u] # NoRow /\ user'[u].client = c THEN now ELSE member[u][c]]]
      BY <1>4 DEF Membership
    <2>6. known.users \subseteq known'.users /\ known'.clients = known.clients
          /\ \A u \in known'.users : u < nextUser'
      BY <1>3, <1>4
    <2> QED BY <1>1, <1>2, <2>1, <2>2, <2>3, <2>4, <2>5, <2>6 DEF UsersWritten
  <1>5. CASE RegisterSave(r)
    <2>1. req[r].row \in UserRow /\ req[r].row.client \in known.clients
      BY <1>0, <1>5, Fields DEF RegisterSave, At, Holding, Known
    <2>2. known.clients \cup {req[r].row.client} = known.clients
      BY <2>1
    <2> QED BY <1>4, <1>5, <2>1, <2>2 DEF RegisterSave
  <1>6. ASSUME NEW e \in Emails, NEW c \in Ids, CreateUser(r, e, c) PROVE UsersWritten(r)
    <2> DEFINE row == [ email |-> e, client |-> c ]
    <2>1. row \in UserRow /\ row.client = c
      BY DEF UserRow
    <2>2. CASE c \in clients
      <3>1. user' = [user EXCEPT ![nextUser] = row] /\ member' = Membership(user', now)
            /\ known' = [known EXCEPT !.users = @ \cup { u \in Ids : user'[u] # NoRow }]
            /\ clients' = clients
        <4>1. SetUsers([user EXCEPT ![nextUser] = row]) /\ clients' = clients
          BY <1>6, <2>2 DEF CreateUser
        <4> QED BY <4>1 DEF SetUsers
      <3>2. { u \in Ids : user'[u] # NoRow } \cup known.users = known.users \cup {nextUser}
        BY <1>0, <1>2, <2>1, <3>1, RowsAreRows DEF TypeOK, Numbered, Exists
      <3>3. known' = [ users |-> known.users \cup {nextUser}, clients |-> known.clients ]
        BY <1>0, <3>1, <3>2 DEF TypeOK
      <3>4. clients' = clients \cup {row.client} /\ row.client \in known.clients
        BY <1>0, <2>1, <2>2, <3>1 DEF Numbered
      <3> QED BY <1>4, <2>1, <3>1, <3>3, <3>4
    <2>3. CASE c \notin clients
      <3>1. UNCHANGED <<user, member, known, clients>>
        BY <1>6, <2>3 DEF CreateUser
      <3>2. \A u \in Ids : user'[u] # NoRow => u \in known'.users /\ user'[u].client \in clients'
        BY <1>0, <3>1 DEF Numbered, ReferencesHold, Exists
      <3> QED BY <1>0, <1>1, <1>2, <1>3, <3>1, <3>2 DEF UsersWritten, TypeOK, Numbered
    <2> QED BY <2>2, <2>3
  <1> QED BY <1>5, <1>6

\* A user that SaveUser brings back, or moves, was there before; a deletion
\* takes a row out.
LEMMA SaveUserWrites ==
  ASSUME IInv, NEW r \in Requests, SaveUser(r) \/ RemoveUser(r)
  PROVE  UsersWritten(r)
  <1>0. TypeOK /\ ReferencesHold /\ Numbered /\ Holding
    BY DEF IInv
  <1>1. /\ UNCHANGED <<busy, nextClient, tokens, panics, collisions, now, clients, nextUser>>
        /\ started' \in Nat
        /\ req' = [req EXCEPT ![r] = Idle]
    BY <1>0 DEF SaveUser, RemoveUser, Reply, TypeOK
  <1>2. ASSUME NEW id \in known.users, id \in Ids, NEW row \in UserRow \cup {NoRow},
               row # NoRow => row.client \in clients,
               SetUsers([user EXCEPT ![id] = row])
        PROVE  UsersWritten(r)
    <2>1. user' = [user EXCEPT ![id] = row] /\ member' = Membership(user', now)
          /\ known' = [known EXCEPT !.users = @ \cup { u \in Ids : user'[u] # NoRow }]
      BY <1>2 DEF SetUsers
    <2>2. user' \in [Ids -> UserRow \cup {NoRow}]
      BY <1>0, <2>1 DEF TypeOK
    <2>3. known.users \cup { u \in Ids : user'[u] # NoRow } = known.users
      BY <1>0, <1>2, <2>1 DEF TypeOK, Numbered, Exists
    <2>4. known' = known
      BY <1>0, <2>1, <2>3 DEF TypeOK
    <2>5. \A u \in Ids : user'[u] # NoRow => u \in known'.users /\ user'[u].client \in clients'
      BY <1>0, <1>1, <1>2, <2>1, <2>4 DEF TypeOK, Numbered, ReferencesHold, Exists
    <2>6. member' = [u \in Ids |-> [c \in Ids |->
                       IF user'[u] # NoRow /\ user'[u].client = c THEN now ELSE member[u][c]]]
      BY <2>1 DEF Membership
    <2> QED BY <1>0, <1>1, <2>2, <2>4, <2>5, <2>6 DEF UsersWritten, TypeOK, Numbered
  <1>3. CASE SaveUser(r)
    <2>1. req[r].id \in Ids /\ req[r].row \in UserRow /\ req[r].id \in known.users
      BY <1>0, <1>3, Fields DEF SaveUser, At, Holding, Known
    <2>2. CASE req[r].row.client \in clients
      BY <1>2, <1>3, <2>1, <2>2 DEF SaveUser
    <2>3. CASE req[r].row.client \notin clients
      <3>1. UNCHANGED <<user, member, known>>
        BY <1>3, <2>3 DEF SaveUser
      <3>2. \A u \in Ids : user'[u] # NoRow => u \in known'.users /\ user'[u].client \in clients'
        BY <1>0, <1>1, <3>1 DEF Numbered, ReferencesHold, Exists
      <3> QED BY <1>0, <1>1, <3>1, <3>2 DEF UsersWritten, TypeOK, Numbered
    <2> QED BY <2>2, <2>3
  <1>4. CASE RemoveUser(r)
    <2>1. req[r].id \in Ids /\ req[r].id \in known.users
      BY <1>0, <1>4, Fields DEF RemoveUser, At, Holding, Known
    <2>2. SetUsers([user EXCEPT ![req[r].id] = NoRow])
      BY <1>4 DEF RemoveUser
    <2> QED BY <1>2, <2>1, <2>2
  <1> QED BY <1>3, <1>4

\* The table of users stays numbered, and refers to clients that are there.
LEMMA UsersWrittenKeep ==
  ASSUME IInv, NEW r \in Requests, UsersWritten(r)
  PROVE  IInv'
  <1> USE DEF UsersWritten
  <1>0. TypeOK /\ ReferencesHold /\ Numbered /\ Remembered /\ Holding
    BY DEF IInv
  <1>1. /\ member' \in [Ids -> [Ids -> Int]]
        /\ Remembered'
        /\ \A u, c \in Ids : member[u][c] = now => member'[u][c] = now
    <2>1. CASE UNCHANGED <<user, member>>
      BY <1>0, <2>1 DEF Remembered, TypeOK, Exists
    <2>2. CASE ~ UNCHANGED <<user, member>>
      <3>1. now' \in Nat /\ now <= now' /\ now' = now
        BY <1>0 DEF TypeOK
      <3>2. member' = [u \in Ids |-> [c \in Ids |->
                 IF user'[u] # NoRow /\ user'[u].client = c THEN now' ELSE member[u][c]]]
        BY <2>2, <3>1
      <3> QED BY <1>0, <3>1, <3>2, MembersKept
    <2> QED BY <2>1, <2>2
  <1>2. req' \in [Requests -> Request] /\ Holding'
    BY <1>0, <1>1, RepliedHolding
  <1>3. TypeOK'
    BY <1>0, <1>1, <1>2 DEF TypeOK
  <1>4. ReferencesHold'
    BY <1>0 DEF ReferencesHold, Exists
  <1>5. Numbered'
    BY <1>0 DEF Numbered, Exists
  <1> QED BY <1>1, <1>2, <1>3, <1>4, <1>5 DEF IInv

\* Time passes between requests, and every account is still with its client.
LEMMA TickKeeps ==
  ASSUME IInv, Tick
  PROVE  IInv'
  <1> USE DEF Tick, tables, At
  <1>0. TypeOK /\ ReferencesHold /\ Numbered /\ Remembered /\ Holding
    BY DEF IInv
  <1>1. now' \in Nat /\ now <= now' /\ now' = now + 1
    BY <1>0 DEF TypeOK
  <1>2. member' = [u \in Ids |-> [c \in Ids |->
                     IF user'[u] # NoRow /\ user'[u].client = c THEN now' ELSE member[u][c]]]
    BY DEF Membership
  <1>3. user' \in [Ids -> UserRow \cup {NoRow}]
    BY <1>0 DEF TypeOK
  <1>4. member' \in [Ids -> [Ids -> Int]] /\ Remembered'
    BY <1>0, <1>1, <1>2, <1>3, MembersKept
  <1>5. TypeOK'
    BY <1>0, <1>1, <1>4 DEF TypeOK
  <1>6. ReferencesHold' /\ Numbered'
    BY <1>0 DEF ReferencesHold, Numbered, Exists
  <1>7. Holding'
    BY <1>0 DEF Holding, Known, Current
  <1> QED BY <1>4, <1>5, <1>6, <1>7 DEF IInv

\* A request that goes on reads, hands out a token, or writes one of the tables.
LEMMA StepKinds ==
  ASSUME NEW r \in Requests, Arrive(r) \/ Continue(r)
  PROVE  Reads(r) \/ LoginReply(r) \/ ClientWrites(r) \/ UserWrites(r)
  <1>1. CASE Arrive(r)
    BY <1>1 DEF Arrive, Reads, ClientWrites, UserWrites
  <1>2. CASE Continue(r)
    BY <1>2 DEF Continue, Reads, ClientWrites, UserWrites
  <1> QED BY <1>1, <1>2

\* The statements that write users leave the table as UsersWritten says.
LEMMA UserWritesAre ==
  ASSUME IInv, NEW r \in Requests, UserWrites(r)
  PROVE  UsersWritten(r)
  BY CreateUserWrites, SaveUserWrites DEF UserWrites

\* Every step keeps the invariant.
LEMMA Inductive == IInv /\ [Next]_vars => IInv'
  <1> SUFFICES ASSUME IInv, [Next]_vars PROVE IInv'
    OBVIOUS
  <1>1. CASE UNCHANGED vars
    <2> USE <1>1 DEF vars, tables, history, IInv
    <2>1. TypeOK' /\ ReferencesHold' /\ Numbered'
      BY DEF TypeOK, ReferencesHold, Numbered, Exists
    <2>2. Remembered' /\ Holding'
      BY DEF Remembered, Holding, Known, Current, Exists
    <2> QED BY <2>1, <2>2
  <1>2. CASE Tick
    BY <1>2, TickKeeps
  <1>3. ASSUME NEW r \in Requests, Arrive(r) \/ Continue(r) PROVE IInv'
    BY <1>3, StepKinds, ReadsKeep, LoginReplyKeeps, ClientWritesKeep, UserWritesAre,
       UsersWrittenKeep
  <1>4. ASSUME NEW r \in Requests, StatementFails(r) PROVE IInv'
    BY <1>4, FailureKeeps
  <1> QED BY <1>1, <1>2, <1>3, <1>4 DEF Next

-----------------------------------------------------------------------------
(* The theorems *)

\* Every state satisfies the inductive invariant.
THEOREM Invariance == Spec => []IInv
  BY InitIInv, Inductive, PTL DEF Spec

\* The tables are well typed and closed under their references.
THEOREM TablesAreConsistent == Spec => []TablesConsistent
  <1>1. IInv => TablesConsistent
    BY DEF IInv, TablesConsistent
  <1> QED BY <1>1, Invariance, PTL

\* Whoever is deleted, or moved to another client, is without a token for the
\* old client's data once the duration of a token has passed.
THEOREM TokensDoLapse == Spec => []TokensLapse
  <1>1. IInv => TokensLapse
    <2> SUFFICES ASSUME IInv, NEW token \in tokens, now < token.expires
                 PROVE  now - member[token.user][token.client] < TokenDuration
      BY DEF TokensLapse, VerifyJWT
    <2>1. token.expires \in Nat /\ member[token.user][token.client] \in Int /\ now \in Nat
      BY DEF IInv, TypeOK, Token
    <2>2. token.expires <= member[token.user][token.client] + TokenDuration
      BY DEF IInv, Remembered
    <2> QED BY <2>1, <2>2, AccountsAssumption
  <1> QED BY <1>1, Invariance, PTL

\* The sequence of the clients meets the seeded client once.
THEOREM OneCollision == Spec => []CollidesOnce
  <1>1. IInv => CollidesOnce
    BY DEF IInv, Numbered, CollidesOnce
  <1> QED BY <1>1, Invariance, PTL

-----------------------------------------------------------------------------
(* Action properties *)

\* A row that a statement on users writes has the next id, or its copy is in
\* the hands of the goroutine.
LEMMA RowsWritten ==
  ASSUME IInv, NEW r \in Requests, UserWrites(r), NEW u \in Ids,
         user'[u] # user[u], user'[u] # NoRow
  PROVE  \/ u = nextUser /\ u \notin known.users
         \/ u \in known.users /\ At(r, "saveUser") /\ req[r].id = u
  <1>0. TypeOK /\ Numbered /\ Holding
    BY DEF IInv
  <1>1. nextUser \notin known.users
    BY <1>0 DEF Numbered, TypeOK
  <1>2. CASE RegisterSave(r)
    BY <1>0, <1>1, <1>2 DEF RegisterSave, TypeOK
  <1>3. ASSUME NEW e \in Emails, NEW c \in Ids, CreateUser(r, e, c)
        PROVE  u = nextUser
    BY <1>0, <1>3 DEF CreateUser, SetUsers, TypeOK
  <1>4. CASE SaveUser(r)
    <2>1. At(r, "saveUser") /\ req[r].id \in known.users
      BY <1>0, <1>4 DEF SaveUser, At, Holding, Known
    <2>2. user' = user \/ user' = [user EXCEPT ![req[r].id] = req[r].row]
      BY <1>4 DEF SaveUser, SetUsers
    <2> QED BY <1>0, <2>1, <2>2 DEF TypeOK
  <1>5. ASSUME RemoveUser(r)
        PROVE  FALSE
    <2>1. user' = [user EXCEPT ![req[r].id] = NoRow]
      BY <1>5 DEF RemoveUser, SetUsers
    <2> QED BY <1>0, <2>1 DEF TypeOK
  <1> QED BY <1>1, <1>2, <1>3, <1>4, <1>5 DEF UserWrites

\* A client that a step adds has the next number, or its copy is in the hands
\* of the goroutine.
LEMMA ClientsReturn ==
  ASSUME IInv, NEW r \in Requests, ClientWrites(r) \/ UserWrites(r), NEW c \in clients' \ clients
  PROVE  \/ c = nextClient /\ (c \notin known.clients \/ c = 1)
         \/ /\ c \in known.clients
            /\ \/ req[r].pc \in {"task", "saveClient"} /\ req[r].client = c
               \/ At(r, "register") /\ req[r].row.client = c
  <1>0. TypeOK /\ Numbered /\ Holding
    BY DEF IInv
  <1>1. nextClient \notin known.clients \/ nextClient = 1
    BY <1>0 DEF Numbered, TypeOK
  <1>2. CASE CreateClient(r)
    BY <1>1, <1>2 DEF CreateClient, SetClients
  <1>3. ASSUME RemoveClient(r)
        PROVE  FALSE
    BY <1>3 DEF RemoveClient, SetClients
  <1>4. CASE CreateTaskSave(r) \/ SaveClient(r)
    BY <1>0, <1>4 DEF CreateTaskSave, SaveClient, SetClients, At, Holding, Known
  <1>5. CASE RegisterSave(r)
    BY <1>0, <1>5 DEF RegisterSave, At, Holding, Known
  <1>6. CASE SaveUser(r) \/ (\E e \in Emails, d \in Ids : CreateUser(r, e, d))
             \/ RemoveUser(r)
    BY <1>6 DEF SaveUser, CreateUser, RemoveUser
  <1> QED BY <1>1, <1>2, <1>3, <1>4, <1>5, <1>6 DEF ClientWrites, UserWrites

\* Reads, tokens and failed statements leave the tables.
LEMMA ReadsLeave ==
  ASSUME IInv, NEW r \in Requests, Reads(r) \/ LoginReply(r) \/ StatementFails(r)
  PROVE  UNCHANGED <<user, clients>>
  BY ReadsTake DEF LoginReply, StatementFails, tables

\* An id is not given to another row, but for client 1.
THEOREM CopiesOnlyReturn == Spec => OnlyCopiesReturn
  <1>1. IInv /\ [Next]_vars => [OnlyCopies]_vars
    <2> SUFFICES ASSUME IInv, Next
                 PROVE  OnlyCopies
      OBVIOUS
    <2>1. CASE Tick
      BY <2>1 DEF Tick, tables, OnlyCopies, Exists
    <2>2. ASSUME NEW r \in Requests, Arrive(r) \/ Continue(r)
          PROVE  OnlyCopies
      <3>1. CASE Reads(r) \/ LoginReply(r)
        BY <3>1, ReadsLeave DEF OnlyCopies, Exists
      <3>2. CASE ClientWrites(r)
        <4>1. user' = user
          BY <3>2 DEF ClientWrites, CreateClient, RemoveClient, CreateTaskSave, SaveClient
        <4> QED BY <3>2, <4>1, ClientsReturn DEF OnlyCopies, Exists
      <3>3. CASE UserWrites(r)
        BY <3>3, ClientsReturn, RowsWritten DEF OnlyCopies, Exists
      <3> QED BY <2>2, <3>1, <3>2, <3>3, StepKinds
    <2>3. ASSUME NEW r \in Requests, StatementFails(r)
          PROVE  OnlyCopies
      BY <2>3, ReadsLeave DEF OnlyCopies, Exists
    <2> QED BY <2>1, <2>2, <2>3 DEF Next
  <1> QED BY <1>1, Invariance, PTL DEF Spec, OnlyCopiesReturn

\* A client is missed only after the user that was read has been moved or
\* deleted.
THEOREM PanicsAreMoves == Spec => PanicsOnlyWhenMoved
  <1>1. IInv /\ [Next]_vars => [MovedSince]_vars
    <2> SUFFICES ASSUME IInv, Next, panics' # panics
                 PROVE  \E r \in Requests : /\ req[r].pc \in {"login", "account"}
                                            /\ user[req[r].id] # req[r].row
      BY DEF MovedSince
    <2>0. TypeOK /\ ReferencesHold
      BY DEF IInv
    <2>1. PICK r \in Requests : ClientMissing(r)
      <3>1. ~ Tick
        BY DEF Tick
      <3>2. PICK r \in Requests : Arrive(r) \/ Continue(r)
        BY <3>1 DEF Next, StatementFails, history
      <3>3. ~ LoginReply(r) /\ ~ ClientWrites(r) /\ ~ UserWrites(r)
        BY UserWritesAre DEF LoginReply, history, ClientWrites, CreateClient, RemoveClient,
           CreateTaskSave, SaveClient, UsersWritten
      <3>4. Reads(r)
        BY <3>2, <3>3, StepKinds
      <3> QED
        BY <3>4 DEF Reads, Login, EditUser, Register, GetAccountInfo, CreateTask, UpdateClient,
           AccountReply, UpdateUser, DeleteUser, DeleteClient, history
    <2>2. req[r].pc \in {"login", "account"} /\ req[r].row.client \notin clients
      BY <2>1 DEF ClientMissing
    <2>3. req[r].id \in Ids /\ req[r].row \in UserRow
      BY <2>0, <2>2, Fields
    <2>4. user[req[r].id] # req[r].row
      BY <2>0, <2>2, <2>3, RowsAreRows DEF ReferencesHold, Exists
    <2> QED BY <2>2, <2>4
  <1> QED BY <1>1, Invariance, PTL DEF Spec, PanicsOnlyWhenMoved

\* The least number of a set.
LEMMA LeastOfNats ==
  ASSUME NEW T, T \subseteq Nat, T # {}
  PROVE  \E x \in T : \A y \in T : x <= y
  <1> DEFINE R == { ss \in Nat \X Nat : ss[1] < ss[2] }
  <1>1. IsWellFoundedOn(R, Nat)
    BY NatLessThanWellFounded DEF OpToRel
  <1> HIDE DEF R
  <1>2. PICK x \in T : \A y \in T : <<y, x>> \notin R
    BY <1>1, WFMin
  <1>3. \A y \in T : ~ (y < x)
    BY <1>2 DEF R
  <1>4. \A y \in T : x <= y
    BY <1>3
  <1> QED BY <1>4

\* Login takes the account with the least id of those that share an address.
LEMMA FirstIsLeast ==
  ASSUME NEW e \in Emails, NEW v \in Ids, Exists(v), user[v].email = e
  PROVE  FirstWithEmail(e) <= v
  <1> DEFINE Holders == { u \in Ids : Exists(u) /\ user[u].email = e }
  <1>1. Holders \subseteq Nat /\ v \in Holders
    BY DEF Ids
  <1>2. PICK x \in Holders : \A y \in Holders : x <= y
    BY <1>1, LeastOfNats
  <1> DEFINE P(u) == /\ Exists(u) /\ user[u].email = e
                     /\ \A w \in Ids : Exists(w) /\ user[w].email = e => u <= w
  <1>3. \E u \in Ids : P(u)
    BY <1>2
  <1>4. P(CHOOSE u \in Ids : P(u))
    BY <1>3, Zenon
  <1>5. FirstWithEmail(e) = CHOOSE u \in Ids : P(u)
    BY DEF FirstWithEmail
  <1> QED BY <1>4, <1>5

\* Registrations, deletions and forms for younger accounts leave the one that
\* an address logs in to.
THEOREM LoginIsKept == Spec => LoginKept
  <1>1. IInv /\ [Next]_vars => [KeepsLogin]_vars
    <2> SUFFICES ASSUME IInv, Next, NEW u \in Ids,
                        Exists(u), FirstWithEmail(user[u].email) = u, user'[u] = user[u],
                        ~ \E r \in Requests : At(r, "saveUser") /\ req[r].id < u
                 PROVE  FirstWithEmail(user[u].email)' = u
      BY DEF KeepsLogin
    <2>0. TypeOK /\ Numbered
      BY DEF IInv
    <2> DEFINE e == user[u].email
    <2>1. e \in Emails /\ user[u].email' = e /\ Exists(u)'
      BY <2>0 DEF TypeOK, Exists, UserRow
    <2>2. ASSUME NEW w \in Ids, Exists(w)', user'[w].email = e
          PROVE  u <= w
      <3>1. CASE user'[w] = user[w]
        BY <2>1, <2>2, <3>1, FirstIsLeast DEF Exists
      <3>2. CASE user'[w] # user[w]
        <4>1. PICK r \in Requests : Arrive(r) \/ Continue(r)
          BY <3>2, ReadsLeave DEF Next, Tick, tables
        <4>2. UserWrites(r)
          <5>1. ~ Reads(r) /\ ~ LoginReply(r)
            BY <3>2, ReadsLeave
          <5>2. ~ ClientWrites(r)
            BY <3>2 DEF ClientWrites, CreateClient, RemoveClient, CreateTaskSave, SaveClient
          <5> QED BY <4>1, <5>1, <5>2, StepKinds
        <4>3. w = nextUser \/ (At(r, "saveUser") /\ req[r].id = w)
          BY <2>2, <3>2, <4>2, RowsWritten DEF Exists
        <4>4. u < nextUser
          BY <2>0 DEF Numbered
        <4> QED BY <4>3, <4>4, <2>0 DEF TypeOK, Ids
      <3> QED BY <3>1, <3>2
    <2> DEFINE Q(v) == /\ Exists(v)' /\ user'[v].email = e
                       /\ \A w \in Ids : Exists(w)' /\ user'[w].email = e => v <= w
    <2>3. Q(u)
      BY <2>1, <2>2
    <2>4. \A v \in Ids : Q(v) => v = u
      BY <2>3 DEF Ids
    <2>5. (CHOOSE v \in Ids : Q(v)) = u
      BY <2>3, <2>4
    <2>6. FirstWithEmail(user[u].email)' = CHOOSE v \in Ids : Q(v)
      BY <2>1 DEF FirstWithEmail, Exists
    <2> QED BY <2>5, <2>6
  <1> QED BY <1>1, Invariance, PTL DEF Spec, LoginKept
=============================================================================
