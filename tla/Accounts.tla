------------------------------ MODULE Accounts ------------------------------
(***************************************************************************)
(* Users, clients and tokens: login, registration and the account page of  *)
(* the API server, and the forms by which administrators create, edit and  *)
(* delete users and clients.                                               *)
(*                                                                         *)
(* Rows have ids drawn from sequences; the foreign keys of client_users    *)
(* and data_recognition_tasks keep a client that is referred to. A request *)
(* is a goroutine whose statements interleave with those of others; it     *)
(* lasts less than one tick of the clock. Any statement may fail.          *)
(* Passwords are abstracted: a caller has the password of one account and  *)
(* no two accounts share one. The column client_id may be null, but every  *)
(* user that these handlers or the seed write has a client.                *)
(***************************************************************************)
EXTENDS Integers

CONSTANTS
  Requests,      \* goroutines that serve requests
  Emails,        \* addresses; nothing keeps two users from sharing one
  MaxId,         \* bound: ids that the sequences hand out
  TokenDuration, \* ticks a token lasts (24 hours)
  MaxTime,       \* bound: ticks
  MaxRequests    \* bound: requests served

ASSUME AccountsAssumption ==
  /\ MaxId \in Nat \ {0}
  /\ TokenDuration \in Nat \ {0}
  /\ MaxTime \in Nat
  /\ MaxRequests \in Nat

VARIABLES
  user,        \* table client_users
  clients,     \* ids in table clients
  busy,        \* clients that rows of data_recognition_tasks refer to
  nextUser,    \* sequence of client_users.id
  nextClient,  \* sequence of clients.id
  tokens,      \* tokens handed out
  req,         \* what each goroutine is doing
  now,         \* the time
  started,     \* requests served
  panics,      \* history: goroutines that dereferenced a missing client
  collisions,  \* history: inserts that met the id they drew
  known,       \* history: ids of users and clients that were ever inserted
  member       \* history: when each user last belonged to each client

tables == <<user, clients, busy, nextUser, nextClient>>
history == <<panics, collisions, known, member>>
vars == <<tables, tokens, req, now, started, history>>

Ids == 1 .. MaxId
UserRow == [ email : Emails, client : Ids ]
NoRow == [ email |-> "none" ]
Exists(u) == user[u] # NoRow

Token == [ user : Ids, client : Ids, expires : Nat ]

Idle == [ pc |-> "idle" ]

\* What a goroutine holds between two statements: a row it read or was typed
\* (login, account, register, saveUser), or a user or client it read.
Request ==
  {Idle}
    \cup [ pc : {"login", "account", "form", "saveUser"}, id : Ids, row : UserRow ]
    \cup [ pc : {"register"}, row : UserRow ]
    \cup [ pc : {"removeUser"}, id : Ids ]
    \cup [ pc : {"task", "saveClient", "removeClient"}, client : Ids ]

At(r, pc) == req[r].pc = pc

Accept(r, request) ==
  /\ At(r, "idle")
  /\ started < MaxRequests
  /\ started' = started + 1
  /\ req' = [req EXCEPT ![r] = request]
  /\ UNCHANGED now

\* A request that one statement completes.
AcceptAndReply(r) == Accept(r, Idle)

Reply(r) ==
  /\ req' = [req EXCEPT ![r] = Idle]
  /\ UNCHANGED <<now, started>>

\* When each user last was of each client, if the rows become these.
Membership(rows, time) ==
  [u \in Ids |-> [c \in Ids |->
    IF rows[u] # NoRow /\ rows[u].client = c THEN time ELSE member[u][c]]]

\* client_users becomes rows.
SetUsers(rows) ==
  /\ user' = rows
  /\ member' = Membership(rows, now)
  /\ known' = [known EXCEPT !.users = @ \cup { u \in Ids : rows[u] # NoRow }]

SetClients(ids) ==
  /\ clients' = ids
  /\ known' = [known EXCEPT !.clients = @ \cup ids]

\* A statement fails, the first of a request or the next, and the request ends
\* without a write; an insert may have drawn its id before.
StatementFails(r) ==
  /\ \/ AcceptAndReply(r)
     \/ ~ At(r, "idle") /\ Reply(r)
  /\ \/ UNCHANGED <<nextUser, nextClient>>
     \/ /\ req[r].pc \in {"idle", "register"}
        /\ nextUser <= MaxId
        /\ nextUser' = nextUser + 1
        /\ UNCHANGED nextClient
     \/ /\ At(r, "idle")
        /\ nextClient <= MaxId
        /\ nextClient' = nextClient + 1
        /\ UNCHANGED nextUser
  /\ UNCHANGED <<user, clients, busy, tokens, history>>

Referred(c) == c \in busy \/ \E u \in Ids : Exists(u) /\ user[u].client = c

-----------------------------------------------------------------------------
(* Tokens *)

\* Mutant: the expiry is counted from the start of the program.
GenerateTokenLong(u, c) == [ user |-> u, client |-> c, expires |-> now + 2 * TokenDuration ]

GenerateToken(u, c) == [ user |-> u, client |-> c, expires |-> now + TokenDuration ]

VerifyJWT(token) == now < token.expires

-----------------------------------------------------------------------------
(* The API server *)

\* Mutant: the account with the highest id is taken.
LastWithEmail(e) ==
  CHOOSE u \in Ids : /\ Exists(u) /\ user[u].email = e
                     /\ \A v \in Ids : Exists(v) /\ user[v].email = e => v <= u

\* First orders by primary key.
FirstWithEmail(e) ==
  CHOOSE u \in Ids : /\ Exists(u) /\ user[u].email = e
                     /\ \A v \in Ids : Exists(v) /\ user[v].email = e => u <= v

\* The password is that of the row, or Login ends with 401.
Login(r, u) ==
  /\ Exists(u)
  /\ FirstWithEmail(user[u].email) = u
  /\ Accept(r, [ pc |-> "login", id |-> u, row |-> user[u] ])
  /\ UNCHANGED <<tables, tokens, history>>

\* Preload("Client") is a statement of its own.
LoginReply(r) ==
  /\ At(r, "login")
  /\ req[r].row.client \in clients
  /\ tokens' = tokens \cup { GenerateToken(req[r].id, req[r].row.client) }
  /\ Reply(r)
  /\ UNCHANGED <<tables, history>>

GetAccountInfo(r, token) ==
  /\ VerifyJWT(token)
  /\ Exists(token.user)
  /\ Accept(r, [ pc |-> "account", id |-> token.user, row |-> user[token.user] ])
  /\ UNCHANGED <<tables, tokens, history>>

AccountReply(r) ==
  /\ At(r, "account")
  /\ req[r].row.client \in clients
  /\ Reply(r)
  /\ UNCHANGED <<tables, tokens, history>>

\* user.Client is nil where Login and GetAccountInfo use it.
ClientMissing(r) ==
  /\ req[r].pc \in {"login", "account"}
  /\ req[r].row.client \notin clients
  /\ panics' = panics + 1
  /\ Reply(r)
  /\ UNCHANGED <<tables, tokens, collisions, known, member>>

Register(r, e, c) ==
  /\ c \in clients
  /\ Accept(r, [ pc |-> "register", row |-> [ email |-> e, client |-> c ] ])
  /\ UNCHANGED <<tables, tokens, history>>

\* Mutant: the user gets the smallest free id.
RegisterSaveReusesId(r) ==
  /\ At(r, "register")
  /\ nextUser <= MaxId
  /\ LET id == CHOOSE u \in Ids : ~ Exists(u) /\ \A v \in Ids : ~ Exists(v) => u <= v
         rows == [user EXCEPT ![id] = req[r].row] IN
     /\ user' = rows
     /\ member' = Membership(rows, now)
     /\ known' = [ users |-> known.users \cup {id},
                   clients |-> known.clients \cup {req[r].row.client} ]
  /\ clients' = clients \cup {req[r].row.client}
  /\ nextUser' = nextUser + 1
  /\ Reply(r)
  /\ UNCHANGED <<busy, nextClient, tokens, panics, collisions>>

\* Create saves the association first (INSERT ... ON CONFLICT DO NOTHING), in
\* one transaction with the user: a client deleted meanwhile is there again.
RegisterSave(r) ==
  /\ At(r, "register")
  /\ nextUser <= MaxId
  /\ LET rows == [user EXCEPT ![nextUser] = req[r].row] IN
     /\ user' = rows
     /\ member' = Membership(rows, now)
     /\ known' = [ users |-> known.users \cup {nextUser},
                   clients |-> known.clients \cup {req[r].row.client} ]
  /\ clients' = clients \cup {req[r].row.client}
  /\ nextUser' = nextUser + 1
  /\ Reply(r)
  /\ UNCHANGED <<busy, nextClient, tokens, panics, collisions>>

\* CreateDataRecognitionTask knows the client by the token alone.
CreateTask(r, token) ==
  /\ VerifyJWT(token)
  /\ token.client \in clients
  /\ Accept(r, [ pc |-> "task", client |-> token.client ])
  /\ UNCHANGED <<tables, tokens, history>>

CreateTaskSave(r) ==
  /\ At(r, "task")
  /\ SetClients(clients \cup {req[r].client})
  /\ busy' = busy \cup {req[r].client}
  /\ Reply(r)
  /\ UNCHANGED <<user, nextUser, nextClient, tokens, panics, collisions, member>>

-----------------------------------------------------------------------------
(* The forms of the administrators *)

\* The foreign key refuses a client that does not exist, after the sequence
\* has advanced.
CreateUser(r, e, c) ==
  /\ nextUser <= MaxId
  /\ AcceptAndReply(r)
  /\ nextUser' = nextUser + 1
  /\ IF c \in clients
     THEN SetUsers([user EXCEPT ![nextUser] = [ email |-> e, client |-> c ]])
     ELSE UNCHANGED <<user, member, known>>
  /\ UNCHANGED <<clients, busy, nextClient, tokens, panics, collisions>>

\* The form shows a row that may be gone or changed when it is sent.
EditUser(r, u) ==
  /\ Exists(u)
  /\ Accept(r, [ pc |-> "form", id |-> u, row |-> user[u] ])
  /\ UNCHANGED <<tables, tokens, history>>

\* Every column of the form is written, those the administrator left alone, as
\* they were displayed, too.
UpdateUser(r, row) ==
  /\ At(r, "form")
  /\ req' = [req EXCEPT ![r] =
       IF Exists(req[r].id) THEN [ pc |-> "saveUser", id |-> req[r].id, row |-> row ]
       ELSE Idle]
  /\ UNCHANGED <<tables, tokens, now, started, history>>

\* Save updates the row, or inserts it if it is gone.
SaveUser(r) ==
  /\ At(r, "saveUser")
  /\ IF req[r].row.client \in clients
     THEN SetUsers([user EXCEPT ![req[r].id] = req[r].row])
     ELSE UNCHANGED <<user, member, known>>
  /\ Reply(r)
  /\ UNCHANGED <<clients, busy, nextUser, nextClient, tokens, panics, collisions>>

DeleteUser(r, u) ==
  /\ Exists(u)
  /\ Accept(r, [ pc |-> "removeUser", id |-> u ])
  /\ UNCHANGED <<tables, tokens, history>>

RemoveUser(r) ==
  /\ At(r, "removeUser")
  /\ SetUsers([user EXCEPT ![req[r].id] = NoRow])
  /\ Reply(r)
  /\ UNCHANGED <<clients, busy, nextUser, nextClient, tokens, panics, collisions>>

\* Mutant: an id that is taken is tried again.
CreateClientRetries(r) ==
  /\ nextClient <= MaxId
  /\ AcceptAndReply(r)
  /\ \/ /\ nextClient \notin clients
        /\ SetClients(clients \cup {nextClient})
        /\ nextClient' = nextClient + 1
        /\ UNCHANGED collisions
     \/ /\ nextClient \in clients
        /\ collisions' = collisions + 1
        /\ UNCHANGED <<clients, nextClient, known>>
  /\ UNCHANGED <<user, busy, nextUser, tokens, panics, member>>

\* The sequence does not know of the client the seed created as number 1.
CreateClient(r) ==
  /\ nextClient <= MaxId
  /\ AcceptAndReply(r)
  /\ nextClient' = nextClient + 1
  /\ \/ /\ nextClient \notin clients
        /\ SetClients(clients \cup {nextClient})
        /\ UNCHANGED collisions
     \/ /\ nextClient \in clients
        /\ collisions' = collisions + 1
        /\ UNCHANGED <<clients, known>>
  /\ UNCHANGED <<user, busy, nextUser, tokens, panics, member>>

UpdateClient(r, c) ==
  /\ c \in clients
  /\ Accept(r, [ pc |-> "saveClient", client |-> c ])
  /\ UNCHANGED <<tables, tokens, history>>

SaveClient(r) ==
  /\ At(r, "saveClient")
  /\ SetClients(clients \cup {req[r].client})
  /\ Reply(r)
  /\ UNCHANGED <<user, busy, nextUser, nextClient, tokens, panics, collisions, member>>

DeleteClient(r, c) ==
  /\ c \in clients
  /\ Accept(r, [ pc |-> "removeClient", client |-> c ])
  /\ UNCHANGED <<tables, tokens, history>>

\* Mutant: the tables have no foreign keys.
RemoveClientReferred(r) ==
  /\ At(r, "removeClient")
  /\ SetClients(clients \ {req[r].client})
  /\ Reply(r)
  /\ UNCHANGED <<user, busy, nextUser, nextClient, tokens, panics, collisions, member>>

\* A client that is referred to stays, by the foreign keys.
RemoveClient(r) ==
  /\ At(r, "removeClient")
  /\ IF Referred(req[r].client) THEN UNCHANGED <<clients, known>>
     ELSE SetClients(clients \ {req[r].client})
  /\ Reply(r)
  /\ UNCHANGED <<user, busy, nextUser, nextClient, tokens, panics, collisions, member>>

-----------------------------------------------------------------------------
Tick ==
  /\ now < MaxTime
  /\ \A r \in Requests : At(r, "idle")
  /\ now' = now + 1
  /\ member' = Membership(user, now + 1)
  /\ UNCHANGED <<tables, tokens, req, started, panics, collisions, known>>

\* As seeded: client 1 under an explicit id, its user under one of the sequence.
Init ==
  /\ \E e \in Emails :
       user = [u \in Ids |-> IF u = 1 THEN [ email |-> e, client |-> 1 ] ELSE NoRow]
  /\ clients = {1}
  /\ busy = {}
  /\ nextUser = 2
  /\ nextClient = 1
  /\ tokens = {}
  /\ req = [r \in Requests |-> Idle]
  /\ now = 0
  /\ started = 0
  /\ panics = 0
  /\ collisions = 0
  /\ known = [ users |-> {1}, clients |-> {1} ]
  /\ member = [u \in Ids |-> [c \in Ids |-> IF u = 1 /\ c = 1 THEN 0 ELSE -1]]

Arrive(r) ==
  \/ \E u \in Ids : Login(r, u) \/ EditUser(r, u) \/ DeleteUser(r, u)
  \/ \E e \in Emails, c \in Ids : Register(r, e, c) \/ CreateUser(r, e, c)
  \/ \E token \in tokens : GetAccountInfo(r, token) \/ CreateTask(r, token)
  \/ CreateClient(r)
  \/ \E c \in Ids : UpdateClient(r, c) \/ DeleteClient(r, c)

Continue(r) ==
  \/ LoginReply(r)
  \/ AccountReply(r)
  \/ ClientMissing(r)
  \/ RegisterSave(r)
  \/ CreateTaskSave(r)
  \/ \E row \in UserRow : UpdateUser(r, row)
  \/ SaveUser(r)
  \/ RemoveUser(r)
  \/ SaveClient(r)
  \/ RemoveClient(r)

Next ==
  \/ Tick
  \/ \E r \in Requests : Arrive(r) \/ Continue(r) \/ StatementFails(r)

Spec == Init /\ [][Next]_vars

-----------------------------------------------------------------------------
(* Properties *)

TypeOK ==
  /\ user \in [Ids -> UserRow \cup {NoRow}]
  /\ clients \subseteq Ids
  /\ busy \subseteq Ids
  /\ nextUser \in 1 .. MaxId + 1
  /\ nextClient \in 1 .. MaxId + 1
  /\ tokens \subseteq Token
  /\ req \in [Requests -> Request]
  /\ now \in Nat
  /\ started \in Nat
  /\ panics \in Nat
  /\ collisions \in Nat
  /\ known \in [ users : SUBSET Ids, clients : SUBSET Ids ]
  /\ member \in [Ids -> [Ids -> Int]]

\* A token that verifies names a user who belonged to its client less than the
\* token's duration ago: whoever is deleted or moved to another client loses the
\* client's data by then, whatever deletion, move and login overlap.
TokensLapse ==
  \A token \in tokens :
    VerifyJWT(token) => now - member[token.user][token.client] < TokenDuration

\* The foreign keys hold: an account's client exists, and that of a task.
ReferencesHold ==
  /\ \A u \in Ids : Exists(u) => user[u].client \in clients
  /\ busy \subseteq clients

\* The tables are well typed and closed under their references, whatever copies
\* of deleted rows are saved.
TablesConsistent == TypeOK /\ ReferencesHold

\* A seeded database refuses the form for a new client at most once.
CollidesOnce == collisions <= 1

\* An id is not given to another row: a deleted user or client comes back only
\* as the copy of a request that read it before the deletion. The exception is
\* client 1: once it is deleted the sequence, which the seed did not advance,
\* gives its id to the next client created.
OnlyCopies ==
  /\ \A u \in Ids : ~ Exists(u) /\ user'[u] # NoRow =>
       \/ u = nextUser /\ u \notin known.users
       \/ u \in known.users /\ \E r \in Requests : At(r, "saveUser") /\ req[r].id = u
  /\ \A c \in clients' \ clients :
       \/ c = nextClient /\ (c \notin known.clients \/ c = 1)
       \/ c \in known.clients /\ \E r \in Requests :
            \/ req[r].pc \in {"task", "saveClient"} /\ req[r].client = c
            \/ At(r, "register") /\ req[r].row.client = c

\* No id is given a second time, but for the copies and the client above.
OnlyCopiesReturn == [][OnlyCopies]_vars

\* Who can log in still can after others register: only the form that edits
\* an older account can take the address over.
KeepsLogin ==
  \A u \in Ids :
    Exists(u) /\ FirstWithEmail(user[u].email) = u /\ user'[u] = user[u] =>
      \/ FirstWithEmail(user[u].email)' = u
      \/ \E r \in Requests : At(r, "saveUser") /\ req[r].id < u

\* Registration takes nobody's login away.
LoginKept == [][KeepsLogin]_vars

\* Login and the account page miss their client only if the user they read has
\* been deleted or moved since.
MovedSince ==
  panics' # panics =>
    \E r \in Requests :
      /\ req[r].pc \in {"login", "account"}
      /\ user[req[r].id] # req[r].row

\* A panic of Login or of the account page is always the work of a change made
\* between its two reads.
PanicsOnlyWhenMoved == [][MovedSince]_vars
=============================================================================
