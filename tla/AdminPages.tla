----------------------------- MODULE AdminPages -----------------------------
(***************************************************************************)
(* The pages of the admin server as browsers use them: what each handler   *)
(* renders, which template it asks for, which form that template holds and *)
(* what comes of sending it.                                               *)
(*                                                                         *)
(* A browser opens any page and sends the forms of the page it shows; the  *)
(* required inputs of a form are filled in. A page is abstracted to its    *)
(* template, the row it is about, the clients it lets one choose and the   *)
(* token it has. The session is in the browser's cookie and may expire.    *)
(* A handler's statements are one step, any of which may fail: how         *)
(* requests interleave is the subject of Accounts.                         *)
(***************************************************************************)
EXTENDS Integers, FiniteSets

CONSTANTS
  Browsers,    \* browsers of administrators
  MaxUser,     \* bound: users
  MaxClient,   \* bound: clients
  MaxRequests, \* bound: requests
  MaxFaults,   \* bound: requests of which a statement fails
  MaxExpiries  \* bound: sessions that expire

ASSUME AdminPagesAssumption ==
  /\ IsFiniteSet(Browsers)
  /\ MaxUser \in Nat \ {0}
  /\ MaxClient \in Nat \ {0}
  /\ MaxRequests \in Nat
  /\ MaxFaults \in Nat
  /\ MaxExpiries \in Nat

VARIABLES
  users,    \* the client of each row of client_users
  clients,  \* ids in table clients
  tasks,    \* rows of data_recognition_tasks
  session,  \* each browser's session
  salts,    \* salts handed out
  page,     \* what each browser shows
  requests, \* requests served
  faults,   \* requests of which a statement failed
  expiries  \* sessions that expired

tables == <<users, clients, tasks>>
vars == <<tables, session, salts, page, requests, faults, expiries>>

UserIds == 1 .. MaxUser
ClientIds == 1 .. MaxClient
TaskIds == {1}
NoUser == 0
NoRow == 0
NoSalt == 0

ExistingUsers == { u \in UserIds : users[u] # NoUser }

NoSession == [ salt |-> NoSalt, admin |-> FALSE ]

Templates ==
  {"login.html", "dashboard.html", "user/users_list.html", "user/user_new.html",
   "user/user_edit.html", "user/user_view.html", "client/clients_list.html",
   "client/client_new.html", "client/client_edit.html", "client/client_view.html",
   "recognition_task/tasks.html", "recognition_task/edit.html"}

\* The names under which the pages are parsed.
createRenderer == Templates

-----------------------------------------------------------------------------
(* Rendering *)

Page(template, row, options, token, cause) ==
  [ template |-> template, row |-> row, options |-> options, token |-> token, cause |-> cause ]

\* A page without a form: a redirect that was followed, a status, a panic.
Plain(what) == Page(what, NoRow, {}, NoSalt, "none")

Show(b, p) == page' = [page EXCEPT ![b] = p]

\* A template that does not exist is a nil pointer.
HTML(b, p) == Show(b, IF p.template \in createRenderer THEN p ELSE Plain("panic"))

\* The session's salt, a new one if it has none.
Salt(b) == IF session[b].salt = NoSalt THEN salts + 1 ELSE session[b].salt

\* csrf.GetToken: the page is rendered with a token.
HTMLWithToken(b, template, row, options, cause) ==
  /\ HTML(b, Page(template, row, options, Salt(b), cause))
  /\ session' = [session EXCEPT ![b].salt = Salt(b)]
  /\ salts' = IF Salt(b) > salts THEN Salt(b) ELSE salts

HTMLWithoutToken(b, template, row, cause) ==
  /\ HTML(b, Page(template, row, {}, NoSalt, cause))
  /\ UNCHANGED <<session, salts>>

Answer(b, what) ==
  /\ Show(b, Plain(what))
  /\ UNCHANGED <<session, salts>>

-----------------------------------------------------------------------------
(* Requests. fails: the first statement that fails, 0 if none does. *)

Serve(fails) ==
  /\ requests < MaxRequests
  /\ requests' = requests + 1
  /\ faults' = IF fails = 0 THEN faults ELSE faults + 1
  /\ faults' <= MaxFaults
  /\ UNCHANGED expiries

\* AuthRequired redirects to /login.
AuthRequired(b) == session[b].admin

Get(b, fails) == AuthRequired(b) /\ Serve(fails) /\ UNCHANGED tables

RedirectToLogin(b) ==
  /\ ~ AuthRequired(b)
  /\ Serve(0)
  /\ Answer(b, "redirect")
  /\ UNCHANGED tables

\* The middleware compares the token of the form with that of the session.
CSRF(b) == session[b].salt # NoSalt /\ page[b].token = session[b].salt

\* The form of the page that b shows is sent and reaches its handler.
Post(b, template, fails) ==
  /\ page[b].template = template
  /\ CSRF(b)
  /\ AuthRequired(b)
  /\ Serve(fails)

\* Pages that are a form to send.
WithForm ==
  {"login.html", "user/user_new.html", "user/user_edit.html", "client/client_new.html",
   "client/client_edit.html", "recognition_task/edit.html"}

Mismatch(b) ==
  /\ page[b].template \in WithForm
  /\ ~ CSRF(b)
  /\ Serve(0)
  /\ Answer(b, "mismatch")
  /\ UNCHANGED tables

-----------------------------------------------------------------------------
(* Login and the dashboard *)

ShowLoginPage(b) ==
  /\ Serve(0)
  /\ HTMLWithToken(b, "login.html", NoRow, {}, "none")
  /\ UNCHANGED tables

\* known: the name and the password are those of an admin. The page that
\* says they are not is rendered without a token.
PerformLogin(b, known, fails) ==
  /\ page[b].template = "login.html"
  /\ CSRF(b)
  /\ fails \in {0, 1}
  /\ Serve(fails)
  /\ IF known /\ fails = 0
     THEN /\ session' = [session EXCEPT ![b].admin = TRUE]
          /\ Show(b, Plain("redirect"))
          /\ UNCHANGED salts
     ELSE HTMLWithoutToken(b, "login.html", NoRow, "login")
  /\ UNCHANGED tables

PerformLogout(b) ==
  /\ Get(b, 0)
  /\ session' = [session EXCEPT ![b].admin = FALSE]
  /\ Show(b, Plain("redirect"))
  /\ UNCHANGED salts

\* Counts that fail are shown as 0.
Dashboard(b, fails) ==
  /\ fails \in 0 .. 2
  /\ Get(b, fails)
  /\ HTMLWithoutToken(b, "dashboard.html", NoRow, "none")

-----------------------------------------------------------------------------
(* Users *)

\* The page that says that the query failed has no template.
ListUsers(b, fails) ==
  /\ fails \in {0, 1}
  /\ Get(b, fails)
  /\ IF fails = 0
     THEN /\ HTML(b, Page("user/users_list.html", NoRow, ExistingUsers, NoSalt, "none"))
          /\ UNCHANGED <<session, salts>>
     ELSE HTMLWithoutToken(b, "users.html", NoRow, "fetch")

\* Clients that cannot be read leave nothing to choose.
NewUser(b, fails) ==
  /\ fails \in {0, 1}
  /\ Get(b, fails)
  /\ HTMLWithToken(b, "user/user_new.html", NoRow, IF fails = 0 THEN clients ELSE {},
                   IF fails = 0 THEN "none" ELSE "fetch")

\* What a form sends, apart from the client: values that validate, values that
\* do not, or a password too long to hash.
Values == {"valid", "invalid", "long"}

\* A client must be chosen, of those that the page offers.
UserFormInput(b, values, client) ==
  values # "invalid" /\ client \in page[b].options

\* Mutant: the clients are not read again for a form that did not validate.
UserInvalidWithoutClients(b, template, row, fails) ==
  HTMLWithToken(b, template, row, {}, "validation")

UserInvalid(b, template, row, fails) ==
  HTMLWithToken(b, template, row, IF fails = 0 THEN clients ELSE {},
                IF fails = 0 THEN "validation" ELSE "fetch")

\* The statement is the insertion, or the query for clients. The foreign key
\* refuses a client that is no longer there.
CreateUser(b, values, client, fails) ==
  /\ fails \in {0, 1}
  /\ Post(b, "user/user_new.html", fails)
  /\ IF ~ UserFormInput(b, values, client)
     THEN UserInvalid(b, "user/user_new.html", NoRow, fails) /\ UNCHANGED tables
     ELSE IF values = "long"
     THEN /\ fails = 0
          /\ HTMLWithToken(b, "user/user_new.html", NoRow, {}, "hash")
          /\ UNCHANGED tables
     ELSE IF fails = 1 \/ client \notin clients
     THEN /\ HTMLWithToken(b, "user/user_new.html", NoRow, {}, "save")
          /\ UNCHANGED tables
     ELSE \E u \in UserIds \ ExistingUsers :
          /\ users' = [users EXCEPT ![u] = client]
          /\ Answer(b, "redirect")
          /\ UNCHANGED <<clients, tasks>>

ViewUser(b, u, fails) ==
  /\ fails \in {0, 1}
  /\ Get(b, fails)
  /\ IF u \in ExistingUsers /\ fails = 0
     THEN HTMLWithoutToken(b, "user/user_view.html", u, "none")
     ELSE Answer(b, "404")

\* The query for the user may fail, or the one for clients.
EditUser(b, u, fails) ==
  /\ fails \in 0 .. 2
  /\ Get(b, fails)
  /\ IF u \in ExistingUsers /\ fails # 1
     THEN HTMLWithToken(b, "user/user_edit.html", u, IF fails = 0 THEN clients ELSE {},
                        IF fails = 0 THEN "none" ELSE "fetch")
     ELSE Answer(b, "404")

\* The list of clients has none selected: the browser sends the first unless
\* another is chosen.
UpdateUser(b, values, client, fails) ==
  LET u == page[b].row IN
  /\ fails \in 0 .. 2
  /\ Post(b, "user/user_edit.html", fails)
  /\ IF u \notin ExistingUsers \/ fails = 1
     THEN Answer(b, "404") /\ UNCHANGED tables
     ELSE IF ~ UserFormInput(b, values, client)
     THEN UserInvalid(b, "user/user_edit.html", u, fails) /\ UNCHANGED tables
     ELSE IF values = "long"
     THEN /\ fails = 0
          /\ HTMLWithToken(b, "user/user_edit.html", u, {}, "hash")
          /\ UNCHANGED tables
     ELSE IF fails = 2 \/ client \notin clients
     THEN /\ HTMLWithToken(b, "user/user_edit.html", u, {}, "save")
          /\ UNCHANGED tables
     ELSE /\ users' = [users EXCEPT ![u] = client]
          /\ Answer(b, "redirect")
          /\ UNCHANGED <<clients, tasks>>

\* The button of a user in the list: a form of its own.
DeleteUser(b, u, fails) ==
  /\ page[b].template = "user/users_list.html"
  /\ u \in page[b].options
  /\ CSRF(b) => AuthRequired(b)
  /\ fails \in 0 .. 2
  /\ Serve(fails)
  /\ IF ~ CSRF(b)
     THEN fails = 0 /\ Answer(b, "mismatch") /\ UNCHANGED tables
     ELSE IF u \notin ExistingUsers \/ fails = 1
     THEN Answer(b, "404") /\ UNCHANGED tables
     ELSE IF fails = 2
     THEN HTMLWithoutToken(b, "user/users_list.html", NoRow, "save") /\ UNCHANGED tables
     ELSE /\ users' = [users EXCEPT ![u] = NoUser]
          /\ Answer(b, "redirect")
          /\ UNCHANGED <<clients, tasks>>

-----------------------------------------------------------------------------
(* Clients *)

ListClients(b, fails) ==
  /\ fails \in {0, 1}
  /\ Get(b, fails)
  /\ IF fails = 0
     THEN /\ HTML(b, Page("client/clients_list.html", NoRow, clients, NoSalt, "none"))
          /\ UNCHANGED <<session, salts>>
     ELSE HTMLWithoutToken(b, "clients.html", NoRow, "fetch")

NewClient(b) ==
  /\ Get(b, 0)
  /\ HTMLWithToken(b, "client/client_new.html", NoRow, {}, "none")

\* The inputs of the two forms.
ClientInputs(template) ==
  IF template = "client/client_new.html"
  THEN {"name", "quota", "total_quota"}
  ELSE {"name", "quota", "total_quota", "owner_fio", "inn", "ogrn"}

\* All are required, and a quota of 0 does not validate.
ClientFormInput(b, values) ==
  /\ values = "valid"
  /\ {"name", "quota", "total_quota", "owner_fio", "inn", "ogrn"}
       \subseteq ClientInputs(page[b].template)

CreateClient(b, values, fails) ==
  /\ fails \in {0, 1}
  /\ Post(b, "client/client_new.html", fails)
  /\ IF ~ ClientFormInput(b, values)
     THEN /\ fails = 0
          /\ HTMLWithToken(b, "client/client_new.html", NoRow, {}, "validation")
          /\ UNCHANGED tables
     ELSE IF fails = 1
     THEN /\ HTMLWithToken(b, "client/client_new.html", NoRow, {}, "save")
          /\ UNCHANGED tables
     ELSE \E c \in ClientIds \ clients :
          /\ clients' = clients \cup {c}
          /\ Answer(b, "redirect")
          /\ UNCHANGED <<users, tasks>>

ViewClient(b, c, fails) ==
  /\ fails \in {0, 1}
  /\ Get(b, fails)
  /\ IF c \in clients /\ fails = 0
     THEN HTMLWithoutToken(b, "client/client_view.html", c, "none")
     ELSE Answer(b, "404")

\* Mutant: the form gets no token.
EditClientWithoutToken(b, c, fails) ==
  /\ fails \in {0, 1}
  /\ Get(b, fails)
  /\ IF c \in clients /\ fails = 0
     THEN HTMLWithoutToken(b, "client/client_edit.html", c, "none")
     ELSE Answer(b, "404")

EditClient(b, c, fails) ==
  /\ fails \in {0, 1}
  /\ Get(b, fails)
  /\ IF c \in clients /\ fails = 0
     THEN HTMLWithToken(b, "client/client_edit.html", c, {}, "none")
     ELSE Answer(b, "404")

\* The columns that a client's row has are not modelled.
UpdateClient(b, values, fails) ==
  LET c == page[b].row IN
  /\ fails \in 0 .. 2
  /\ Post(b, "client/client_edit.html", fails)
  /\ IF c \notin clients \/ fails = 1
     THEN Answer(b, "404")
     ELSE IF ~ ClientFormInput(b, values)
     THEN fails = 0 /\ HTMLWithToken(b, "client/client_edit.html", c, {}, "validation")
     ELSE IF fails = 2
     THEN HTMLWithToken(b, "client/client_edit.html", c, {}, "save")
     ELSE Answer(b, "redirect")
  /\ UNCHANGED tables

\* The button of a client in the list. The foreign keys keep a client that a
\* row refers to; the page that says so has no template.
DeleteClient(b, c, fails) ==
  /\ page[b].template = "client/clients_list.html"
  /\ c \in page[b].options
  /\ CSRF(b) => AuthRequired(b)
  /\ fails \in 0 .. 2
  /\ Serve(fails)
  /\ IF ~ CSRF(b)
     THEN fails = 0 /\ Answer(b, "mismatch") /\ UNCHANGED tables
     ELSE IF c \notin clients \/ fails = 1
     THEN Answer(b, "404") /\ UNCHANGED tables
     ELSE IF fails = 2 \/ \E u \in UserIds : users[u] = c
     THEN HTMLWithoutToken(b, "client/clients.html", NoRow, "save") /\ UNCHANGED tables
     ELSE /\ clients' = clients \ {c}
          /\ Answer(b, "redirect")
          /\ UNCHANGED <<users, tasks>>

-----------------------------------------------------------------------------
(* Tasks *)

ListRecognitionTasks(b, fails) ==
  /\ fails \in 0 .. 2
  /\ Get(b, fails)
  /\ HTMLWithoutToken(b, "recognition_task/tasks.html", NoRow,
                      IF fails = 0 THEN "none" ELSE "fetch")

\* A query that fails shows the form of no task, without a token.
EditRecognitionTask(b, t, fails) ==
  /\ fails \in {0, 1}
  /\ Get(b, fails)
  /\ IF fails = 1
     THEN HTMLWithoutToken(b, "recognition_task/edit.html", NoRow, "fetch")
     ELSE IF t \in tasks
     THEN HTMLWithToken(b, "recognition_task/edit.html", t, {}, "none")
     ELSE Answer(b, "404")

\* The page for a failed save shows the task with its client, and no token. The
\* hook runs after a failed save too, and reads the client; for a status that
\* is terminal it does not, and the page breaks off at the client, before its
\* form. If a statement of the hook fails as well, the hook panics.
SaveFails(b) ==
  \/ HTMLWithoutToken(b, "recognition_task/edit.html", page[b].row, "save")
  \/ Answer(b, "broken")
  \/ Answer(b, "panic")

\* The statements: the query for the task, the save, and those of the hook after
\* a save that succeeded.
UpdateRecognitionTask(b, fails) ==
  /\ fails \in 0 .. 3
  /\ Post(b, "recognition_task/edit.html", fails)
  /\ \/ fails = 0 /\ Answer(b, IF page[b].row \in tasks THEN "redirect" ELSE "404")
     \/ fails = 1 /\ HTMLWithoutToken(b, "recognition_task/edit.html", NoRow, "fetch")
     \/ fails = 2 /\ page[b].row \in tasks /\ SaveFails(b)
     \/ fails = 3 /\ page[b].row \in tasks /\ Answer(b, "panic")
  /\ UNCHANGED tables

\* The API deletes a task.
TaskDeleted ==
  /\ tasks # {}
  /\ tasks' = {}
  /\ UNCHANGED <<users, clients, session, salts, page, requests, faults, expiries>>

-----------------------------------------------------------------------------
SessionExpires(b) ==
  /\ session[b] # NoSession
  /\ expiries < MaxExpiries
  /\ expiries' = expiries + 1
  /\ session' = [session EXCEPT ![b] = NoSession]
  /\ UNCHANGED <<tables, salts, page, requests, faults>>

\* As seeded, perhaps with another client.
Init ==
  /\ users = [u \in UserIds |-> IF u = 1 THEN 1 ELSE NoUser]
  /\ \E others \in SUBSET (ClientIds \ {1}) : clients = {1} \cup others
  /\ tasks \in SUBSET TaskIds
  /\ session = [b \in Browsers |-> NoSession]
  /\ salts = 0
  /\ page = [b \in Browsers |-> Plain("blank")]
  /\ requests = 0
  /\ faults = 0
  /\ expiries = 0

Failures == 0 .. 3

Opens(b) ==
  \/ ShowLoginPage(b)
  \/ RedirectToLogin(b)
  \/ PerformLogout(b)
  \/ NewClient(b)
  \/ \E f \in Failures :
       \/ Dashboard(b, f)
       \/ ListUsers(b, f)
       \/ NewUser(b, f)
       \/ \E u \in UserIds : ViewUser(b, u, f) \/ EditUser(b, u, f)
       \/ ListClients(b, f)
       \/ \E c \in ClientIds : ViewClient(b, c, f) \/ EditClient(b, c, f)
       \/ ListRecognitionTasks(b, f)
       \/ \E t \in TaskIds : EditRecognitionTask(b, t, f)

Sends(b) ==
  \/ Mismatch(b)
  \/ \E f \in Failures :
       \/ \E known \in BOOLEAN : PerformLogin(b, known, f)
       \/ \E values \in Values, c \in ClientIds :
            CreateUser(b, values, c, f) \/ UpdateUser(b, values, c, f)
       \/ \E u \in UserIds : DeleteUser(b, u, f)
       \/ \E values \in {"valid", "invalid"} :
            CreateClient(b, values, f) \/ UpdateClient(b, values, f)
       \/ \E c \in ClientIds : DeleteClient(b, c, f)
       \/ UpdateRecognitionTask(b, f)

Next ==
  \/ \E b \in Browsers : Opens(b) \/ Sends(b) \/ SessionExpires(b)
  \/ TaskDeleted

Spec == Init /\ [][Next]_vars

-----------------------------------------------------------------------------
(* Properties *)

TypeOK ==
  /\ users \in [UserIds -> ClientIds \cup {NoUser}]
  /\ clients \subseteq ClientIds
  /\ tasks \subseteq TaskIds
  /\ salts \in 0 .. Cardinality(Browsers) + expiries
  /\ session \in [Browsers -> [ salt : 0 .. salts, admin : BOOLEAN ]]
  /\ DOMAIN page = Browsers
  /\ \A b \in Browsers :
       /\ page[b].options \subseteq UserIds \cup ClientIds
       /\ page[b].token \in 0 .. salts
  /\ requests \in Nat
  /\ faults \in Nat
  /\ expiries \in Nat

\* A page breaks only when a statement fails: every template that a handler asks
\* for otherwise exists.
PanicsNeedFaults ==
  \A b \in Browsers : page[b].template \in {"panic", "broken"} => faults > 0

\* A form for a user offers the clients, unless they could not be read, the user
\* could not be saved or the password could not be hashed.
FormsOfferClients ==
  \A b \in Browsers :
    /\ page[b].template \in {"user/user_new.html", "user/user_edit.html"}
    /\ page[b].cause \notin {"fetch", "save", "hash"}
    => page[b].options = clients

\* The pages that a form has no token on: the login after a wrong password or a
\* failed query, and a task that could not be read or saved.
FormWithoutToken(p) ==
  \/ p.template = "login.html" /\ p.cause = "login"
  \/ p.template = "recognition_task/edit.html" /\ p.cause \in {"fetch", "save"}

\* Every other form has a token.
FormsHaveTokens ==
  \A b \in Browsers :
    page[b].template \in WithForm /\ page[b].token = NoSalt => FormWithoutToken(page[b])

\* A page panics or breaks off only after a failed statement; a form has its token
\* and a form for a user its clients, but for the exceptions that FormsHaveTokens
\* and FormsOfferClients name. That a form with both is accepted is not said: the
\* one for a new client never is.
PagesWork == TypeOK /\ PanicsNeedFaults /\ FormsOfferClients /\ FormsHaveTokens

\* The middleware refuses a form only if the session is no longer the one that the
\* form was made for, or if the page has no token: after a failed login, for a task
\* that could not be read or saved, or on a list, whose buttons delete.
ExplainsMismatch ==
  \A b \in Browsers :
    page'[b].template = "mismatch" /\ page[b].template # "mismatch" =>
      \/ page[b].token \notin {NoSalt, session[b].salt}
      \/ /\ page[b].token = NoSalt
         /\ \/ FormWithoutToken(page[b])
            \/ page[b].template \in {"user/users_list.html", "client/clients_list.html"}

\* Each refusal has one of those reasons.
MismatchExplained == [][ExplainsMismatch]_vars
=============================================================================
