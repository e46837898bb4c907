# TLA+ models of sferra-cloud

sferra-cloud takes recognition tasks (sets of images) from the users of paying
clients, hands them to recognition workers, and charges the client's quota as a
task moves through its phases. This directory holds TLA+ modules of the parts
that decide something, the TLC configurations that check them, and proofs that
TLAPS checks.

- `PROJECT.json` maps every definition to the lines it models and lists runs,
  mutants, findings, hazards and theorems.
- Check a run with `tlc -config X.cfg M`, a proof with `tlapm M.tla`.

## 1. The system

One program (`cmd/main.go`) runs three servers over one PostgreSQL database and
one S3 bucket; `cmd/api`, `cmd/grpc` and `cmd/admin` run one server each.

| Part | State it keeps | Operations | Correct when |
| --- | --- | --- | --- |
| Task state machine, `pkg/db_hooks` | rows `data_recognition_tasks` (status, worker, images, results) and `clients.quota` | `Process` and its handlers, run by a gorm after-commit hook at every save of a task, and by the service itself | every phase is paid for once; the quota adds up and has a floor; terminal statuses are terminal; the recursion of hooks and saves ends |
| Task subscriptions, `StateMachine.Subscribe/Unsubscribe/notifySubscribers`, `TaskService.Subscribe` | a map of channels under a `sync.RWMutex`, one channel of 100 per stream | register, query, send, receive, notify, unregister | no send on a closed channel; no task falls between query and channel; a slow worker blocks nobody; no leaked entry |
| `TaskService` (gRPC), `pkg/grpc/server/task_service.go` | none but the rows | ReserveTask, ReportTaskStatus, FinishTask, FailTask, Subscribe | only pending tasks are reserved; a late answer does not undo an ended task |
| REST tasks, `pkg/api/handlers/data_recognition_task.go` | the rows | create, get, list, update, delete | a deleted task is gone; an update pays as a creation does |
| Admin forms, `pkg/admin/recognition_task.go`, `client.go`, `user.go` | rows of tasks, clients, users | edit a status, a quota, users and clients | edits and charges do not erase each other |
| Configuration, startup, database initialisation, shutdown, `pkg/config`, `cmd`, `pkg/db/db.go` | the globals `db.DB` and `db.StateMachine`, the hooks of each handle, the wait group | LoadConfig, InitDB (three times), the servers, signal, Shutdown | a sound environment serves; the handle in use has hooks; a signal ends the program, after the requests in progress |
| Seed, `pkg/admin/seed.go` | rows of admins, clients, users, tasks; two objects | default admin, demo client, user, task, uploads | complete, once, whatever fails |
| Accounts, tokens, middleware, `pkg/auth`, `pkg/api/handlers/auth.go`, `account.go`, `pkg/admin/auth.go` | users, clients, admins; signed tokens; sessions | register, log in, verify | a token does not outlive what it claims |
| Images and storage, `pkg/services`, `pkg/api/handlers/image.go` | objects keyed by client, task and file name; presigned URLs; what browsers cache | upload, get, presign | what was answered 200 is stored; the program never answers one client with another's images; a replaced image does not live on in caches for ever |
| Routing, `router.go`, `docs.go`, the generated gRPC services | tables of routes, operations and methods | match, authenticate | the document, the routes and the list of protected methods agree; the handlers get the parameters they read |
| Task queries, `data_recognition_task.go` | none | one task, pages of an unordered query | a page agrees with the total it comes with |
| Generated persistence, `models.pb.gorm.go`, `hacks.go` | the four tables | create, read, delete, strict update, patch, list, and the sets of them | an error changes nothing; a patch keeps what its mask does not name |
| Admin pages, `pkg/admin`, `templates` | sessions, tokens of forms | render, submit, log in and out | every page that is rendered exists; a form has the token and the choices it needs, or the handler that left them out is known |
| Generated messages, test utilities | none | | not modelled |

How they interact. A handler reads a row into a private copy, edits the copy and
saves all its columns. The save's hook calls `Process` on the same copy in the
same goroutine; `Process` may charge the client (read the row, subtract, write the
whole row) and save the task again, which calls the hook again. A pending task
is published to the subscribed streams by non-blocking sends under the read
lock; a stream first registers its channel, then sends what the database already
holds, then what the channel brings. Nothing is in a transaction beyond the
single statement, so goroutines interleave between any two statements. No
handler uses optimistic locking.

What is hard: lost updates of rows and quotas, copies that are stale when they
are saved, hooks that run after a save that failed, crashes between a charge and
the status it pays for, channels closed while others send, a global handle that
is replaced while requests use it, a seed that is interrupted, tokens and cached
images that outlive what they were made for, bulk writes that fail half-way,
forms and routes that disagree with their handlers. `PROJECT.json` lists each
hazard at its line.

In this commit `RunGRPCServer` does not register the TaskService
(`pkg/grpc/server/server.go:70` is commented out); its methods are modelled as
they are written and as `task_service_test.go` calls them.

## 2. The modules

| Module | Models | Proofs |
| --- | --- | --- |
| `TaskStatus` | the status enumeration, terminal and pending statuses | |
| `TaskLedger` | abstract: what a task costs and when | |
| `TaskMachine` | every request that saves a task or a quota, the hook, `Process` and its handlers; implements `TaskLedger` | `TaskMachineProofs` |
| `TaskSubscription` | the subscriber map, its lock, the channels, `TaskService.Subscribe`, publishers | `TaskSubscriptionProofs` |
| `Lifecycle` | the four programs: configuration, InitDB, servers, signals, Shutdown | `LifecycleProofs` |
| `Seed` | the statements of `seed` | `SeedProofs` |
| `Accounts` | users, clients and tokens under login, registration, the account page and the admin forms | `AccountsProofs` |
| `RowStore` | the generated conversions and `Default*` functions over the four tables | `TaskQueriesProofs` |
| `TaskQueries` | extends `RowStore` with the get and list handlers | `TaskQueriesProofs` |
| `Routes` | the tables of routes, documented operations and gRPC methods | `GatewayProofs` |
| `Gateway` | extends `Routes` with the middleware, the interceptors, the image handlers and the object store | `GatewayProofs` |
| `AdminPages` | what the admin handlers render and what browsers send back | `AdminPagesProofs` |
| `MC...` | constants and symmetry for TLC; Lifecycle and Seed need none | |

A definition whose comment begins with `Mutant:` is a plausible bug of the
definition that follows it. The runs do not use it; `PROJECT.json` names the
property that catches it.

### TaskMachine

State: `row` (the columns of a task that decide anything), `quota` (the client's
column), and `req`, what each goroutine does: `copy` is `task` in memory,
`client`/`loaded` is `task.Client`, which a handler may have preloaded. One action
is at most one write to the database with the reads before it, so that every
interleaving of statements is one of the model's, and nothing that the code reads
early is read later in the model.

| Action | Code |
| --- | --- |
| `CreateTask`, `UpdateTask`, `DeleteTask`, `RemoveTask` | REST handlers; the first read, or the delete |
| `ReserveTask`, `ReportTaskStatus`, `FinishTask`, `FailTask`, `FinishTaskPanics` | TaskService |
| `UpdateRecognitionTask`, `UpdateClient`, `SaveClient` | admin forms |
| `InsertTask`, `SaveTask`, `SaveMissesRow`, `ReinsertTask`, `SaveFails` | gorm `Create` and `Save`: `Save` updates every column, inserts when it met no row, and runs the hook in each case, after a rollback too |
| `handlePending` ... `handleRecognitionCompleted`, `ChargeImages`, `ChargeRecognition` | the handlers of `Process`, each charge being a write of its own |
| `ProcessFails`, `FlattenPanics`, `StatementFails`, `Crash` | errors and panics; a panic in a gRPC goroutine ends the program, gin recovers the others |

A status is one of the enumeration or `UNKNOWN`, which stands for every other
integer that the status form and a REST body accept: `Process` does nothing for it.

Every save of a handler is its last statement, which makes the recursion of saves
and hooks the loop save, process, save; `Return` unwinds what waits on the stack
(the insert of a save that met no row, the reply, the second call of `Process` by
the service). `granted`, `spent`, `completed`, `paid`, `forced` and `announced` are
history: no guard reads them.

### TaskSubscription

`pub` is a goroutine in `notifySubscribers` (or about to save), `stream` a call
of `Subscribe`. Taking the write lock has two steps: a waiting writer keeps new
readers out (`writer`), then waits for the readers that are in (`readers`), as
`sync.RWMutex` does. `notifySubscribers` is one round of the range loop. `sent` and
`dropped` are history. `handleImagesCompleted` publishes before it saves
(`AnnounceEarly`, `SaveAnnounced`); the rest of the state machine is
TaskMachine's, whose runs check what TaskSubscription assumes of its publishers
(`PendingAnnounced`: a pending task is published after its save).

### TaskLedger and the refinement

`TaskLedger` has, per task, a stage (`absent`, `ready`, `open`, `recognition`,
`failed`, `completed`, `deleted`), the phases that are paid for and not entered
yet, and per client an account. A task is admitted, and enters recognition, only
by using up a payment of its own; it completes only from recognition; it stays as
it ended; an account moves only by such payments and by what an administrator
types. A user or administrator who is writing a task may put it anywhere.

`Books == INSTANCE TaskLedger WITH ...` at the end of `TaskMachine` maps the
detailed state to it: `Stage` groups the statuses of a row, `account` is the
quota column, `edited` are the tasks of requests that type a status
(`EditedTasks`), and `owed` is what is visible of a payment between its write and
the save of the status it pays for (`OwedPhases`): a request that is about to
save a copy that is still pending. Copies, hooks, nested saves and their errors are
stutters or single steps of the ledger. The run `serial` checks
`ImplementsLedger` with crashes and failed statements anywhere, and the theorem
LedgerImplemented proves it. It does not hold of overlapping requests: two of them
may pay for one completion twice, and a stale copy may leave a terminal stage (see
"Met while modelling").

### Lifecycle

`program` chooses the combined program or one of `cmd/api`, `cmd/grpc`, `cmd/admin`;
`env` is what is wrong with its environment, and `validate` what LoadConfig refuses
of it. Each initialiser (main, gRPC, admin) assigns `db.DB`, migrates, registers the
hooks on whatever handle `db.DB` is by then, and assigns `db.StateMachine`: one
action each. In debug mode (`debug`) it also assigns `DB.Debug()`, a session of
whatever handle `db.DB` is by then, in two steps: read and assign. `hooks` maps a
handle to the state machine its hooks run, which a session shares. A DSN that
`sentry.Init` refuses ends the combined program. A request of the API server is
accepted, and later saves a task through `db.DB`.

### Seed

One action per statement or upload, programs that share the database and are
killed and started again; the history is the tables themselves.

### Accounts

Rows of `client_users` and `clients` have ids drawn from sequences; foreign keys
keep a client that is referred to (`ReferencesHold` checks that the actions
respect them). A request that is more than one statement keeps what it read or
was typed in `req`: `Login` and `GetAccountInfo` read the user and then preload
its client, `Register` reads the client and then creates the user with it (gorm
inserts an association that is missing, a form reads a row and then saves all of
it, a deletion reads the row and then deletes it). Any of them may fail at any
statement (`StatementFails`), an insert after it has drawn an id. The column `client_id`
may be null, but no handler nor the seed writes a null, so a user always has a client.
`now` ticks only while no request is in progress, since a request lasts less than the
hours a tick stands for. `GenerateToken` and `VerifyJWT` give and check the expiry;
`member` remembers when a user last belonged to a client.

### RowStore and TaskQueries

Every entity has two columns that any value may take (users and tasks one) and
the columns that another table or a conversion depends on. `op[c]` is what a
caller is doing between two statements: a strict update of a client deletes its
users and then saves, a patch reads and then saves, a patch of a set is a sequence of
patches. `ToORM` and `ToPB` are modelled by what they keep: a task's conversion
to a row drops its result and its client's id, a row without a result makes
`AfterToPB` panic. `TaskQueries` adds `ListDataRecognitionTask`, which counts and
then finds, without a transaction and in no order, so that the page is any
set of rows of the right size.

### Routes and Gateway

`Routes` states four tables: the routes of `SetupRouter`, those the image tests
set up, the operations of the Swagger document, the gRPC services and the list
`protectedMethods`. A path is a sequence of segments, a parameter any segment.
`Gateway` sends requests with every kind of credential over one of them:
`setting` is the program, the router of the image tests, or a gRPC server on
which the generated functions have registered the services. The last two are there because the
program's routes never give the image handlers the parameters they read, and
its gRPC server registers nothing: what the handlers and the interceptor do when
they are reached shows only there. An upload puts an object (which the SDK may
repeat), then signs a URL; a download gets it and delivers it into the
browser's cache. The answer is `public` under a path without the client, so the
delivery may also leave it in a `shared` cache between the browsers, which
`ServeShared` answers any of them from; an entry remembers where it came `from`.
A file name is abstracted to what the handlers tell apart: one with a `+`, which
`QueryUnescape` changes; one with a bare `%` or, decoded, a `/`, which is refused; one
that holds `NoSuchKey`, the text by which the service recognises a missing
object in an error (`LooksMissing`); and any other.

### AdminPages

A browser has a session (a salt and an admin) and shows a page: its template, the
row it is about, the clients it offers, the token of its form and why it is shown
(`cause`: a refused login, a failed query or save, a password that cannot be
hashed). It opens any page, or sends a form of the page it shows, which may have
gone stale. Each handler is one action with each of its error pages a disjunct,
`fails` being the statement that fails, and asks for a template by name;
`createRenderer` is the set of names that are loaded. `ClientInputs` are the inputs
that `client_new.html` has. After a failed save of a task the hook runs as well
(`SaveFails`): it loads the client into the handler's task, so that the error page
is the whole form without a token; for a terminal status it does not, and the page
breaks off; and it may panic.

## 3. The runs

| Run | Instance | Distinct states | Shows |
| --- | --- | --- | --- |
| `serial` | one request at a time, 4 requests, 1 task of up to 2 images, every operation and status, one outside the enumeration included, one fault, stalls | 740 333 | TypeOK, QuotaAccounting, SingleCharge, TerminalStays, ImplementsLedger: what the code promises when requests do not overlap, crashes included |
| `interleaved` | 2 goroutines, 4 requests, 1 task of up to 2 images, a quota of 1, the operations of workers with creation, status form and deletion, fairness | 121 735 | PaidBeforeRecognition, PendingAnnounced, QuotaFloor, NeverOvercharged, RequestsEnd: what it promises whatever overlaps |
| `subscription` | 1 task, 2 publishers, 2 streams, channels of 1, 2 requests, fairness | 456 398 | TypeOK, SendsOnOpen, SubscribersServed, NoneMissed, NobodyWaits, PendingDelivered |
| `lifecycle` | 4 programs, every environment, with and without debug mode, 2 API requests, 2 failures, fairness | 231 305 | TypeOK, HookedWhenSettled, StopsListening, AllServe |
| `seed` | 2 programs, 2 files, 3 failures or restarts | 3 083 | TypeOK, SeededOnce, AdminBeforeServing, ListedStored |
| `accounts` | 2 goroutines, 5 requests, ids up to 3, 2 addresses, tokens of 1 tick of 2, any statement may fail | 309 194 | TablesConsistent, TokensLapse, CollidesOnce, OnlyCopiesReturn, LoginKept, PanicsOnlyWhenMoved |
| `rows` | 2 callers and a reader, 2 operations, 2 rows a table, one failed statement, pages 0 to 2 of size -1 to 2 | 278 415 | OutcomesTell, PageAgreesWithTotal, PatchKeeps |
| `gateway` | 3 settings, 2 goroutines, 3 requests, 2 clients with a browser each and a cache between them, 1 task, 4 kinds of names, 2 puts, URLs of 1 tick, caches of 2 | 455 196 | UploadsKept, OwnImages, CachedIsRecent, TokensRequired, ReadsFindUploads |
| `admin_pages` | 2 browsers, 7 requests, 2 users and clients, one request with a failed statement, one expired session | 64 676 | PagesWork, MismatchExplained |

There is one type invariant per module. `TablesConsistent`, `OutcomesTell`,
`UploadsKept` and `PagesWork` are conjunctions that contain it, with parts that
have names and comments of their own, as have `NobodyWaits` and `TokensRequired`.
What a property says, and of which code, is stated above its definition.

Runs that expect a violation. Each checks what a comment or a test of the
repository says, and TLC's trace shows how the code comes to do otherwise:

| Run | Violated | Because |
| --- | --- | --- |
| `quota_lost_update` | QuotaAccounting | two charges write the whole client row they read |
| `tasks_unhandled` | TasksHandled | `db.DB` is assigned before its hooks are registered |
| `documented_routes` | DocumentedRoutesServed | the image operations of the document have no route |

QuotaAccounting holds for serial requests and is violated by two that overlap: the
pair of runs shows that the interleaving, and nothing else, breaks it. The same is
true of SingleCharge, TerminalStays and ImplementsLedger: give `serial` two requests.

### Met while modelling

The models have the following as the code has it, without a run of its own.

Tasks and quota.
- Two requests that hold the same completed copy of a task charge for it twice
  (SingleCharge under overlap); one that read a task before it ended, or before
  it was deleted, brings it back (TerminalStays under overlap).
- ReserveTask refuses only terminal statuses although `task_service.go:79` speaks
  of pending ones. `server.go:70` registers no service.
- `DefaultCreate` and `DefaultStrictUpdate` of a task commit and then panic, since
  `ToORM` drops the result that `AfterToPB` dereferences; a patch of a task clears
  its client and its result. A mask with `Client.Name` and without `Client.Id`
  creates a client. `DefaultStrictUpdateClient` deletes the users of the client,
  whatever the message lists, and does not put them back, though its comment
  (`models.pb.gorm.go:606`) speaks of clearing, replacing and appending. The lock
  of a patch is taken after its read.

Startup and shutdown.
- After a signal, main waits for the gRPC and admin servers, which nothing stops
  (`main.go:117`). It may also return while Shutdown still waits for requests, since
  the wait group counts ListenAndServe, which returns as soon as Shutdown is
  called (`main.go:85`).
- `validate` does not look at the admin port: the admin server ends alone.
- A failed gorm.Open of a later server leaves `db.DB` without a connection for the
  API server.
- A failed Count of admins creates a second default admin (`seed.go:29`). A program
  killed after it created client 1 never seeds the rest: the next start finds the
  client (`seed.go:52`). Client 1 is inserted with an explicit id, so that the
  first client of the form is refused once.

Accounts.
- Register resurrects a client that is deleted while it hashes the password, a
  form save resurrects a user.

Images and routes.
- The routes of the program give the image handlers neither `task_id` nor
  `image_id`, so that uploads and downloads answer 400.
- `TestUploadImageInvalidTaskID` expects 400 of a task id that is no number; the
  handler refuses only the empty one.
- A name with `+` decodes to another name, and one with a bare `%` is refused.
- The answer of GetImage is `public, max-age=31536000` (`image.go:151`) under a path
  that names no client: a cache shared by two clients may show one the other's image.
  OwnImages says that only such a cache does.
- The service reads "NoSuchKey" off the text of an error (`service.go:63`), and an
  error of the transport quotes the URL: a stored image of such a name passes
  for missing when the network fails. ReadsFindUploads excepts that name.
- A failed presign answers 500 and leaves the object.

Admin pages.
- The buttons that delete users and clients send no token: always refused. So are
  a login that follows a failed one, and the form of a task that could not be saved.
- `client_new.html` lacks owner_fio, inn and ogrn, which its handler requires: it
  creates no client. A quota of 0 is refused (`required`).
- `user_edit.html` selects no client: an unchanged form moves the user to the
  first one. Error pages of failed saves, and of passwords too long to hash, offer
  no clients.
- `users.html`, `clients.html` and `client/clients.html` are rendered on errors
  and not loaded; the page of a task that could not be saved with a terminal status
  breaks off in its template.

### Bounds

`MaxRequests` and `MaxFaults` bound how much happens, `MaxImages`, `MaxQuota`
and `Capacity` sizes; each is a constant used in a guard. Four requests are
enough to create a task, to bring it to the end of its images and to touch it at
any point meanwhile; two goroutines are what every lost update takes; the one
fault of `serial` falls at every step. Quota 1 and two images make the overdraft
happen. A channel of one overflows on the second notification, as one of 100 does
on the hundred and first; two requests of which each may announce twice fill it.
Three faults over two programs stop the seed at any prefix while the other program
is at any other. Five requests of `accounts` are what it takes to create, log in,
delete, recreate and use; ids up to 3 leave two beyond the seeded rows. Two puts replace
an image, and two ticks outlast each lifetime. A login of `admin_pages` takes two
requests: seven log both browsers in and leave three for pages and their forms. A
fault there is a request of which one statement fails, whichever it is.
The theorems need none of these bounds.

CHECK_DEADLOCK is off everywhere: a bounded system rests when its requests are
used up, and the program itself may wait for ever after a signal. Symmetry is used
in `accounts`, `rows`, `gateway` and `admin_pages`, which check invariants and
action properties that treat the permuted values alike, and in no run with
liveness.

### Fairness

Goroutines and database statements that are enabled are eventually run: weak
fairness of `Step(r)`, of `Publish(p)` and `Serve(s)`, of main, the initialisers,
the API server and its watcher (LoadConfig is part of `InitDB`, RunAPI and Fatal of
`Main`). Requests, signals, faults and crashes are never
forced. `FairSpec` of TaskSubscription assumes nothing of a worker: `Send` and
`Receive` may never happen, because `stream.Send` may block on flow control.
PendingDelivered assumes, of the one stream it is about, that they do (`Works`).
Weak fairness suffices for the lock because
`sync.RWMutex` keeps new readers out while a writer waits, which the model has
as a guard, not as fairness.

## 4. The proofs

Every invariant and action property that a passing run checks is also a theorem.
The theorems hold for every value of the constants (any number of tasks,
clients, requests, streams, browsers or programs, any capacity, lifetime or
bound) that satisfies the named assumption of the module. The assumptions say
that bounds are naturals, that lifetimes, ids and file counts are positive, that
`Owner` gives every task a client, that what callers send is a message, and in
AdminPages that there are finitely many browsers. Nothing else is assumed.

A property is seldom inductive: it speaks of tables, and what the next statement
writes was computed earlier, from what the request read. Each `...Proofs` module
therefore strengthens it with what the requests in progress hold (`IInv`, or the
name below), proves `Init => IInv` and `IInv /\ [Next]_vars => IInv'` with a lemma per
action or group of actions, and reads the properties off.

| Module | Assumption | Inductive invariant | Theorems |
| --- | --- | --- | --- |
| `TaskMachineProofs` | `ConstantsAssumption` | TypeOK; `Ledger`; `Heralded`; `Alone` and `Billing` | TypeCorrect, QuotaFloorHolds, NeverOverchargedHolds, PaidBeforeRecognitionHolds, PendingIsAnnounced; QuotaIsAccounted, ChargedOnce, EndedStays, LedgerImplemented |
| `TaskSubscriptionProofs` | `SubscriptionAssumption` | TypeOK, `Locking`, `ListenersDone`, NoneMissed | TypeCorrect, NeverSendsOnClosed, MapServed, NoTaskMissed |
| `SeedProofs` | `SeedAssumption` | TypeOK, `OneSeeder`, SeededOnce, `Progress`, `Uploaded`, `AdminAfterInit`, ListedStored | TypeSafety, NoSecondSeed, AdminIsThere, ImagesAreThere |
| `LifecycleProofs` | none | TypeOK, `Counters`, `OpenedBefore`, `MainFirst`, `Registering` | TypeSafety, SettledHandleHasHooks |
| `AccountsProofs` | `AccountsAssumption` | TypeOK, ReferencesHold, `Numbered`, `Remembered`, `Holding` | TablesAreConsistent, TokensDoLapse, OneCollision, CopiesOnlyReturn, PanicsAreMoves, LoginIsKept |
| `GatewayProofs` | `GatewayAssumption` | TypeOK, `Stored`, `Holding`, `Given`, `Explained`, UnaryCallsHaveClaims | UploadsAreKept, ImagesAreOwn, CachesAreRecent, TokensAreRequired, UploadsAreFound |
| `AdminPagesProofs` | `AdminPagesAssumption` | TypeOK, `SaltsCounted`, `Pages` | PagesDoWork, MismatchesAreExplained, ClientsStay |
| `TaskQueriesProofs` | `RowStoreAssumption`, `TaskQueriesAssumption` | OutcomesTell, `Operations`, `Unwritten`, `Asked`, PageAgreesWithTotal | OutcomesDoTell, PagesAddUp, PatchesKeep |

Why the strengthenings are needed:

**TaskMachine, whatever overlaps.** A request holds copies of what was true
before. `Ledger` says what the copies still satisfy: the quota in a copy that is
about to be written is at least the floor and, while no quota is typed, at least
granted minus spent even after others deducted; a copy in recognition belongs to a task
that is paid or forced. `Heralded` adds to PendingAnnounced that nothing has failed
for the requests in progress: a statement that fails may make `Process` panic in a gRPC
goroutine, which ends the program and with it the goroutines about to publish.

**TaskMachine, one request at a time.** QuotaAccounting, SingleCharge,
TerminalStays and ImplementsLedger are false when requests overlap (run
`quota_lost_update`, and "Met while modelling"). Their theorems have the hypothesis
`Serial == \A r, s \in Requests : r = s`, and no other: tasks, clients, images,
quotas, operations, failed statements and crashes are as many as one likes.
`Alone` says that the client a request holds has the quota of its row, or of its row less the
deduction it is about to write (`Reads`), and that a worker's copy is at most one step
ahead of the row, in the direction the machine goes (`Works`, `Leads`). `Billing`
adds that a copy which may be charged for recognition has a completion that was not
charged yet. What the
actions have in common is said once: `StepKinds` shows that every step makes
its request arrive, end, call `Process` again, choose a status, deduct, pay, write, miss its
write, remove or grant, and each theorem is then proved for these kinds.
For LedgerImplemented, `OneMaps` and `StageMoves` compute the refinement mapping
of the single request, and a lemma for each kind finds the ledger's step: a payment is
`PayImages` or `PayRecognition`, a write after a payment `Enter`, a failed write
or an end `Release`, and deductions and choices are stutters.

**TaskSubscription.** `Locking` says that a stream is in the map exactly between its
Subscribe and its Unsubscribe, that its channel is open exactly as long, and that a
publisher in the range loop holds the read lock and visits only entries that are
still there. `Unsubscribe` preserves it because it runs with no readers. NoneMissed
is kept by `RLock` because a stream that serves is in the map the publisher ranges
over, and by `QueryExisting` because the query comes after the registration.

**Seed.** The insertion of client 1 is the lock: `OneSeeder` says that one
program at most is past it, `Progress` what that program has created at each statement,
and `Uploaded` that the images in its memory have been stored. Restarts start over
and meet the client.

**Lifecycle.** `Registering` says that as long as nothing fails, a handle without
hooks is one whose opener is still about to register them, although openers overwrite
each other's handle; `MainFirst` that main's own initialisation comes before the others.

**Accounts.** `Numbered` keeps the sequences ahead of the tables (with the seeded client
as the exception that CollidesOnce is about), `Remembered` bounds each token by when
its user last belonged to the client, and `Holding` says that what goroutines hold was
inserted once and, at login, belonged to that client in the current tick.
LoginIsKept is about the least id of an address; `LeastOfNats` takes the
existence of a least number from well-foundedness.

**Gateway.** `Stored` relates the store to the history of puts, `Holding` says that a
request knows its key and that a version on its way was current in this tick,
`Given` the same of URLs and of both kinds of caches. TokensAreRequired also rests on lemmas about the
tables: a request that some route serves is documented with a token exactly when the
route asks for one (`SecuredAsRouted`).

**AdminPages.** `Pages` says what each browser may show, in terms of the clients
there are now, while a page offers those of its rendering. The two agree
because no request of the admin server creates or deletes a client, which is the theorem
ClientsStay (a row may be edited, and its quota charged). `SaltsCounted` bounds the salts by sessions that were given one.

**TaskQueries.** `Operations` says, of each update in progress, that it has written only
what its kind may have written so far, and that a patch which has read its row still has the
row's columns unless the row's version moved. `Asked` says that the count of the
list is right until a table changes. Attempting the proof showed a gap: PageAgreesWithTotal
excused an answer by a flag of the request in progress, which need not be the one that
was answered. `ListFind` now records with the answer whether its tables had changed.

Only model-checked:

- liveness: RequestsEnd, NobodyWaits, PendingDelivered, StopsListening and AllServe need
  fairness and ENABLED, which are out of the prover's reach;
- the three runs that expect a violation, which are counterexamples.

## 5. Not modelled

- What nodeFlatten computes (`state_machine.go:257-286`): the flattened nodes
  decide nothing that the modules follow; TaskMachine has its panic.
- Requests of a user for another client's task, which are refused before any
  write (Gateway has the client of the token in the key of an image).
- The worker id and the results that a REST body may carry; results are present
  or absent.
- A failure of the INSERT that follows an UPDATE without rows; a commit whose
  acknowledgement is lost.
- A notifying goroutine that fails between its save and its notification, in
  TaskSubscription (TaskMachine has the crash).
- The wording of `Error`, and timestamps: a timeout is a choice (`Stalls`), since
  `UpdatedAt` was set by the save whose hook looks at it.
- `AuthMiddleware` of `pkg/api/middleware/auth.go`, and `GetImage`,
  `GetObjectMetadata` and `UploadImageWithMetadata` of `S3Client`: nothing calls them.
- Hooks of the generated persistence other than `AfterToPB`: no type has them.
- Generated messages and descriptors, layout of pages, test utilities: no state.

## 6. Plan

1. What remains of TerminalStays and SingleCharge when requests overlap: a task
   that leaves its end goes to the status of some stale copy, and charges exceed
   completions by at most the requests that held the same completed copy.
2. What the ledger promises by itself, from TaskLedger alone.
3. `TaskMachine` with a clock: whether a task whose worker died ever times out.
4. `NodeFlatten` against a reference definition over bounded trees.
5. A composition of TaskMachine's hook with TaskSubscription's registry.
