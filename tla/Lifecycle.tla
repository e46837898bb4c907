----------------------------- MODULE Lifecycle -----------------------------
(***************************************************************************)
(* The life of the program cmd/main.go builds: main opens the database,    *)
(* starts the API, gRPC and admin servers and waits for a signal. The      *)
(* other two servers open the database again, and every InitDB assigns the *)
(* globals db.DB and db.StateMachine that the handlers read. The programs  *)
(* of cmd/api, cmd/grpc and cmd/admin run one server each.                 *)
(*                                                                         *)
(* One action is one access to those globals, or one step of the database, *)
(* of a server or of the wait group.                                       *)
(***************************************************************************)
EXTENDS Integers

CONSTANTS
  MaxRequests,  \* bound: requests the API server accepts
  MaxFaults     \* bound: failures of the database and of listeners

ASSUME LifecycleAssumption == MaxRequests \in Nat /\ MaxFaults \in Nat

Initialisers == { "main", "grpc", "admin" }
Servers == { "api", "grpc", "admin" }
Goroutines == Initialisers \cup Servers \cup { "watch" }
Programs == { "all" } \cup Servers

\* What may be wrong with the environment: a variable that is required is not
\* set, the port of the database, the API or gRPC is no number, that of the
\* admin server is none, Sentry has no DSN outside the environment "dev", or one
\* that it refuses.
Defects == { "unset", "port", "adminPort", "sentry", "dsn" }

VARIABLES
  program,    \* the program that runs
  env,        \* what is wrong with its environment
  debug,      \* DEBUG is set
  pc,         \* where each goroutine is
  db,         \* who opened db.DB
  session,    \* who opened the handle that each makes a session of, in debug mode
  broken,     \* those whose gorm.Open failed
  hooks,      \* whose state machine the hooks of each handle run
  machine,    \* who made db.StateMachine
  signalled,  \* a signal waits in sigChan
  cancelled,  \* ctx is done
  inflight,   \* API requests in progress
  served,     \* API requests accepted so far
  faults,     \* failures so far
  unhandled   \* history: a task was saved through a handle without hooks

globals == <<db, session, broken, hooks, machine>>
requests == <<inflight, served, unhandled>>
setup == <<program, env, debug>>
vars == <<setup, pc, globals, signalled, cancelled, requests, faults>>

At(g, l) == pc[g] = l
Move(g, l) == pc' = [pc EXCEPT ![g] = l]

Running == ~ At("main", "exited")

\* The process ends, and every goroutine and request with it.
Exit ==
  /\ pc' = [g \in Goroutines |-> "exited"]
  /\ inflight' = 0
  /\ UNCHANGED <<served, unhandled>>

-----------------------------------------------------------------------------
(* InitDB, as main, RunGRPCServer and RunAdminServer call it *)

\* What LoadConfig refuses: it does not look at the admin port.
validate == env \subseteq { "adminPort", "dsn" }

\* Only cmd/main.go reports to Sentry.
SentryInit(g) == g = "main" /\ program = "all" => "dsn" \notin env

\* A program that is refused exits, as one does whose sentry.Init fails.
LoadConfig(g) ==
  /\ At(g, "config")
  /\ \/ validate /\ SentryInit(g) /\ Move(g, "open") /\ UNCHANGED requests
     \/ ~ (validate /\ SentryInit(g)) /\ Exit
  /\ UNCHANGED <<setup, globals, signalled, cancelled, faults>>

InitStages == { "config", "open", "extension", "session", "migrate", "machine", "publish" }

\* What each of them goes on to.
After == [ main |-> "start", grpc |-> "listen", admin |-> "seed" ]

\* Mutant: DB, err := shadows the global.
OpenDBShadowed(g) ==
  /\ At(g, "open")
  /\ Move(g, "extension")
  /\ UNCHANGED <<setup, globals, signalled, cancelled, requests, faults>>

\* The assignment of DB comes before the check of the error.
OpenDB(g) ==
  /\ At(g, "open")
  /\ db' = g
  /\ Move(g, "extension")
  /\ UNCHANGED <<setup, session, broken, hooks, machine, signalled, cancelled, requests, faults>>

\* After the extension, DB.Debug() reads the handle of whoever assigned it last.
CreateExtension(g) ==
  /\ At(g, "extension")
  /\ \/ debug /\ session' = [session EXCEPT ![g] = db] /\ Move(g, "session")
     \/ ~ debug /\ UNCHANGED session /\ Move(g, "migrate")
  /\ UNCHANGED <<setup, db, broken, hooks, machine, signalled, cancelled, requests, faults>>

\* DB is assigned a session, which has the callbacks of the handle it is one of.
Debug(g) ==
  /\ At(g, "session")
  /\ db' = session[g]
  /\ Move(g, "migrate")
  /\ UNCHANGED <<setup, session, broken, hooks, machine, signalled, cancelled, requests, faults>>

MigrateDB(g) ==
  /\ At(g, "migrate")
  /\ Move(g, "machine")
  /\ UNCHANGED <<setup, globals, signalled, cancelled, requests, faults>>

\* Mutant: a state machine that exists already is kept.
NewStateMachineOnce(g) ==
  /\ At(g, "machine")
  /\ hooks' = IF machine = "none" THEN [hooks EXCEPT ![db] = g] ELSE hooks
  /\ Move(g, "publish")
  /\ UNCHANGED <<setup, db, session, broken, machine, signalled, cancelled, requests, faults>>

\* NewStateMachine(DB) registers its hooks with the handle DB holds by now;
\* of two hooks of the same name gorm runs the one registered last.
NewStateMachine(g) ==
  /\ At(g, "machine")
  /\ hooks' = [hooks EXCEPT ![db] = g]
  /\ Move(g, "publish")
  /\ UNCHANGED <<setup, db, session, broken, machine, signalled, cancelled, requests, faults>>

PublishMachine(g) ==
  /\ At(g, "publish")
  /\ machine' = g
  /\ Move(g, After[g])
  /\ UNCHANGED <<setup, db, session, broken, hooks, signalled, cancelled, requests, faults>>

\* InitDB returns an error: main exits, the other two servers only end.
InitDBFails(g) ==
  /\ faults < MaxFaults
  /\ faults' = faults + 1
  /\ \/ /\ At(g, "open")
        /\ db' = g
        /\ broken' = broken \cup {g}
     \/ /\ pc[g] \in { "extension", "migrate" }
        /\ UNCHANGED <<db, broken>>
  /\ \/ g = "main" /\ Exit
     \/ g # "main" /\ Move(g, "ended") /\ UNCHANGED requests
  /\ UNCHANGED <<setup, session, hooks, machine, signalled, cancelled>>

-----------------------------------------------------------------------------
(* main *)

\* Mutant: the admin server starts when RunGRPCServer returns.
StartServersInTurn ==
  /\ At("main", "start")
  /\ program = "all"
  /\ pc' = [pc EXCEPT !["main"] = "notify", !["api"] = "setup", !["grpc"] = "config"]
  /\ UNCHANGED <<setup, globals, signalled, cancelled, requests, faults>>

StartServers ==
  /\ At("main", "start")
  /\ program = "all"
  /\ pc' = [pc EXCEPT !["main"] = "notify", !["api"] = "setup",
                      !["grpc"] = "config", !["admin"] = "config"]
  /\ UNCHANGED <<setup, globals, signalled, cancelled, requests, faults>>

\* cmd/api serves in main's goroutine.
RunAPI ==
  /\ At("main", "start")
  /\ program = "api"
  /\ pc' = [pc EXCEPT !["main"] = "run", !["api"] = "listen"]
  /\ UNCHANGED <<setup, globals, signalled, cancelled, requests, faults>>

\* log.Fatalf: the only server of a program has returned an error.
Fatal ==
  /\ At("main", "run")
  /\ At(program, "ended")
  /\ Exit
  /\ UNCHANGED <<setup, globals, signalled, cancelled, faults>>

SignalNotify ==
  /\ At("main", "notify")
  /\ Move("main", "wait")
  /\ UNCHANGED <<setup, globals, signalled, cancelled, requests, faults>>

\* SIGINT or SIGTERM; before signal.Notify it ends the program, and once main
\* has received one the next are left in the channel.
Signal ==
  /\ Running
  /\ ~ signalled
  /\ signalled' = TRUE
  /\ \/ At("main", "wait") /\ UNCHANGED <<pc, requests>>
     \/ ~ At("main", "wait") /\ Exit
  /\ UNCHANGED <<setup, globals, cancelled, faults>>

\* Mutant: main waits for the servers before it cancels the context.
CancelOnceEnded ==
  /\ At("main", "wait")
  /\ signalled
  /\ \A g \in Servers : At(g, "ended")
  /\ cancelled' = TRUE
  /\ Move("main", "join")
  /\ UNCHANGED <<setup, globals, signalled, requests, faults>>

Cancel ==
  /\ At("main", "wait")
  /\ signalled
  /\ cancelled' = TRUE
  /\ Move("main", "join")
  /\ UNCHANGED <<setup, globals, signalled, requests, faults>>

\* wg.Wait returns and main with it.
Join ==
  /\ At("main", "join")
  /\ \A g \in Servers : At(g, "ended")
  /\ Exit
  /\ UNCHANGED <<setup, globals, signalled, cancelled, faults>>

-----------------------------------------------------------------------------
(* The API server and its watcher *)

APISetup ==
  /\ At("api", "setup")
  /\ pc' = [pc EXCEPT !["api"] = "listen", !["watch"] = "waiting"]
  /\ UNCHANGED <<setup, globals, signalled, cancelled, requests, faults>>

\* ListenAndServe returns ErrServerClosed as soon as Shutdown has been called,
\* before or after it began to listen.
ShutdownCalled == pc["watch"] \in { "draining", "drained", "gaveUp" }

APIListen ==
  /\ At("api", "listen")
  /\ Move("api", IF ShutdownCalled THEN "ended" ELSE "serving")
  /\ UNCHANGED <<setup, globals, signalled, cancelled, requests, faults>>

APIEnds ==
  /\ At("api", "serving")
  /\ ShutdownCalled
  /\ Move("api", "ended")
  /\ UNCHANGED <<setup, globals, signalled, cancelled, requests, faults>>

AcceptRequest ==
  /\ At("api", "serving")
  /\ ~ ShutdownCalled
  /\ served < MaxRequests
  /\ served' = served + 1
  /\ inflight' = inflight + 1
  /\ UNCHANGED <<setup, pc, globals, signalled, cancelled, faults, unhandled>>

\* The handler saves a task with db.DB; a broken handle fails the request.
HandleRequest ==
  /\ inflight > 0
  /\ inflight' = inflight - 1
  /\ unhandled' = (unhandled \/ (hooks[db] = "none" /\ db \notin broken))
  /\ UNCHANGED <<setup, pc, globals, signalled, cancelled, served, faults>>

CallShutdown ==
  /\ At("watch", "waiting")
  /\ cancelled
  /\ Move("watch", "draining")
  /\ UNCHANGED <<setup, globals, signalled, cancelled, requests, faults>>

\* Shutdown returns with no request left, or after five seconds.
ShutdownReturns ==
  /\ At("watch", "draining")
  /\ Move("watch", IF inflight = 0 THEN "drained" ELSE "gaveUp")
  /\ UNCHANGED <<setup, globals, signalled, cancelled, requests, faults>>

-----------------------------------------------------------------------------
(* The gRPC and admin servers *)

\* seed succeeds, RunAdminServer goes on to listen.
Seeded ==
  /\ At("admin", "seed")
  /\ Move("admin", "listen")
  /\ UNCHANGED <<setup, globals, signalled, cancelled, requests, faults>>

\* grpcServer.Serve and r.Run do not return: nothing tells them to. A port that
\* is no number cannot be listened on.
Listen(g) ==
  /\ g \in { "grpc", "admin" }
  /\ At(g, "listen")
  /\ Move(g, IF g = "admin" /\ "adminPort" \in env THEN "ended" ELSE "serving")
  /\ UNCHANGED <<setup, globals, signalled, cancelled, requests, faults>>

\* The listener or the seed fails; the error is logged.
ServerFails(g) ==
  /\ g \in Servers
  /\ pc[g] \in { "listen", "seed" }
  /\ faults < MaxFaults
  /\ faults' = faults + 1
  /\ Move(g, "ended")
  /\ UNCHANGED <<setup, globals, signalled, cancelled, requests>>

-----------------------------------------------------------------------------
Init ==
  /\ program \in Programs
  /\ env \in SUBSET Defects
  /\ debug \in BOOLEAN
  /\ pc = [ main |-> IF program \in { "all", "api" } THEN "config" ELSE "run",
            grpc |-> IF program = "grpc" THEN "config" ELSE "none",
            admin |-> IF program = "admin" THEN "config" ELSE "none",
            api |-> "none", watch |-> "none" ]
  /\ db = "none"
  /\ session = [ g \in Initialisers |-> "none" ]
  /\ broken = {}
  /\ hooks = [ h \in Initialisers \cup {"none"} |-> "none" ]
  /\ machine = "none"
  /\ signalled = FALSE
  /\ cancelled = FALSE
  /\ inflight = 0
  /\ served = 0
  /\ faults = 0
  /\ unhandled = FALSE

InitDB(g) ==
  \/ LoadConfig(g)
  \/ OpenDB(g)
  \/ CreateExtension(g)
  \/ Debug(g)
  \/ MigrateDB(g)
  \/ NewStateMachine(g)
  \/ PublishMachine(g)

Main == StartServers \/ RunAPI \/ Fatal \/ SignalNotify \/ Cancel \/ Join
API == APISetup \/ APIListen \/ APIEnds
Watch == CallShutdown \/ ShutdownReturns

Next ==
  \/ \E g \in Initialisers : InitDB(g) \/ InitDBFails(g)
  \/ Main
  \/ Signal
  \/ API
  \/ AcceptRequest
  \/ HandleRequest
  \/ Watch
  \/ Seeded
  \/ \E g \in Goroutines : Listen(g) \/ ServerFails(g)

Spec == Init /\ [][Next]_vars

\* Every goroutine runs on; requests, signals and failures are not forced.
FairSpec ==
  /\ Spec
  /\ \A g \in Initialisers : WF_vars(InitDB(g))
  /\ WF_vars(Main)
  /\ WF_vars(API)
  /\ WF_vars(HandleRequest)
  /\ WF_vars(Watch)
  /\ WF_vars(Seeded)
  /\ \A g \in { "grpc", "admin" } : WF_vars(Listen(g))

-----------------------------------------------------------------------------
(* Properties *)

\* Every goroutine is at a place of its code, and the globals hold handles and
\* state machines somebody made.
TypeOK ==
  /\ program \in Programs
  /\ env \subseteq Defects
  /\ debug \in BOOLEAN
  /\ pc \in [Goroutines -> InitStages \cup
                { "none", "config", "run", "start", "notify", "wait", "join", "setup", "seed", "listen",
                  "serving", "waiting", "draining", "drained", "gaveUp", "ended",
                  "exited" }]
  /\ db \in Initialisers \cup { "none" }
  /\ session \in [Initialisers -> Initialisers \cup { "none" }]
  /\ broken \subseteq Initialisers
  /\ hooks \in [Initialisers \cup {"none"} -> Initialisers \cup {"none"}]
  /\ hooks["none"] = "none"
  /\ machine \in Initialisers \cup { "none" }
  /\ inflight \in 0 .. served

\* Whoever assigns db.DB last and in whatever order the three calls of InitDB
\* interleave: once none of them is under way and none has failed, the handle
\* that requests use runs the hooks of a state machine.
HookedWhenSettled ==
  Running /\ faults = 0 /\ (\A g \in Initialisers : pc[g] \notin InitStages) =>
    hooks[db] # "none"

\* A signal ends the API server, whatever it is doing.
StopsListening ==
  (signalled /\ At("main", "wait")) ~> (At("api", "ended") \/ At("main", "exited"))

\* Each program serves what it is to serve: in a proper environment, with no
\* failure and no signal, all its servers come to listen, whatever the order in
\* which they open the database.
AllServe ==
  (env = {} /\ Running) ~>
    \/ \A g \in Servers : program \in { "all", g } => At(g, "serving")
    \/ faults > 0
    \/ signalled
    \/ ~ Running

\* What state_machine.go:35 says: the StateMachine handles the transitions of
\* tasks, those that are saved while another server opens the database included.
TasksHandled == ~ unhandled
=============================================================================
