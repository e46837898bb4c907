--------------------------- MODULE LifecycleProofs ---------------------------
(* Proofs about Lifecycle, for any number of requests and of failures.       *)
EXTENDS Lifecycle, TLAPS

\* The initialiser that opens the database before any other of its program.
First == [ all |-> "main", api |-> "main", grpc |-> "grpc", admin |-> "admin" ]

\* Counters that TypeOK says nothing of.
Counters == served \in Nat /\ faults \in Nat

\* The stages of InitDB between the opening and the hooks.
Unhooked == { "extension", "session", "migrate", "machine" }

\* Nobody comes there, or makes a session, before the database was opened.
OpenedBefore ==
  \A g \in Initialisers :
    /\ pc[g] \in Unhooked => db # "none"
    /\ pc[g] = "session" => session[g] # "none"

\* The servers of the program with all of them wait for main's InitDB.
MainFirst ==
  program = "all" /\ pc["main"] \in InitStages \cup {"start"} =>
    pc["grpc"] = "none" /\ pc["admin"] = "none"

\* As long as nothing fails: the database is open unless the first initialiser
\* is still about to open it, and while the handle has no hooks somebody is still
\* about to register them, its opener or another that assigned it in debug mode.
Registering ==
  Running /\ faults = 0 =>
    /\ db = "none" => pc[First[program]] \in { "config", "open" }
    /\ db # "none" /\ hooks[db] = "none" => \E g \in Initialisers : pc[g] \in Unhooked

\* The inductive invariant.
IInv == TypeOK /\ Counters /\ OpenedBefore /\ MainFirst /\ Registering

-----------------------------------------------------------------------------
(* The invariant is inductive *)

\* No database is open when a program starts.
LEMMA InitIInv == Init => IInv
  <1> SUFFICES ASSUME Init PROVE IInv
    OBVIOUS
  <1>1. TypeOK
    BY DEF Init, TypeOK, InitStages, Goroutines, Initialisers, Servers, Programs
  <1>2. Counters /\ OpenedBefore /\ MainFirst
    BY DEF Init, Counters, OpenedBefore, Unhooked, MainFirst, InitStages, Initialisers
  <1>3. Registering
    BY DEF Init, Registering, Unhooked, First, Programs, Servers
  <1> QED BY <1>1, <1>2, <1>3 DEF IInv

\* Once the process has ended nothing of the invariant is left but the types.
LEMMA ExitKeeps ==
  ASSUME IInv, Exit, UNCHANGED <<setup, globals>>, faults' \in Nat
  PROVE  IInv'
  <1> USE DEF IInv, Exit, setup, globals
  <1>1. \A g \in Goroutines : pc'[g] = "exited"
    OBVIOUS
  <1>2. TypeOK' /\ Counters'
    BY DEF TypeOK, Counters
  <1>3. OpenedBefore' /\ MainFirst' /\ Registering'
    BY <1>1 DEF OpenedBefore, Unhooked, MainFirst, Registering, Unhooked, Running, At, Goroutines, Initialisers,
                Servers, InitStages
  <1> QED BY <1>2, <1>3

\* The steps of InitDB that go on.
LEMMA InitDBKeeps ==
  ASSUME IInv, NEW g \in Initialisers, InitDB(g)
  PROVE  IInv'
  <1> USE DEF IInv, setup, globals, requests, At, Move
  <1>0. pc \in [Goroutines -> InitStages \cup
                { "none", "config", "run", "start", "notify", "wait", "join", "setup", "seed", "listen",
                  "serving", "waiting", "draining", "drained", "gaveUp", "ended",
                  "exited" }] /\ g \in Goroutines
    BY DEF TypeOK, Goroutines
  <1>1. CASE LoadConfig(g)
    <2>1. CASE Exit
      BY <1>1, <2>1, ExitKeeps DEF LoadConfig, Counters
    <2>2. CASE Move(g, "open") /\ UNCHANGED requests
      <3>1. \A h \in Goroutines : pc'[h] = IF h = g THEN "open" ELSE pc[h]
        BY <2>2, <1>0
      <3>2. TypeOK' /\ Counters'
        BY <1>1, <2>2 DEF LoadConfig, TypeOK, Counters, InitStages
      <3>3. OpenedBefore' /\ MainFirst'
        BY <1>1, <2>2, <3>1 DEF LoadConfig, OpenedBefore, Unhooked, MainFirst, InitStages, Goroutines,
           Initialisers, Servers
      <3>4. Registering'
        BY <1>1, <2>2, <3>1 DEF LoadConfig, Registering, Unhooked, Running, First, TypeOK, Programs,
           Goroutines, Initialisers, Servers
      <3> QED BY <3>2, <3>3, <3>4
    <2> QED BY <1>1, <2>1, <2>2 DEF LoadConfig
  <1>2. CASE OpenDB(g)
    <2>1. \A h \in Goroutines : pc'[h] = IF h = g THEN "extension" ELSE pc[h]
      BY <1>2, <1>0 DEF OpenDB
    <2>2. TypeOK' /\ Counters'
      BY <1>2 DEF OpenDB, TypeOK, Counters, InitStages
    <2>3. OpenedBefore' /\ MainFirst'
      BY <1>2, <2>1 DEF OpenDB, OpenedBefore, Unhooked, MainFirst, InitStages, Goroutines,
         Initialisers, Servers
    <2>4. Registering'
      BY <1>2, <2>1 DEF OpenDB, Registering, Unhooked, Goroutines, Initialisers
    <2> QED BY <2>2, <2>3, <2>4
  <1>3. CASE CreateExtension(g) \/ Debug(g) \/ MigrateDB(g)
    <2>1. PICK l \in {"session", "migrate", "machine"} :
            /\ pc' = [pc EXCEPT ![g] = l]
            /\ l = "session" => session'[g] = db
      BY <1>3 DEF CreateExtension, Debug, MigrateDB, TypeOK
    <2>2. \A h \in Goroutines : pc'[h] = IF h = g THEN l ELSE pc[h]
      BY <1>0, <2>1
    <2>3. pc[g] \in Unhooked /\ l \in Unhooked
      BY <1>3, <2>1 DEF CreateExtension, Debug, MigrateDB, Unhooked
    <2>4. /\ db' # "none" /\ db' \in Initialisers /\ db # "none"
          /\ \A h \in Initialisers : h # g => session'[h] = session[h]
          /\ UNCHANGED <<setup, broken, hooks, machine, signalled, cancelled, requests, faults>>
          /\ session' \in [Initialisers -> Initialisers \cup { "none" }]
      <3>1. CASE CreateExtension(g)
        BY <2>3, <3>1 DEF CreateExtension, OpenedBefore, TypeOK
      <3>2. CASE Debug(g)
        BY <2>3, <3>2 DEF Debug, OpenedBefore, TypeOK
      <3>3. CASE MigrateDB(g)
        BY <2>3, <3>3 DEF MigrateDB, OpenedBefore, TypeOK
      <3> QED BY <1>3, <3>1, <3>2, <3>3
    <2>5. TypeOK' /\ Counters'
      BY <2>1, <2>4 DEF TypeOK, Counters, InitStages
    <2>6. OpenedBefore'
      BY <2>1, <2>2, <2>4 DEF OpenedBefore, Goroutines
    <2>7. MainFirst'
      BY <2>2, <2>3, <2>4 DEF MainFirst, Unhooked, InitStages, Goroutines, Initialisers, Servers
    <2>8. Registering'
      BY <2>2, <2>3, <2>4 DEF Registering, Goroutines
    <2> QED BY <2>5, <2>6, <2>7, <2>8
  <1>4. CASE NewStateMachine(g)
    <2>1. \A h \in Goroutines : pc'[h] = IF h = g THEN "publish" ELSE pc[h]
      BY <1>4, <1>0 DEF NewStateMachine
    <2>2. db # "none" /\ db \in Initialisers
      BY <1>4 DEF NewStateMachine, OpenedBefore, Unhooked, TypeOK
    <2>3. hooks'[db] = g /\ g # "none"
      BY <1>4, <2>2 DEF NewStateMachine, TypeOK, Initialisers
    <2>4. TypeOK' /\ Counters'
      BY <1>4, <2>2 DEF NewStateMachine, TypeOK, Counters, InitStages, Initialisers
    <2>5. OpenedBefore' /\ MainFirst'
      BY <1>4, <2>1 DEF NewStateMachine, OpenedBefore, Unhooked, MainFirst, InitStages, Goroutines,
         Initialisers, Servers
    <2>6. Registering'
      BY <1>4, <2>2, <2>3 DEF NewStateMachine, Registering
    <2> QED BY <2>4, <2>5, <2>6
  <1>5. CASE PublishMachine(g)
    <2>1. After[g] \in {"start", "listen", "seed"} /\ (g = "main" \/ After[g] # "start")
      BY DEF After, Initialisers
    <2>2. \A h \in Goroutines : pc'[h] = IF h = g THEN After[g] ELSE pc[h]
      BY <1>5, <1>0 DEF PublishMachine
    <2>3. TypeOK' /\ Counters'
      BY <1>5, <2>1 DEF PublishMachine, TypeOK, Counters
    <2>4. OpenedBefore' /\ MainFirst'
      BY <1>5, <2>1, <2>2 DEF PublishMachine, OpenedBefore, Unhooked, MainFirst, InitStages, Goroutines,
         Initialisers, Servers
    <2>5. Registering'
      BY <1>5, <2>1, <2>2 DEF PublishMachine, Registering, Unhooked, Running, First, TypeOK, Programs,
         Goroutines, Initialisers, Servers
    <2> QED BY <2>3, <2>4, <2>5
  <1> QED BY <1>1, <1>2, <1>3, <1>4, <1>5 DEF InitDB

\* After a failure, whatever the handles hold, nothing more is promised.
LEMMA InitDBFailsKeeps ==
  ASSUME IInv, NEW g \in Initialisers, InitDBFails(g)
  PROVE  IInv'
  <1> USE DEF IInv, setup, globals, requests, At, Move, InitDBFails
  <1>1. faults' \in Nat /\ faults' # 0
    BY DEF Counters
  <1>2. TypeOK'
    BY DEF TypeOK, Exit, Goroutines, Counters
  <1>3. db' # "none" \/ (db' = db /\ pc[g] \in {"extension", "migrate"})
    BY DEF Initialisers
  <1>4. OpenedBefore'
    <2>1. \A h \in Goroutines : pc'[h] \in {"exited", "ended", pc[h]}
      BY DEF Exit, TypeOK
    <2>2. pc[g] \in Unhooked => db # "none"
      BY DEF OpenedBefore
    <2> QED BY <1>3, <2>1, <2>2 DEF OpenedBefore, Unhooked, Goroutines
  <1>5. MainFirst'
    <2>1. CASE g = "main" /\ Exit
      BY <2>1 DEF MainFirst, Exit, InitStages, Goroutines, Initialisers
    <2>2. CASE g # "main" /\ Move(g, "ended")
      <3>1. pc'["main"] = pc["main"]
        BY <2>2
      <3>2. pc[g] # "none" /\ g \in {"grpc", "admin"} /\ program' = program
        BY <2>2 DEF Initialisers
      <3>3. ~ (program = "all" /\ pc["main"] \in InitStages \cup {"start"})
        BY <3>2 DEF MainFirst
      <3> QED BY <3>1, <3>2, <3>3 DEF MainFirst
    <2> QED BY <2>1, <2>2
  <1>6. Counters'
    BY <1>1 DEF Counters, Exit
  <1> QED BY <1>1, <1>2, <1>4, <1>5, <1>6 DEF Registering

\* A step that leaves the globals alone, and takes nobody into InitDB or out of it.
LEMMA OthersKeep ==
  ASSUME IInv, UNCHANGED <<setup, globals>>, TypeOK', Counters', faults = 0 \/ faults' # 0,
         \A g \in Initialisers :
            \/ pc'[g] = pc[g]
            \/ /\ pc[g] \notin InitStages \cup {"none", "exited"}
               /\ pc'[g] \notin InitStages \cup {"start"}
  PROVE  IInv'
  <1> USE DEF IInv, setup, globals
  <1>1. OpenedBefore'
    BY DEF OpenedBefore, Unhooked, InitStages
  <1>2. MainFirst'
    BY DEF MainFirst, InitStages, Initialisers
  <1>3. Running' => Running
    BY DEF Running, At, Initialisers
  <1>4. First[program] \in Initialisers
    BY DEF First, TypeOK, Programs, Servers, Initialisers
  <1>5. Registering'
    BY <1>3, <1>4 DEF Registering, Unhooked, TypeOK, InitStages
  <1> QED BY <1>1, <1>2, <1>5

\* main starts the other servers once its own InitDB is done.
LEMMA StartServersKeeps ==
  ASSUME IInv, StartServers
  PROVE  IInv'
  <1> USE DEF IInv, setup, globals, requests, At, StartServers
  <1>1. TypeOK' /\ Counters'
    BY DEF TypeOK, Counters, InitStages
  <1>2. \A g \in Goroutines :
          pc'[g] = CASE g = "main" -> "notify" [] g = "api" -> "setup"
                     [] g \in {"grpc", "admin"} -> "config" [] OTHER -> pc[g]
    BY DEF TypeOK, Goroutines, Servers, Initialisers
  <1>3. OpenedBefore' /\ MainFirst'
    BY <1>2 DEF OpenedBefore, Unhooked, MainFirst, Goroutines, Servers, Initialisers, InitStages
  <1>4. pc["main"] = "start" /\ pc["grpc"] = "none" /\ pc["admin"] = "none"
    BY DEF MainFirst
  <1>5. ~ (db # "none" /\ hooks[db] = "none") \/ ~ Running \/ faults # 0
    BY <1>4 DEF Registering, Unhooked, TypeOK, Initialisers
  <1>6. db # "none" \/ ~ Running \/ faults # 0
    BY <1>4 DEF Registering, First
  <1>7. Registering'
    BY <1>4, <1>5, <1>6 DEF Registering, Unhooked, Running
  <1> QED BY <1>1, <1>3, <1>7

\* The other steps of main.
LEMMA MainKeeps ==
  ASSUME IInv, Main \/ Signal
  PROVE  IInv'
  <1> USE DEF setup, globals, requests, At, Move
  <1>1. CASE StartServers
    BY <1>1, StartServersKeeps
  <1>2. CASE RunAPI
    <2>1. TypeOK' /\ Counters'
      BY <1>2 DEF RunAPI, IInv, TypeOK, Counters
    <2>2. pc["main"] = "start" /\ pc'["main"] = "run"
      BY <1>2 DEF RunAPI, IInv, TypeOK, Goroutines, Initialisers
    <2>3. \A g \in Initialisers \ {"main"} : pc'[g] = pc[g]
      BY <1>2 DEF RunAPI, IInv, TypeOK, Goroutines, Initialisers
    <2> QED BY <1>2, <2>1, <2>2, <2>3, OthersKeep DEF RunAPI, InitStages
  <1>3. CASE Exit /\ UNCHANGED <<setup, globals, faults>>
    BY <1>3, ExitKeeps DEF IInv, Counters
  <1>4. CASE SignalNotify \/ Cancel
    <2>1. TypeOK' /\ Counters'
      BY <1>4 DEF SignalNotify, Cancel, IInv, TypeOK, Counters
    <2>2. pc["main"] \in {"notify", "wait"} /\ pc'["main"] \in {"wait", "join"}
      BY <1>4 DEF SignalNotify, Cancel, IInv, TypeOK, Goroutines, Initialisers
    <2>3. \A g \in Initialisers \ {"main"} : pc'[g] = pc[g]
      BY <1>4 DEF SignalNotify, Cancel, IInv, TypeOK, Goroutines, Initialisers
    <2> QED BY <1>4, <2>1, <2>2, <2>3, OthersKeep DEF SignalNotify, Cancel, InitStages
  <1>5. CASE Signal /\ UNCHANGED <<pc, requests>>
    <2>1. TypeOK' /\ Counters'
      BY <1>5 DEF Signal, IInv, TypeOK, Counters
    <2> QED BY <1>5, <2>1, OthersKeep DEF Signal
  <1> QED BY <1>1, <1>2, <1>3, <1>4, <1>5 DEF Main, Fatal, Join, Signal

\* The API server, its requests and its watcher.
LEMMA APIKeeps ==
  ASSUME IInv, API \/ AcceptRequest \/ HandleRequest \/ Watch
  PROVE  IInv'
  <1> USE DEF setup, globals, requests, At, Move
  <1>1. TypeOK' /\ Counters' /\ UNCHANGED <<setup, globals, faults>>
    <2>1. CASE API \/ Watch
      BY <2>1 DEF API, APISetup, APIListen, APIEnds, Watch, CallShutdown, ShutdownReturns, IInv,
         TypeOK, Counters
    <2>2. CASE AcceptRequest \/ HandleRequest
      BY <2>2 DEF AcceptRequest, HandleRequest, IInv, TypeOK, Counters
    <2> QED BY <2>1, <2>2
  <1>2. \A g \in Initialisers : pc'[g] = pc[g]
    <2>0. "api" \notin Initialisers /\ "watch" \notin Initialisers
      BY DEF Initialisers
    <2>1. CASE API
      BY <2>0, <2>1 DEF API, APISetup, APIListen, APIEnds, IInv, TypeOK, Goroutines
    <2>2. CASE Watch
      BY <2>0, <2>2 DEF Watch, CallShutdown, ShutdownReturns, IInv, TypeOK, Goroutines
    <2>3. CASE AcceptRequest \/ HandleRequest
      BY <2>3 DEF AcceptRequest, HandleRequest
    <2> QED BY <2>1, <2>2, <2>3
  <1> QED BY <1>1, <1>2, OthersKeep

\* The gRPC and admin servers, and servers that fail.
LEMMA ServersKeep ==
  ASSUME IInv, NEW g \in Goroutines, Seeded \/ Listen(g) \/ ServerFails(g)
  PROVE  IInv'
  <1> USE DEF setup, globals, requests, At, Move, Seeded, Listen, ServerFails
  <1>1. TypeOK' /\ Counters' /\ UNCHANGED <<setup, globals>> /\ (faults = 0 \/ faults' # 0)
    BY DEF IInv, TypeOK, Counters
  <1>2. PICK h \in Goroutines, l \in {"listen", "serving", "ended"} :
          pc[h] \in {"listen", "seed"} /\ pc' = [pc EXCEPT ![h] = l]
    BY DEF Goroutines, Servers
  <1>3. \A i \in Initialisers : pc'[i] = pc[i] \/ (i = h /\ pc'[i] = l)
    BY <1>2 DEF IInv, TypeOK, Goroutines
  <1> QED BY <1>1, <1>2, <1>3, OthersKeep DEF InitStages

\* Every step of every goroutine keeps the invariant.
LEMMA Inductive == IInv /\ [Next]_vars => IInv'
  <1> SUFFICES ASSUME IInv, [Next]_vars PROVE IInv'
    OBVIOUS
  <1>1. CASE UNCHANGED vars
    <2>1. TypeOK' /\ Counters'
      BY <1>1 DEF IInv, vars, setup, globals, requests, TypeOK, Counters
    <2> QED BY <1>1, <2>1, OthersKeep DEF vars
  <1>2. CASE Next
    BY <1>2, InitDBKeeps, InitDBFailsKeeps, MainKeeps, APIKeeps, ServersKeep
    DEF Next, Goroutines
  <1> QED BY <1>1, <1>2

-----------------------------------------------------------------------------
(* The theorems *)

\* Every state of the program satisfies the inductive invariant.
THEOREM Invariance == Spec => []IInv
  BY InitIInv, Inductive, PTL DEF Spec

\* The program stays within its types.
THEOREM TypeSafety == Spec => []TypeOK
  BY Invariance, PTL DEF IInv

\* In whatever order main and the servers open the database and publish their
\* state machines: once they are done and nothing failed, the handle that
\* requests use has the hooks.
THEOREM SettledHandleHasHooks == Spec => []HookedWhenSettled
  <1>1. IInv => HookedWhenSettled
    <2> SUFFICES ASSUME IInv, Running, faults = 0, \A g \in Initialisers : pc[g] \notin InitStages
                 PROVE  hooks[db] # "none"
      BY DEF HookedWhenSettled
    <2>1. First[program] \in Initialisers
      BY DEF IInv, TypeOK, First, Programs, Servers, Initialisers
    <2>2. db # "none" /\ db \in Initialisers
      BY <2>1 DEF IInv, TypeOK, Registering, InitStages
    <2> QED BY <2>2 DEF IInv, Registering, Unhooked, InitStages
  <1> QED BY <1>1, Invariance, PTL
=============================================================================
