---------------------------- MODULE TaskMachine ----------------------------
(***************************************************************************)
(* The task state machine (pkg/db_hooks), run by every request that saves  *)
(* a task: the TaskService of the workers, the REST handlers of the users  *)
(* and the admin forms.                                                    *)
(*                                                                         *)
(* A request is a goroutine. It reads a row into a private copy, changes   *)
(* the copy and saves ALL its columns; the save's after-commit hook runs   *)
(* Process on the same copy, which may save again. One action is at most   *)
(* one write to the database together with the reads that precede it and   *)
(* use nothing older, so requests interleave between their accesses as     *)
(* they do under the database's autocommitted statements. Every save of a  *)
(* handler is its last statement, so the recursion of saves and hooks is   *)
(* the loop save -> process -> save.                                       *)
(***************************************************************************)
EXTENDS Integers, TaskStatus

CONSTANTS
  Tasks,            \* ids a task may get, each used by one Create (UUIDs)
  Clients,          \* client ids
  Workers,          \* ids the recognition workers report
  NoWorker,         \* the empty worker id
  Requests,         \* goroutines that serve requests
  Owner,            \* the client of each task
  InitialQuota,     \* the quota of each client's row
  MaxImages,        \* bound: images of one task
  MaxQuota,         \* bound: quota an administrator types
  Settable,         \* statuses that users and administrators write
  Operations,       \* the operations offered
  MaxRequests,      \* bound: requests served
  MaxFaults,        \* bound: crashes and failed statements
  Stalls            \* whether a save may outlast the processing timeouts

OperationNames ==
  { "create", "update", "delete", "reserve", "report", "finish", "fail",
    "setStatus", "setQuota" }

\* TaskService: its panics are not recovered and end the program; gin
\* recovers the panics of the others.
Grpc == { "reserve", "report", "finish", "fail" }

\* Those that call Process themselves after their save.
Reporting == { "report", "finish", "fail" }

ASSUME ConstantsAssumption ==
  /\ NoWorker \notin Workers
  /\ Owner \in [Tasks -> Clients]
  /\ MaxImages \in Nat \ {0}
  /\ InitialQuota \in [Clients -> Nat]
  /\ MaxQuota \in Nat \ {0}
  /\ Settable \subseteq Status
  /\ Operations \subseteq OperationNames
  /\ MaxRequests \in Nat
  /\ MaxFaults \in Nat
  /\ Stalls \in BOOLEAN

VARIABLES
  row,        \* table data_recognition_tasks
  quota,      \* column quota of table clients
  req,        \* what each goroutine is doing
  started,    \* requests served
  faults,     \* crashes, panics and failed statements so far
  granted,    \* history: quota given to each client
  spent,      \* history: quota deducted from each client
  completed,  \* history: how often a task became IMAGES_COMPLETED
  paid,       \* history: how often a task was charged for recognition
  forced,     \* history: tasks put into recognition by a user or administrator
  announced   \* history: tasks published since their status last changed

history == <<granted, spent, completed, paid, forced, announced>>
vars == <<row, quota, req, started, faults, history>>

-----------------------------------------------------------------------------
(* Rows and requests *)

\* The columns that decide anything: the lengths of source_images and
\* processed_images, and whether recognition_result is set.
Row == [ status : Status, worker : Workers \cup {NoWorker},
         images : 0 .. MaxImages, processed : 0 .. MaxImages, result : BOOLEAN ]

Blank == [ status |-> "ABSENT", worker |-> NoWorker,
           images |-> 0, processed |-> 0, result |-> FALSE ]
Deleted == [ Blank EXCEPT !.status = "DELETED" ]

Stored(t) == row[t].status \in Status

\* What a goroutine that works on a task holds: `copy' is the task in memory,
\* `client' the quota of task.Client if `loaded', `inserts' the saves whose
\* UPDATE met no row and that still have to insert it, `nested' whether
\* Process runs inside a hook, `again' whether the service has called Process
\* itself after its save, `failed' how a failed save ends once its hook is done.
TaskRequest ==
  [ pc : { "insert", "save", "reinsert", "process", "charge", "delete" },
    op : OperationNames, id : Tasks, copy : Row,
    client : Int, loaded : BOOLEAN, inserts : Nat,
    nested : BOOLEAN, again : BOOLEAN, failed : { "no", "reply", "panic" } ]

QuotaEdit == [ pc : {"edit"}, who : Clients, seen : Int, quota : 1 .. MaxQuota ]

Idle == [ pc |-> "idle" ]

At(r, pc) == req[r].pc = pc

Begin(r, op, t, pc, copy) ==
  [ pc |-> pc, op |-> op, id |-> t, copy |-> copy, client |-> 0, loaded |-> FALSE,
    inserts |-> 0, nested |-> FALSE, again |-> FALSE,
    failed |-> "no" ]

\* A request arrives: its goroutine starts with the first read done.
Accept(r, op, request) ==
  /\ op \in Operations
  /\ At(r, "idle")
  /\ started < MaxRequests
  /\ started' = started + 1
  /\ req' = [req EXCEPT ![r] = request]
  /\ UNCHANGED <<row, quota, faults>>

-----------------------------------------------------------------------------
(* Requests of the users (REST) *)

CreateTask(r, t, n) ==
  /\ row[t] = Blank
  /\ \A s \in Requests : At(s, "insert") => req[s].id # t
  /\ LET copy == [ status |-> "IMAGES_PENDING", worker |-> NoWorker,
                   images |-> n, processed |-> 0, result |-> FALSE ]
     IN Accept(r, "create",
               [ Begin(r, "create", t, "insert", copy) EXCEPT
                   !.client = quota[Owner[t]], !.loaded = TRUE ])
  /\ UNCHANGED history

\* The body replaces every column, and ToORM leaves recognition_result unset.
UpdateTask(r, t, s, n, m) ==
  /\ Stored(t)
  /\ LET copy == [ status |-> s, worker |-> NoWorker, images |-> n,
                   processed |-> m, result |-> FALSE ]
     IN Accept(r, "update",
               [ Begin(r, "update", t, "save", copy) EXCEPT
                   !.client = quota[Owner[t]], !.loaded = TRUE ])
  /\ forced' = IF s \in Recognised THEN forced \cup {t} ELSE forced
  /\ UNCHANGED <<granted, spent, completed, paid, announced>>

DeleteTask(r, t) ==
  /\ Stored(t)
  /\ Accept(r, "delete", Begin(r, "delete", t, "delete", row[t]))
  /\ UNCHANGED history

-----------------------------------------------------------------------------
(* Requests of the workers (TaskService) *)

ReserveTask(r, t, w) ==
  /\ Stored(t)
  /\ row[t].status \notin Terminal
  /\ Accept(r, "reserve",
            Begin(r, "reserve", t, "save", [row[t] EXCEPT !.worker = w]))
  /\ UNCHANGED history

ReportTaskStatus(r, t) ==
  /\ Stored(t)
  /\ Accept(r, "report", Begin(r, "report", t, "save", row[t]))
  /\ UNCHANGED history

\* Mutant: the placeholder of an unfinished image is counted as well.
FinishedCountsOneMore(task, n) ==
  IF task.status = "IMAGES_PROCESSING"
  THEN [task EXCEPT !.status = "IMAGES_COMPLETED", !.processed = n + 1]
  ELSE task

\* Mutant: FinishTask skips the status that charges for recognition.
FinishedSkipsCompleted(task, n) ==
  IF task.status = "IMAGES_PROCESSING"
  THEN [task EXCEPT !.status = "RECOGNITION_PENDING", !.processed = n]
  ELSE task

Finished(task, n) ==
  CASE task.status = "IMAGES_PROCESSING" ->
         [task EXCEPT !.status = "IMAGES_COMPLETED", !.processed = n]
    [] task.status = "RECOGNITION_PROCESSING" ->
         [task EXCEPT !.status = "RECOGNITION_COMPLETED", !.result = TRUE]
    [] OTHER -> task

\* n is the number of processed images sent; a request that ends a
\* recognition must carry a result.
FinishTask(r, t, n) ==
  /\ Stored(t)
  /\ Accept(r, "finish", Begin(r, "finish", t, "save", Finished(row[t], n)))
  /\ UNCHANGED history

\* Mutant: FailTask does not look at the status it overwrites.
FailedAnyStatus(task) == [task EXCEPT !.status = "IMAGES_FAILED_PROCESSING"]

Failed(task) ==
  CASE task.status = "IMAGES_PROCESSING" ->
         [task EXCEPT !.status = "IMAGES_FAILED_PROCESSING"]
    [] task.status = "RECOGNITION_PROCESSING" ->
         [task EXCEPT !.status = "RECOGNITION_FAILED_PROCESSING"]
    [] OTHER -> task

FailTask(r, t) ==
  /\ Stored(t)
  /\ Accept(r, "fail", Begin(r, "fail", t, "save", Failed(row[t])))
  /\ UNCHANGED history

-----------------------------------------------------------------------------
(* Requests of the administrators *)

UpdateRecognitionTask(r, t, s) ==
  /\ Stored(t)
  /\ Accept(r, "setStatus",
            Begin(r, "setStatus", t, "save", [row[t] EXCEPT !.status = s]))
  /\ forced' = IF s \in Recognised THEN forced \cup {t} ELSE forced
  /\ UNCHANGED <<granted, spent, completed, paid, announced>>

UpdateClient(r, c, q) ==
  /\ Accept(r, "setQuota",
            [pc |-> "edit", who |-> c, seen |-> quota[c], quota |-> q])
  /\ UNCHANGED history

-----------------------------------------------------------------------------
(* How Save and Process end *)

AllIdle == [s \in Requests |-> Idle]

\* task.Client.Quota: read now unless the request loaded the client before.
ClientQuota(r) == IF req[r].loaded THEN req[r].client ELSE quota[Owner[req[r].id]]

\* Process loads the client of a task that is not in a terminal status.
Loaded(r) ==
  IF req[r].copy.status \in Terminal THEN req[r]
  ELSE [req[r] EXCEPT !.client = ClientQuota(r), !.loaded = TRUE]

\* The goroutine panics.
Panic(r) == IF req[r].op \in Grpc THEN AllIdle ELSE [req EXCEPT ![r] = Idle]

\* Process returns an error: the hook that called it panics, the service that
\* called it replies with the error.
Abort(r) == IF req[r].nested THEN Panic(r) ELSE [req EXCEPT ![r] = Idle]

\* Process returns nil: the saves on the stack end, innermost first. One that
\* updated no row inserts it, a failed one gives its error to its caller.
Return(r) ==
  LET q == Loaded(r) IN
  CASE q.inserts > 0 ->
         [req EXCEPT ![r] = [q EXCEPT !.pc = "reinsert", !.inserts = q.inserts - 1]]
    [] q.inserts = 0 /\ q.failed = "panic" -> Panic(r)
    [] q.inserts = 0 /\ q.failed = "no" /\ q.op \in Reporting /\ ~ q.again ->
         [req EXCEPT ![r] = [q EXCEPT !.pc = "process", !.again = TRUE,
                                      !.nested = FALSE]]
    [] OTHER -> [req EXCEPT ![r] = Idle]

\* The goroutine goes on at pc with this copy of the task.
Goto(r, pc, copy) == [req EXCEPT ![r] = [Loaded(r) EXCEPT !.pc = pc, !.copy = copy]]

-----------------------------------------------------------------------------
(* The statements that write a task *)

\* The copy's columns become the row's.
Write(r) ==
  LET t == req[r].id
      new == req[r].copy IN
  /\ row' = [row EXCEPT ![t] = new]
  /\ announced' = IF row[t].status = new.status THEN announced ELSE announced \ {t}
  /\ completed' =
       IF new.status = "IMAGES_COMPLETED" /\ row[t].status # "IMAGES_COMPLETED"
       THEN [completed EXCEPT ![t] = @ + 1] ELSE completed
  /\ UNCHANGED <<quota, started, faults, granted, spent, paid, forced>>

\* db.Create, then its hook.
InsertTask(r) ==
  /\ At(r, "insert")
  /\ Write(r)
  /\ req' = [req EXCEPT ![r] = [@ EXCEPT !.pc = "process", !.nested = TRUE]]

\* db.Save: UPDATE of every column, then its hook.
SaveTask(r) ==
  /\ At(r, "save")
  /\ Stored(req[r].id)
  /\ Write(r)
  /\ req' = [req EXCEPT ![r] = [@ EXCEPT !.pc = "process", !.nested = TRUE]]

\* The row is gone: the UPDATE meets no row, its hook runs all the same, and
\* Save inserts the copy afterwards.
SaveMissesRow(r) ==
  /\ At(r, "save")
  /\ ~ Stored(req[r].id)
  /\ req' = [req EXCEPT ![r] =
               [@ EXCEPT !.pc = "process", !.nested = TRUE,
                         !.inserts = req[r].inserts + 1]]
  /\ UNCHANGED <<row, quota, started, faults, history>>

\* INSERT ... ON CONFLICT DO UPDATE of every column, then its hook.
ReinsertTask(r) ==
  /\ At(r, "reinsert")
  /\ Write(r)
  /\ req' = [req EXCEPT ![r] = [@ EXCEPT !.pc = "process", !.nested = TRUE]]

\* A failed statement is rolled back, and the hook runs as after a commit. The
\* saves that wait below it never get to insert.
SaveFails(r) ==
  /\ req[r].pc \in {"insert", "save"}
  /\ faults < MaxFaults
  /\ faults' = faults + 1
  /\ req' = [req EXCEPT ![r] =
               [@ EXCEPT !.pc = "process", !.nested = TRUE, !.inserts = 0,
                         !.failed = IF req[r].nested \/ req[r].failed = "panic"
                                    THEN "panic" ELSE "reply"]]
  /\ UNCHANGED <<row, quota, started, history>>

\* The statement of a deletion or of the client's form fails: nothing is
\* written, no hook runs, and the request ends.
StatementFails(r) ==
  /\ req[r].pc \in {"delete", "edit"}
  /\ faults < MaxFaults
  /\ faults' = faults + 1
  /\ req' = [req EXCEPT ![r] = Idle]
  /\ UNCHANGED <<row, quota, started, history>>

RemoveTask(r) ==
  /\ At(r, "delete")
  /\ row' = [row EXCEPT ![req[r].id] = Deleted]
  /\ announced' = announced \ {req[r].id}
  /\ req' = [req EXCEPT ![r] = Idle]
  /\ UNCHANGED <<quota, started, faults, granted, spent, completed, paid, forced>>

\* The administrator's form holds the quota that was displayed: the grant is
\* the difference.
SaveClient(r) ==
  /\ At(r, "edit")
  /\ quota' = [quota EXCEPT ![req[r].who] = req[r].quota]
  /\ granted' = [granted EXCEPT ![req[r].who] = @ + req[r].quota - req[r].seen]
  /\ req' = [req EXCEPT ![r] = Idle]
  /\ UNCHANGED <<row, started, faults, spent, completed, paid, forced, announced>>

-----------------------------------------------------------------------------
(* Process *)

Handles(r, status) == At(r, "process") /\ req[r].copy.status = status

NoWrite == UNCHANGED <<row, quota, started, faults, history>>

\* Process leaves the task alone.
ProcessNothing(r) ==
  /\ At(r, "process")
  /\ \/ req[r].copy.status \in Terminal \cup {"CREATED", "UNKNOWN"}
     \/ /\ req[r].copy.status = "IMAGES_PROCESSING"
        /\ req[r].copy.processed # req[r].copy.images
  /\ req' = Return(r)
  /\ NoWrite

\* notifySubscribers; only a task that has the status published counts as
\* announced.
Announced(t, status) == IF row[t].status = status THEN announced \cup {t} ELSE announced

\* Mutant: the hook leaves RECOGNITION_PENDING to the notification that
\* handleImagesCompleted sends before its save.
handlePendingOnce(r) ==
  /\ At(r, "process")
  /\ req[r].copy.status \in Pending
  /\ announced' = IF req[r].copy.status = "IMAGES_PENDING"
                  THEN Announced(req[r].id, "IMAGES_PENDING") ELSE announced
  /\ req' = Return(r)
  /\ UNCHANGED <<row, quota, started, faults, granted, spent, completed, paid, forced>>

handlePending(r) ==
  /\ At(r, "process")
  /\ req[r].copy.status \in Pending
  /\ announced' = Announced(req[r].id, req[r].copy.status)
  /\ req' = Return(r)
  /\ UNCHANGED <<row, quota, started, faults, granted, spent, completed, paid, forced>>

SetStatus(r, s) ==
  /\ req' = Goto(r, "save", [req[r].copy EXCEPT !.status = s])
  /\ NoWrite

\* Mutant: the quota check is dropped.
handleReadyUnchecked(r) ==
  /\ Handles(r, "READY_FOR_PROCESSING")
  /\ \/ /\ req[r].copy.images = 0
        /\ SetStatus(r, "IMAGES_FAILED_PROCESSING")
     \/ /\ req[r].copy.images > 0
        /\ req' = [req EXCEPT ![r] =
                     [Loaded(r) EXCEPT !.pc = "charge", !.client = @ - req[r].copy.images]]
        /\ NoWrite

handleReadyForProcessing(r) ==
  /\ Handles(r, "READY_FOR_PROCESSING")
  /\ \/ /\ req[r].copy.images = 0
        /\ SetStatus(r, "IMAGES_FAILED_PROCESSING")
     \/ /\ req[r].copy.images > 0
        /\ ClientQuota(r) <= 0
        /\ SetStatus(r, "IMAGES_FAILED_QUOTA")
     \/ /\ req[r].copy.images > 0
        /\ ClientQuota(r) > 0
        /\ req' = [req EXCEPT ![r] =
                     [Loaded(r) EXCEPT !.pc = "charge", !.client = @ - req[r].copy.images]]
        /\ NoWrite

\* Mutant: an unfinished task is saved again to renew its UpdatedAt.
handleImagesProcessingRenews(r) ==
  /\ Handles(r, "IMAGES_PROCESSING")
  /\ IF req[r].copy.processed = req[r].copy.images
     THEN SetStatus(r, "IMAGES_COMPLETED")
     ELSE SetStatus(r, "IMAGES_PROCESSING")

handleImagesProcessing(r) ==
  /\ Handles(r, "IMAGES_PROCESSING")
  /\ \/ /\ Stalls
        /\ SetStatus(r, "IMAGES_FAILED_TIMEOUT")
     \/ /\ req[r].copy.processed = req[r].copy.images
        /\ SetStatus(r, "IMAGES_COMPLETED")

\* Reads the client afresh, whatever task.Client holds; no later step of the
\* request uses task.Client, so `client' takes the fresh value.
handleImagesCompleted(r) ==
  LET current == quota[Owner[req[r].id]] IN
  /\ Handles(r, "IMAGES_COMPLETED")
  /\ \/ /\ current < 1
        /\ SetStatus(r, "RECOGNITION_FAILED_QUOTA")
     \/ /\ current >= 1
        /\ req' = [req EXCEPT ![r] =
                     [Loaded(r) EXCEPT !.pc = "charge", !.client = current - 1]]
        /\ NoWrite

handleRecognitionProcessing(r) ==
  /\ Handles(r, "RECOGNITION_PROCESSING")
  /\ \/ Stalls /\ SetStatus(r, "RECOGNITION_FAILED_TIMEOUT")
     \/ SetStatus(r, "RECOGNITION_COMPLETED")

handleRecognitionCompleted(r) ==
  /\ Handles(r, "RECOGNITION_COMPLETED")
  /\ req[r].copy.result
  /\ SetStatus(r, "PROCESSING_COMPLETED")

\* Without a recognition result, Data() dereferences nil.
FlattenPanics(r) ==
  /\ Handles(r, "RECOGNITION_COMPLETED")
  /\ ~ req[r].copy.result
  /\ req' = Panic(r)
  /\ faults' = faults + 1
  /\ UNCHANGED <<row, quota, started, history>>

\* Mutant: the deduction stays in memory.
ChargeImagesInMemory(r) ==
  LET c == Owner[req[r].id] IN
  /\ At(r, "charge")
  /\ req[r].copy.status = "READY_FOR_PROCESSING"
  /\ spent' = [spent EXCEPT ![c] = @ + req[r].copy.images]
  /\ req' = Goto(r, "save", [req[r].copy EXCEPT !.status = "IMAGES_PENDING"])
  /\ UNCHANGED <<row, quota, started, faults, granted, completed, paid, forced, announced>>

\* Mutant: the deduction is applied to the copy and again by the statement.
ChargeImagesTwice(r) ==
  LET c == Owner[req[r].id] IN
  /\ At(r, "charge")
  /\ req[r].copy.status = "READY_FOR_PROCESSING"
  /\ quota' = [quota EXCEPT ![c] = req[r].client - req[r].copy.images]
  /\ spent' = [spent EXCEPT ![c] = @ + req[r].copy.images]
  /\ req' = Goto(r, "save", [req[r].copy EXCEPT !.status = "IMAGES_PENDING"])
  /\ UNCHANGED <<row, started, faults, granted, completed, paid, forced, announced>>

\* The two writes of a client: the whole row, as it was read.
ChargeImages(r) ==
  LET c == Owner[req[r].id] IN
  /\ At(r, "charge")
  /\ req[r].copy.status = "READY_FOR_PROCESSING"
  /\ quota' = [quota EXCEPT ![c] = req[r].client]
  /\ spent' = [spent EXCEPT ![c] = @ + req[r].copy.images]
  /\ req' = Goto(r, "save", [req[r].copy EXCEPT !.status = "IMAGES_PENDING"])
  /\ UNCHANGED <<row, started, faults, granted, completed, paid, forced, announced>>

\* Mutant: the status is left for the worker to change.
ChargeRecognitionKeepsStatus(r) ==
  LET t == req[r].id
      c == Owner[t] IN
  /\ At(r, "charge")
  /\ req[r].copy.status = "IMAGES_COMPLETED"
  /\ quota' = [quota EXCEPT ![c] = req[r].client]
  /\ spent' = [spent EXCEPT ![c] = @ + 1]
  /\ paid' = [paid EXCEPT ![t] = @ + 1]
  /\ req' = Goto(r, "save", req[r].copy)
  /\ UNCHANGED <<row, started, faults, granted, completed, forced, announced>>

\* Publishes the task before saving its new status.
ChargeRecognition(r) ==
  LET t == req[r].id
      c == Owner[t] IN
  /\ At(r, "charge")
  /\ req[r].copy.status = "IMAGES_COMPLETED"
  /\ quota' = [quota EXCEPT ![c] = req[r].client]
  /\ spent' = [spent EXCEPT ![c] = @ + 1]
  /\ paid' = [paid EXCEPT ![t] = @ + 1]
  /\ announced' = Announced(t, "RECOGNITION_PENDING")
  /\ req' = Goto(r, "save", [req[r].copy EXCEPT !.status = "RECOGNITION_PENDING"])
  /\ UNCHANGED <<row, started, faults, granted, completed, forced>>

\* A read or write of the client fails and Process returns the error.
ProcessFails(r) ==
  /\ \/ At(r, "charge")
     \/ /\ At(r, "process")
        /\ \/ req[r].copy.status \in { "READY_FOR_PROCESSING", "IMAGES_COMPLETED" }
           \/ req[r].copy.status \notin Terminal /\ ~ req[r].loaded
  /\ faults < MaxFaults
  /\ faults' = faults + 1
  /\ req' = Abort(r)
  /\ UNCHANGED <<row, quota, started, history>>

\* FinishTask dereferences a missing recognition result and ends the program.
FinishTaskPanics(r, t) ==
  /\ Stored(t)
  /\ row[t].status = "RECOGNITION_PROCESSING"
  /\ "finish" \in Operations
  /\ At(r, "idle")
  /\ started < MaxRequests
  /\ started' = started + 1
  /\ faults' = faults + 1
  /\ req' = AllIdle
  /\ UNCHANGED <<row, quota, history>>

\* The program is killed and started again; only the database remains.
Crash ==
  /\ faults < MaxFaults
  /\ faults' = faults + 1
  /\ req' = AllIdle
  /\ UNCHANGED <<row, quota, started, history>>

-----------------------------------------------------------------------------
Init ==
  /\ row = [t \in Tasks |-> Blank]
  /\ quota = InitialQuota
  /\ req = AllIdle
  /\ started = 0
  /\ faults = 0
  /\ granted = InitialQuota
  /\ spent = [c \in Clients |-> 0]
  /\ completed = [t \in Tasks |-> 0]
  /\ paid = [t \in Tasks |-> 0]
  /\ forced = {}
  /\ announced = {}

Arrive(r) ==
  \/ \E t \in Tasks :
       \/ \E n \in 0 .. MaxImages : CreateTask(r, t, n)
       \/ \E s \in Settable, n, m \in 0 .. MaxImages : UpdateTask(r, t, s, n, m)
       \/ DeleteTask(r, t)
       \/ \E w \in Workers : ReserveTask(r, t, w)
       \/ ReportTaskStatus(r, t)
       \/ \E n \in 0 .. MaxImages : FinishTask(r, t, n)
       \/ FinishTaskPanics(r, t)
       \/ FailTask(r, t)
       \/ \E s \in Settable : UpdateRecognitionTask(r, t, s)
  \/ \E c \in Clients, q \in 1 .. MaxQuota : UpdateClient(r, c, q)

Process(r) ==
  \/ ProcessNothing(r)
  \/ handlePending(r)
  \/ handleReadyForProcessing(r)
  \/ handleImagesProcessing(r)
  \/ handleImagesCompleted(r)
  \/ handleRecognitionProcessing(r)
  \/ handleRecognitionCompleted(r)
  \/ FlattenPanics(r)
  \/ ChargeImages(r)
  \/ ChargeRecognition(r)

Statement(r) ==
  \/ InsertTask(r)
  \/ SaveTask(r)
  \/ SaveMissesRow(r)
  \/ ReinsertTask(r)
  \/ RemoveTask(r)
  \/ SaveClient(r)

Step(r) == Statement(r) \/ Process(r)

Next ==
  \/ \E r \in Requests :
       \/ Arrive(r) \/ Step(r)
       \/ SaveFails(r) \/ StatementFails(r) \/ ProcessFails(r)
  \/ Crash

Spec == Init /\ [][Next]_vars

\* Goroutines and database statements make progress.
FairSpec == Spec /\ \A r \in Requests : WF_vars(Step(r))

-----------------------------------------------------------------------------
(* Properties *)

\* Rows hold what their columns may hold, and goroutines are where a handler
\* can be.
TypeOK ==
  /\ row \in [Tasks -> Row \cup {Blank, Deleted}]
  /\ quota \in [Clients -> Int]
  /\ req \in [Requests -> TaskRequest \cup QuotaEdit \cup {Idle}]
  /\ started \in Nat
  /\ faults \in Nat
  /\ granted \in [Clients -> Int]
  /\ spent \in [Clients -> Nat]
  /\ completed \in [Tasks -> Nat]
  /\ paid \in [Tasks -> Nat]
  /\ forced \subseteq Tasks
  /\ announced \subseteq Tasks

\* However the reads and writes of quota interleave, a client is overdrawn by
\* the images of one task at most: a task is admitted on a positive quota.
QuotaFloor == \A c \in Clients : quota[c] >= 1 - MaxImages

\* Requests that lose each other's deductions favour the client: while no
\* administrator types a quota, what is left is never less than what was
\* granted minus what was deducted.
NeverOvercharged ==
  "setQuota" \notin Operations =>
    \A c \in Clients : quota[c] >= granted[c] - spent[c]

\* Every deduction and every grant counts: the quota left is what was granted
\* minus what was deducted.
QuotaAccounting == \A c \in Clients : quota[c] = granted[c] - spent[c]

\* No task gets into recognition without its charge having been written, unless
\* a user or administrator put it there; crashes and failed saves included.
PaidBeforeRecognition ==
  \A t \in Tasks : row[t].status \in Recognised => paid[t] > 0 \/ t \in forced

\* A pending task has been published to the workers since it became pending, or
\* the request that saved it is about to publish it.
PendingAnnounced ==
  faults = 0 =>
    \A t \in Tasks : row[t].status \in Pending =>
      \/ t \in announced
      \/ \E r \in Requests : /\ At(r, "process")
                            /\ req[r].id = t
                            /\ req[r].copy.status = row[t].status

\* A task is charged once for recognition each time its images are completed.
SingleCharge == faults = 0 => \A t \in Tasks : paid[t] <= completed[t]

\* A task that has ended stays so: a deleted one does not come back, and only a
\* user or administrator who writes a status, or deletes the task, takes one out
\* of its terminal status.
TerminalStays ==
  [][ \A t \in Tasks :
        /\ row[t] = Deleted => row'[t] = Deleted
        /\ row[t].status \in Terminal /\ row'[t].status # row[t].status =>
             \E r \in Requests : /\ req[r].pc \in { "save", "delete" }
                                /\ req[r].id = t
                                /\ req[r].op \in { "update", "setStatus", "delete" }
    ]_vars

\* A request that arrives ends: the hook that saves the task it was called for
\* does not call itself forever.
RequestsEnd == \A r \in Requests : ~ At(r, "idle") ~> At(r, "idle")
-----------------------------------------------------------------------------
(* The refinement of TaskLedger *)

Stage(t) ==
  LET status == row[t].status IN
  CASE status = "ABSENT" -> "absent"
    [] status = "DELETED" -> "deleted"
    [] status = "PROCESSING_COMPLETED" -> "completed"
    [] status \in Terminal \ {"PROCESSING_COMPLETED"} -> "failed"
    [] status \in Recognised \ Terminal -> "recognition"
    [] status = "READY_FOR_PROCESSING" -> "ready"
    [] status \in Status \ (Recognised \cup Terminal \cup {"READY_FOR_PROCESSING"}) -> "open"

OnTask == { r \in Requests : ~ At(r, "idle") /\ ~ At(r, "edit") }

\* The status is typed by those who update a task or set its status.
EditedTasks ==
  { req[r].id : r \in { s \in OnTask : req[s].op \in { "update", "setStatus" } } }

\* The charge is written and the save of the status it pays for is not.
OwedPhases ==
  LET saving == { r \in OnTask : At(r, "save") /\ req[r].nested }
      phase(r) == IF req[r].copy.status = "IMAGES_PENDING" THEN "open" ELSE "recognition"
  IN { <<req[r].id, phase(r)>> : r \in { s \in saving : req[s].copy.status \in Pending } }

Books ==
  INSTANCE TaskLedger WITH
    InitialAccount <- InitialQuota, MaxGrant <- MaxQuota,
    stage <- [t \in Tasks |-> Stage(t)],
    edited <- EditedTasks, owed <- OwedPhases, account <- quota

\* While requests do not overlap, the machine with its hooks, nested saves and
\* faults is a ledger: each admission and each entry into recognition uses a
\* payment of its own, nothing completes without it, what has ended stays so,
\* and nothing else moves a quota.
ImplementsLedger == Books!Spec
=============================================================================
