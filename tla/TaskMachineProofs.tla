------------------------- MODULE TaskMachineProofs -------------------------
(* Proofs about TaskMachine, for all values of its constants.              *)
EXTENDS TaskMachine, TLAPS

ReqType == [Requests -> TaskRequest \cup QuotaEdit \cup {Idle}]

\* The first state is well typed.
LEMMA InitType == Init => TypeOK
  BY ConstantsAssumption DEF ConstantsAssumption, Init, TypeOK, AllIdle

\* The record a request starts with.
LEMMA BeginType ==
  ASSUME NEW r \in Requests, NEW op \in OperationNames, NEW t \in Tasks,
         NEW pc \in {"insert", "save", "delete"}, NEW copy \in Row
  PROVE  /\ Begin(r, op, t, pc, copy) \in TaskRequest
         /\ \A q \in Int : [ Begin(r, op, t, pc, copy) EXCEPT
                                !.client = q, !.loaded = TRUE ] \in TaskRequest
  <1>1. Begin(r, op, t, pc, copy) \in TaskRequest
    BY DEF Begin, TaskRequest
  <1>2. ASSUME NEW q \in Int
        PROVE  [ Begin(r, op, t, pc, copy) EXCEPT !.client = q, !.loaded = TRUE ]
                 \in TaskRequest
    BY <1>1 DEF TaskRequest
  <1> QED BY <1>1, <1>2

\* A goroutine at a database step holds a task request.
LEMMA Active ==
  ASSUME TypeOK, NEW r \in Requests, req[r].pc # "idle", req[r].pc # "edit"
  PROVE  req[r] \in TaskRequest
  BY DEF TypeOK, QuotaEdit, Idle

\* Loading task.Client keeps a request well typed: the quota read is one of
\* the table or the one loaded before.
LEMMA LoadedType ==
  ASSUME TypeOK, NEW r \in Requests, req[r] \in TaskRequest
  PROVE  /\ ClientQuota(r) \in Int
         /\ Loaded(r) \in TaskRequest
  <1>1. ClientQuota(r) \in Int
    BY ConstantsAssumption DEF ConstantsAssumption, TypeOK, ClientQuota, TaskRequest
  <1> QED BY <1>1 DEF Loaded, TaskRequest

\* The goroutine moves on with another count of pending inserts.
LEMMA InsertsType ==
  ASSUME NEW q \in TaskRequest, NEW n \in Nat
  PROVE  /\ [q EXCEPT !.pc = "reinsert", !.inserts = n] \in TaskRequest
         /\ [q EXCEPT !.pc = "process", !.nested = TRUE, !.inserts = n] \in TaskRequest
  BY DEF TaskRequest

\* However Process ends (a panic, an error, a return to the saves on the
\* stack), the goroutines are well typed.
LEMMA ReturnType ==
  ASSUME TypeOK, NEW r \in Requests, req[r] \in TaskRequest
  PROVE  /\ Panic(r) \in ReqType
         /\ Abort(r) \in ReqType
         /\ Return(r) \in ReqType
  <1>1. Loaded(r) \in TaskRequest
    BY LoadedType
  <1>2. AllIdle \in ReqType
    BY DEF AllIdle, ReqType
  <1>3. Panic(r) \in ReqType
    BY <1>2 DEF Panic, TypeOK, ReqType
  <1>4. Abort(r) \in ReqType
    BY <1>3 DEF Abort, TypeOK, ReqType
  <1>5. Loaded(r).inserts > 0 =>
          [Loaded(r) EXCEPT !.pc = "reinsert", !.inserts = Loaded(r).inserts - 1]
             \in TaskRequest
    <2>1. Loaded(r).inserts \in Nat
      BY <1>1 DEF TaskRequest
    <2>2. Loaded(r).inserts > 0 => Loaded(r).inserts - 1 \in Nat
      BY <2>1
    <2> QED BY <1>1, <2>2, InsertsType
  <1>6. [Loaded(r) EXCEPT !.pc = "process", !.again = TRUE, !.nested = FALSE]
          \in TaskRequest
    BY <1>1 DEF TaskRequest
  <1>7. Return(r) \in ReqType
    BY <1>3, <1>5, <1>6 DEF Return, TypeOK, ReqType
  <1> QED BY <1>3, <1>4, <1>7

\* A goroutine that goes on with another copy of its task stays well typed.
LEMMA GotoType ==
  ASSUME TypeOK, NEW r \in Requests, req[r] \in TaskRequest,
         NEW pc \in {"save", "charge"}, NEW copy \in Row
  PROVE  Goto(r, pc, copy) \in ReqType
  <1>1. [Loaded(r) EXCEPT !.pc = pc, !.copy = copy] \in TaskRequest
    BY LoadedType DEF TaskRequest
  <1> QED BY <1>1 DEF Goto, TypeOK, ReqType

-----------------------------------------------------------------------------
(* Type correctness *)

\* A request that is accepted leaves the rows alone.
LEMMA AcceptType ==
  ASSUME TypeOK, NEW r \in Requests, NEW op \in OperationNames,
         NEW request \in TaskRequest \cup QuotaEdit, Accept(r, op, request)
  PROVE  /\ row' = row /\ quota' = quota /\ faults' = faults
         /\ started' \in Nat
         /\ req' \in ReqType
  BY DEF TypeOK, Accept, ReqType

\* A task whose row is stored has a well-typed row.
LEMMA StoredType ==
  ASSUME TypeOK, NEW t \in Tasks, Stored(t)
  PROVE  row[t] \in Row
  BY DEF TypeOK, Stored, Blank, Deleted, Status

\* Every handler starts its request well typed from what it read.
LEMMA ArriveType ==
  ASSUME TypeOK, NEW r \in Requests, Arrive(r)
  PROVE  TypeOK'
  <1>1. ASSUME NEW t \in Tasks, NEW n \in 0 .. MaxImages, CreateTask(r, t, n)
        PROVE  TypeOK'
    <2> DEFINE copy == [ status |-> "IMAGES_PENDING", worker |-> NoWorker,
                         images |-> n, processed |-> 0, result |-> FALSE ]
               request == [ Begin(r, "create", t, "insert", copy) EXCEPT
                              !.client = quota[Owner[t]], !.loaded = TRUE ]
    <2>1. copy \in Row
      BY ConstantsAssumption DEF ConstantsAssumption, Row, Status
    <2>2. quota[Owner[t]] \in Int
      BY ConstantsAssumption DEF ConstantsAssumption, TypeOK
    <2>3. request \in TaskRequest
      BY <2>1, <2>2, BeginType DEF OperationNames
    <2>4. Accept(r, "create", request) /\ UNCHANGED history
      BY <1>1 DEF CreateTask
    <2> QED BY <2>3, <2>4, AcceptType DEF TypeOK, history, ReqType, OperationNames
  <1>2. ASSUME NEW t \in Tasks, NEW s \in Settable,
               NEW n \in 0 .. MaxImages, NEW m \in 0 .. MaxImages,
               UpdateTask(r, t, s, n, m)
        PROVE  TypeOK'
    <2> DEFINE copy == [ status |-> s, worker |-> NoWorker, images |-> n,
                         processed |-> m, result |-> FALSE ]
               request == [ Begin(r, "update", t, "save", copy) EXCEPT
                              !.client = quota[Owner[t]], !.loaded = TRUE ]
    <2>1. copy \in Row
      BY ConstantsAssumption DEF ConstantsAssumption, Row
    <2>2. quota[Owner[t]] \in Int
      BY ConstantsAssumption DEF ConstantsAssumption, TypeOK
    <2>3. request \in TaskRequest
      BY <2>1, <2>2, BeginType DEF OperationNames
    <2>4. Accept(r, "update", request)
      BY <1>2 DEF UpdateTask
    <2>5. forced' \subseteq Tasks /\ UNCHANGED <<granted, spent, completed, paid, announced>>
      BY <1>2 DEF UpdateTask, TypeOK
    <2> QED BY <2>3, <2>4, <2>5, AcceptType DEF TypeOK, ReqType, OperationNames
  <1>3. ASSUME NEW t \in Tasks, DeleteTask(r, t)
        PROVE  TypeOK'
    <2>1. Begin(r, "delete", t, "delete", row[t]) \in TaskRequest
      BY <1>3, StoredType, BeginType DEF DeleteTask, OperationNames
    <2> QED BY <1>3, <2>1, AcceptType
            DEF DeleteTask, TypeOK, history, ReqType, OperationNames
  <1>4. ASSUME NEW t \in Tasks, NEW w \in Workers, ReserveTask(r, t, w)
        PROVE  TypeOK'
    <2>1. [row[t] EXCEPT !.worker = w] \in Row
      BY <1>4, StoredType DEF ReserveTask, Row
    <2>2. Begin(r, "reserve", t, "save", [row[t] EXCEPT !.worker = w]) \in TaskRequest
      BY <2>1, BeginType DEF OperationNames
    <2> QED BY <1>4, <2>2, AcceptType
            DEF ReserveTask, TypeOK, history, ReqType, OperationNames
  <1>5. ASSUME NEW t \in Tasks, ReportTaskStatus(r, t)
        PROVE  TypeOK'
    <2>1. Begin(r, "report", t, "save", row[t]) \in TaskRequest
      BY <1>5, StoredType, BeginType DEF ReportTaskStatus, OperationNames
    <2> QED BY <1>5, <2>1, AcceptType
            DEF ReportTaskStatus, TypeOK, history, ReqType, OperationNames
  <1>6. ASSUME NEW t \in Tasks, NEW n \in 0 .. MaxImages, FinishTask(r, t, n)
        PROVE  TypeOK'
    <2>1. Finished(row[t], n) \in Row
      BY <1>6, StoredType DEF FinishTask, Finished, Row, Status
    <2>2. Begin(r, "finish", t, "save", Finished(row[t], n)) \in TaskRequest
      BY <2>1, BeginType DEF OperationNames
    <2> QED BY <1>6, <2>2, AcceptType
            DEF FinishTask, TypeOK, history, ReqType, OperationNames
  <1>7. ASSUME NEW t \in Tasks, FinishTaskPanics(r, t)
        PROVE  TypeOK'
    BY <1>7 DEF FinishTaskPanics, TypeOK, history, AllIdle
  <1>8. ASSUME NEW t \in Tasks, FailTask(r, t)
        PROVE  TypeOK'
    <2>1. Failed(row[t]) \in Row
      BY <1>8, StoredType DEF FailTask, Failed, Row, Status
    <2>2. Begin(r, "fail", t, "save", Failed(row[t])) \in TaskRequest
      BY <2>1, BeginType DEF OperationNames
    <2> QED BY <1>8, <2>2, AcceptType
            DEF FailTask, TypeOK, history, ReqType, OperationNames
  <1>9. ASSUME NEW t \in Tasks, NEW s \in Settable, UpdateRecognitionTask(r, t, s)
        PROVE  TypeOK'
    <2>1. [row[t] EXCEPT !.status = s] \in Row
      BY <1>9, StoredType, ConstantsAssumption
      DEF ConstantsAssumption, UpdateRecognitionTask, Row
    <2>2. Begin(r, "setStatus", t, "save", [row[t] EXCEPT !.status = s]) \in TaskRequest
      BY <2>1, BeginType DEF OperationNames
    <2>3. forced' \subseteq Tasks /\ UNCHANGED <<granted, spent, completed, paid, announced>>
      BY <1>9 DEF UpdateRecognitionTask, TypeOK
    <2> QED BY <1>9, <2>2, <2>3, AcceptType
            DEF UpdateRecognitionTask, TypeOK, ReqType, OperationNames
  <1>10. ASSUME NEW c \in Clients, NEW q \in 1 .. MaxQuota, UpdateClient(r, c, q)
         PROVE  TypeOK'
    <2>1. [pc |-> "edit", who |-> c, seen |-> quota[c], quota |-> q] \in QuotaEdit
      BY DEF TypeOK, QuotaEdit
    <2> QED BY <1>10, <2>1, AcceptType
            DEF UpdateClient, TypeOK, history, ReqType, OperationNames
  <1> QED BY <1>1, <1>2, <1>3, <1>4, <1>5, <1>6, <1>7, <1>8, <1>9, <1>10 DEF Arrive

\* A statement that writes a copy writes a well-typed row.
LEMMA WriteType ==
  ASSUME TypeOK, NEW r \in Requests, req[r] \in TaskRequest, Write(r)
  PROVE  /\ row' \in [Tasks -> Row \cup {Blank, Deleted}]
         /\ completed' \in [Tasks -> Nat]
         /\ announced' \subseteq Tasks
         /\ UNCHANGED <<quota, started, faults, granted, spent, paid, forced>>
  <1>1. req[r].copy \in Row /\ req[r].id \in Tasks
    BY DEF TaskRequest
  <1> QED BY <1>1 DEF Write, TypeOK

\* Statements, and what each leaves its goroutine to do, keep the types.
LEMMA StatementType ==
  ASSUME TypeOK, NEW r \in Requests, Statement(r)
  PROVE  TypeOK'
  <1>1. CASE InsertTask(r)
    <2>1. req[r] \in TaskRequest
      BY <1>1, Active DEF InsertTask, At
    <2>2. [req[r] EXCEPT !.pc = "process", !.nested = TRUE] \in TaskRequest
      BY <2>1 DEF TaskRequest
    <2>3. Write(r) /\ req' \in ReqType
      BY <1>1, <2>2 DEF InsertTask, TypeOK, ReqType
    <2> QED BY <2>1, <2>3, WriteType DEF TypeOK, ReqType
  <1>2. CASE SaveTask(r)
    <2>1. req[r] \in TaskRequest
      BY <1>2, Active DEF SaveTask, At
    <2>2. [req[r] EXCEPT !.pc = "process", !.nested = TRUE] \in TaskRequest
      BY <2>1 DEF TaskRequest
    <2>3. Write(r) /\ req' \in ReqType
      BY <1>2, <2>2 DEF SaveTask, TypeOK, ReqType
    <2> QED BY <2>1, <2>3, WriteType DEF TypeOK, ReqType
  <1>3. CASE SaveMissesRow(r)
    <2>1. req[r] \in TaskRequest
      BY <1>3, Active DEF SaveMissesRow, At
    <2>2. [req[r] EXCEPT !.pc = "process", !.nested = TRUE,
                         !.inserts = req[r].inserts + 1] \in TaskRequest
      <3>1. req[r].inserts \in Nat
        BY <2>1 DEF TaskRequest
      <3>2. req[r].inserts + 1 \in Nat
        BY <3>1
      <3> QED BY <2>1, <3>2, InsertsType
    <2> QED BY <1>3, <2>2 DEF SaveMissesRow, TypeOK, history
  <1>4. CASE ReinsertTask(r)
    <2>1. req[r] \in TaskRequest
      BY <1>4, Active DEF ReinsertTask, At
    <2>2. [req[r] EXCEPT !.pc = "process", !.nested = TRUE] \in TaskRequest
      BY <2>1 DEF TaskRequest
    <2>3. Write(r) /\ req' \in ReqType
      BY <1>4, <2>2 DEF ReinsertTask, TypeOK, ReqType
    <2> QED BY <2>1, <2>3, WriteType DEF TypeOK, ReqType
  <1>5. CASE RemoveTask(r)
    <2>1. req[r] \in TaskRequest
      BY <1>5, Active DEF RemoveTask, At
    <2> QED BY <1>5, <2>1 DEF RemoveTask, TypeOK, TaskRequest
  <1>6. CASE SaveClient(r)
    <2>1. req[r] \in QuotaEdit
      BY <1>6 DEF SaveClient, At, TypeOK, TaskRequest, Idle
    <2>2. /\ req[r].who \in Clients
          /\ req[r].quota \in Int
          /\ req[r].seen \in Int
      BY <2>1 DEF QuotaEdit
    <2> QED BY <1>6, <2>2 DEF SaveClient, TypeOK
  <1> QED BY <1>1, <1>2, <1>3, <1>4, <1>5, <1>6 DEF Statement

\* Every status the machine writes into a copy.
LEMMA SetStatusType ==
  ASSUME TypeOK, NEW r \in Requests, At(r, "process"), NEW s \in Status, SetStatus(r, s)
  PROVE  TypeOK'
  <1>1. req[r] \in TaskRequest
    BY Active DEF At
  <1>2. [req[r].copy EXCEPT !.status = s] \in Row
    BY <1>1 DEF TaskRequest, Row
  <1>3. req' \in ReqType
    BY <1>1, <1>2, GotoType DEF SetStatus
  <1> QED BY <1>3 DEF SetStatus, NoWrite, history, TypeOK, ReqType

\* A deduction in memory.
LEMMA ToChargeType ==
  ASSUME TypeOK, NEW r \in Requests, req[r] \in TaskRequest, NEW n \in Int
  PROVE  [req EXCEPT ![r] = [Loaded(r) EXCEPT !.pc = "charge", !.client = n]] \in ReqType
  <1>1. [Loaded(r) EXCEPT !.pc = "charge", !.client = n] \in TaskRequest
    BY LoadedType DEF TaskRequest
  <1> QED BY <1>1 DEF TypeOK, ReqType

\* The state machine's handlers keep the types.
LEMMA ProcessType ==
  ASSUME TypeOK, NEW r \in Requests, Process(r)
  PROVE  TypeOK'
  <1>0. req[r] \in TaskRequest
    BY Active DEF Process, ProcessNothing, handlePending, handleReadyForProcessing,
         handleImagesProcessing, handleImagesCompleted, handleRecognitionProcessing,
         handleRecognitionCompleted, FlattenPanics, ChargeImages, ChargeRecognition,
         Handles, At
  <1>a. /\ req[r].copy \in Row
        /\ req[r].copy.images \in Nat
        /\ req[r].id \in Tasks
        /\ req[r].client \in Int
        /\ Owner[req[r].id] \in Clients
    BY <1>0, ConstantsAssumption DEF ConstantsAssumption, TaskRequest, Row
  <1>1. CASE ProcessNothing(r)
    BY <1>1, <1>0, ReturnType DEF ProcessNothing, NoWrite, history, TypeOK, ReqType
  <1>2. CASE handlePending(r)
    <2>1. announced' \subseteq Tasks
      BY <1>2, <1>a DEF handlePending, Announced, TypeOK
    <2> QED BY <1>2, <1>0, <2>1, ReturnType DEF handlePending, TypeOK, ReqType
  <1>3. CASE handleReadyForProcessing(r)
    <2>1. CASE \/ SetStatus(r, "IMAGES_FAILED_PROCESSING")
               \/ SetStatus(r, "IMAGES_FAILED_QUOTA")
      BY <1>3, <2>1, SetStatusType DEF handleReadyForProcessing, Handles, Status
    <2>2. CASE /\ req' = [req EXCEPT ![r] = [Loaded(r) EXCEPT
                            !.pc = "charge", !.client = @ - req[r].copy.images]]
               /\ NoWrite
      <3>1. Loaded(r).client \in Int
        BY <1>0, LoadedType DEF TaskRequest
      <3>2. Loaded(r).client - req[r].copy.images \in Int
        BY <1>a, <3>1
      <3>3. req' \in ReqType
        BY <1>0, <2>2, <3>2, ToChargeType
      <3> QED BY <2>2, <3>3 DEF NoWrite, history, TypeOK, ReqType
    <2> QED BY <1>3, <2>1, <2>2 DEF handleReadyForProcessing
  <1>4. CASE handleImagesProcessing(r)
    BY <1>4, SetStatusType DEF handleImagesProcessing, Handles, Status
  <1>5. CASE handleImagesCompleted(r)
    <2>1. CASE SetStatus(r, "RECOGNITION_FAILED_QUOTA")
      BY <1>5, <2>1, SetStatusType DEF handleImagesCompleted, Handles, Status
    <2> DEFINE current == quota[Owner[req[r].id]]
    <2>2. CASE /\ req' = [req EXCEPT ![r] =
                            [Loaded(r) EXCEPT !.pc = "charge", !.client = current - 1]]
               /\ NoWrite
      <3>1. current - 1 \in Int
        BY <1>a DEF TypeOK
      <3>2. req' \in ReqType
        BY <1>0, <2>2, <3>1, ToChargeType
      <3> QED BY <2>2, <3>2 DEF NoWrite, history, TypeOK, ReqType
    <2> QED BY <1>5, <2>1, <2>2 DEF handleImagesCompleted
  <1>6. CASE handleRecognitionProcessing(r)
    BY <1>6, SetStatusType DEF handleRecognitionProcessing, Handles, Status
  <1>7. CASE handleRecognitionCompleted(r)
    BY <1>7, SetStatusType DEF handleRecognitionCompleted, Handles, Status
  <1>8. CASE FlattenPanics(r)
    BY <1>8, <1>0, ReturnType DEF FlattenPanics, history, TypeOK, ReqType
  <1>9. CASE ChargeImages(r)
    <2>1. [req[r].copy EXCEPT !.status = "IMAGES_PENDING"] \in Row
      BY <1>a DEF Row, Status
    <2>2. req' \in ReqType
      BY <1>0, <1>9, <2>1, GotoType DEF ChargeImages
    <2>3. quota' \in [Clients -> Int] /\ spent' \in [Clients -> Nat]
      BY <1>9, <1>a DEF ChargeImages, TypeOK
    <2> QED BY <1>9, <2>2, <2>3 DEF ChargeImages, TypeOK, ReqType
  <1>10. CASE ChargeRecognition(r)
    <2>1. [req[r].copy EXCEPT !.status = "RECOGNITION_PENDING"] \in Row
      BY <1>a DEF Row, Status
    <2>2. req' \in ReqType
      BY <1>0, <1>10, <2>1, GotoType DEF ChargeRecognition
    <2>3. quota' \in [Clients -> Int] /\ spent' \in [Clients -> Nat]
      BY <1>10, <1>a DEF ChargeRecognition, TypeOK
    <2>4. paid' \in [Tasks -> Nat] /\ announced' \subseteq Tasks
      BY <1>10, <1>a DEF ChargeRecognition, Announced, TypeOK
    <2> QED BY <1>10, <2>2, <2>3, <2>4 DEF ChargeRecognition, TypeOK, ReqType
  <1> QED BY <1>1, <1>2, <1>3, <1>4, <1>5, <1>6, <1>7, <1>8, <1>9, <1>10 DEF Process

\* Failed statements, panics and crashes keep the types.
LEMMA FaultType ==
  ASSUME TypeOK,
         (\E r \in Requests : SaveFails(r) \/ StatementFails(r) \/ ProcessFails(r)) \/ Crash
  PROVE  TypeOK'
  <1>1. ASSUME NEW r \in Requests, SaveFails(r)
        PROVE  TypeOK'
    <2>1. req[r] \in TaskRequest
      BY <1>1, Active DEF SaveFails
    <2> DEFINE how == IF req[r].nested \/ req[r].failed = "panic" THEN "panic" ELSE "reply"
    <2>2. how \in {"reply", "panic"}
      OBVIOUS
    <2> HIDE DEF how
    <2>3. [ req[r] EXCEPT !.pc = "process", !.nested = TRUE, !.inserts = 0,
                          !.failed = how ] \in TaskRequest
      BY <2>1, <2>2 DEF TaskRequest
    <2>4. req' \in ReqType
      BY <1>1, <2>3 DEF SaveFails, TypeOK, ReqType, how
    <2>5. faults' = faults + 1 /\ UNCHANGED <<row, quota, started, history>>
      BY <1>1 DEF SaveFails
    <2> QED BY <2>4, <2>5 DEF history, TypeOK, ReqType
  <1>2. ASSUME NEW r \in Requests, ProcessFails(r)
        PROVE  TypeOK'
    <2>1. req[r] \in TaskRequest
      BY <1>2, Active DEF ProcessFails, At
    <2>2. req' \in ReqType
      BY <1>2, <2>1, ReturnType DEF ProcessFails
    <2> QED BY <1>2, <2>2 DEF ProcessFails, history, TypeOK, ReqType
  <1>3. CASE Crash
    BY <1>3 DEF Crash, history, AllIdle, TypeOK
  <1>4. ASSUME NEW r \in Requests, StatementFails(r)
        PROVE  TypeOK'
    BY <1>4 DEF StatementFails, history, TypeOK
  <1> QED BY <1>1, <1>2, <1>3, <1>4

\* Every reachable state has its type, for all tasks, clients and requests: no
\* interleaving of the handlers writes a row or a request outside its type.
THEOREM TypeCorrect == Spec => []TypeOK
  <1>1. TypeOK /\ [Next]_vars => TypeOK'
    <2> SUFFICES ASSUME TypeOK, [Next]_vars PROVE TypeOK'
      OBVIOUS
    <2>1. ASSUME NEW r \in Requests, Arrive(r) PROVE TypeOK'
      BY <2>1, ArriveType
    <2>2. ASSUME NEW r \in Requests, Step(r) PROVE TypeOK'
      BY <2>2, StatementType, ProcessType DEF Step
    <2>3. CASE \/ \E r \in Requests : SaveFails(r) \/ StatementFails(r) \/ ProcessFails(r)
               \/ Crash
      BY <2>3, FaultType
    <2>4. CASE UNCHANGED vars
      BY <2>4 DEF vars, history, TypeOK
    <2> QED BY <2>1, <2>2, <2>3, <2>4 DEF Next
  <1> QED BY <1>1, InitType, PTL DEF Spec

-----------------------------------------------------------------------------
(* Quota and charges *)

\* What Return leaves in each goroutine: its own goes on with the same task and
\* client, the others are as before unless the program ends.
LEMMA ReturnKeeps ==
  ASSUME TypeOK, NEW r \in Requests, req[r] \in TaskRequest, NEW s \in Requests
  PROVE  /\ Panic(r)[s] \in {req[s], Idle}
         /\ Abort(r)[s] \in {req[s], Idle}
         /\ \/ Return(r)[s] \in {req[s], Idle}
            \/ /\ s = r
               /\ Return(r)[s].pc \in {"reinsert", "process"}
               /\ Return(r)[s].id = req[r].id
               /\ Return(r)[s].copy = req[r].copy
               /\ Return(r)[s].client = Loaded(r).client
               /\ Return(r)[s].loaded = Loaded(r).loaded
  <1>1. Panic(r)[s] \in {req[s], Idle}
    BY DEF Panic, AllIdle, TypeOK
  <1>2. Abort(r)[s] \in {req[s], Idle}
    BY <1>1 DEF Abort, TypeOK
  <1>3. /\ Loaded(r) \in TaskRequest
        /\ Loaded(r).id = req[r].id
        /\ Loaded(r).copy = req[r].copy
    BY LoadedType DEF Loaded, TaskRequest
  <1>4. CASE Loaded(r).inserts > 0
    <2>1. Return(r) = [req EXCEPT ![r] =
             [Loaded(r) EXCEPT !.pc = "reinsert", !.inserts = Loaded(r).inserts - 1]]
      BY <1>4, <1>3 DEF Return, TaskRequest
    <2> QED BY <1>1, <1>2, <1>3, <2>1 DEF TypeOK, TaskRequest
  <1>5. CASE ~ (Loaded(r).inserts > 0)
    <2>1. \/ Return(r) = Panic(r)
          \/ Return(r) = [req EXCEPT ![r] = Idle]
          \/ Return(r) = [req EXCEPT ![r] =
                 [Loaded(r) EXCEPT !.pc = "process", !.again = TRUE, !.nested = FALSE]]
      BY <1>5 DEF Return
    <2>2. CASE Return(r) = Panic(r)
      BY <1>1, <1>2, <2>2
    <2>3. CASE Return(r) = [req EXCEPT ![r] = Idle]
      BY <1>1, <1>2, <2>3 DEF TypeOK
    <2> DEFINE q == [Loaded(r) EXCEPT !.pc = "process", !.again = TRUE, !.nested = FALSE]
    <2>4. /\ q.pc = "process" /\ q.id = req[r].id /\ q.copy = req[r].copy
          /\ q.client = Loaded(r).client /\ q.loaded = Loaded(r).loaded
      BY <1>3 DEF TaskRequest
    <2> HIDE DEF q
    <2>5. CASE Return(r) = [req EXCEPT ![r] = q]
      BY <1>1, <1>2, <2>4, <2>5 DEF TypeOK
    <2> QED BY <2>1, <2>2, <2>3, <2>5 DEF q
  <1> QED BY <1>4, <1>5

NoEdits == "setQuota" \notin Operations

\* What the request is about to add to `spent'.
Due(q) ==
  IF q.pc # "charge" THEN 0
  ELSE IF q.copy.status = "READY_FOR_PROCESSING" THEN q.copy.images ELSE 1

\* What a request knows of its client and its task, given the history variables:
\* the quota it is about to write is admitted, a client it read lags behind the
\* deductions but never ahead of them, and a copy in recognition is paid for.
Sound(q, g, s, p, f) ==
  q \in TaskRequest =>
    /\ q.pc = "charge" =>
         /\ q.client >= 1 - MaxImages
         /\ q.loaded
         /\ q.copy.status \in {"READY_FOR_PROCESSING", "IMAGES_COMPLETED"}
    /\ NoEdits /\ q.loaded =>
         q.client + Due(q) >= g[Owner[q.id]] - s[Owner[q.id]]
    /\ q.copy.status \in Recognised => p[q.id] > 0 \/ q.id \in f

SoundNow(r) == Sound(req[r], granted, spent, paid, forced)

\* The inductive invariant.
Ledger ==
  /\ QuotaFloor
  /\ NeverOvercharged
  /\ PaidBeforeRecognition
  /\ \A r \in Requests : SoundNow(r)
  /\ NoEdits => \A r \in Requests : ~ At(r, "edit")

\* Deductions and payments only add up.
Monotone ==
  /\ \A c \in Clients : spent[c] <= spent'[c]
  /\ NoEdits => granted' = granted
  /\ \A t \in Tasks : paid[t] <= paid'[t]
  /\ forced \subseteq forced'

\* What a request knows stays sound while others only deduct, grant and pay.
LEMMA SoundStays ==
  ASSUME TypeOK, TypeOK', Monotone, NEW q \in TaskRequest,
         Sound(q, granted, spent, paid, forced)
  PROVE  Sound(q, granted', spent', paid', forced')
  <1>1. Owner[q.id] \in Clients /\ q.id \in Tasks /\ q.client \in Int
    BY ConstantsAssumption DEF ConstantsAssumption, TaskRequest
  <1>2. Due(q) \in Int
    BY DEF Due, TaskRequest, Row
  <1> DEFINE c == Owner[q.id]
  <1>3. /\ spent[c] \in Int /\ spent'[c] \in Int /\ spent[c] <= spent'[c]
        /\ granted[c] \in Int /\ granted'[c] \in Int
        /\ paid[q.id] \in Int /\ paid'[q.id] \in Int /\ paid[q.id] <= paid'[q.id]
    BY <1>1 DEF TypeOK, Monotone
  <1> HIDE DEF c
  <1>4. NoEdits /\ q.loaded => q.client + Due(q) >= granted'[c] - spent'[c]
    <2>1. SUFFICES ASSUME NoEdits, q.loaded PROVE q.client + Due(q) >= granted'[c] - spent'[c]
      OBVIOUS
    <2>2. q.client + Due(q) >= granted[c] - spent[c] /\ granted' = granted
      BY <2>1 DEF Sound, Monotone, c
    <2> QED BY <2>2, <1>1, <1>2, <1>3
  <1>5. q.copy.status \in Recognised => paid'[q.id] > 0 \/ q.id \in forced'
    BY <1>3 DEF Sound, Monotone
  <1> QED BY <1>4, <1>5 DEF Sound, c

\* What is left to show of a step: the rows and quotas, and the goroutine that
\* took it.
LEMMA LedgerStep ==
  ASSUME TypeOK, TypeOK', Ledger, Monotone, NEW r \in Requests,
         QuotaFloor', NeverOvercharged', PaidBeforeRecognition',
         SoundNow(r)',
         \A s \in Requests \ {r} : req'[s] \in {req[s], Idle},
         NoEdits => ~ At(r, "edit")'
  PROVE  Ledger'
  <1>1. ASSUME NEW s \in Requests, s # r PROVE SoundNow(s)'
    <2>1. CASE req'[s] = Idle
      BY <2>1 DEF SoundNow, Sound, Idle, TaskRequest
    <2>2. CASE req'[s] = req[s] /\ req[s] \in TaskRequest
      BY <2>2, SoundStays DEF SoundNow, Ledger
    <2>3. CASE req'[s] = req[s] /\ req[s] \notin TaskRequest
      BY <2>3 DEF SoundNow, Sound
    <2> QED BY <1>1, <2>1, <2>2, <2>3
  <1>2. NoEdits => \A s \in Requests : ~ At(s, "edit")'
    BY DEF Ledger, At, Idle
  <1> QED BY <1>1, <1>2 DEF Ledger

\* An unchanged table keeps what is true of it.
LEMMA TablesStay ==
  ASSUME TypeOK, TypeOK', Ledger, Monotone, row' = row, quota' = quota,
         NoEdits => granted' = granted
  PROVE  QuotaFloor' /\ NeverOvercharged' /\ PaidBeforeRecognition'
  <1>1. QuotaFloor'
    BY DEF Ledger, QuotaFloor
  <1>2. NeverOvercharged'
    BY DEF Ledger, NeverOvercharged, Monotone, NoEdits, TypeOK
  <1>3. PaidBeforeRecognition'
    BY DEF Ledger, PaidBeforeRecognition, Monotone, TypeOK
  <1> QED BY <1>1, <1>2, <1>3

\* The ledger balances in the first state.
LEMMA InitLedger == Init => Ledger
  <1> SUFFICES ASSUME Init PROVE Ledger
    OBVIOUS
  <1>1. QuotaFloor /\ NeverOvercharged
    BY ConstantsAssumption DEF ConstantsAssumption, Init, QuotaFloor, NeverOvercharged
  <1>2. PaidBeforeRecognition
    BY DEF Init, PaidBeforeRecognition, Blank, Recognised
  <1>3. ASSUME NEW r \in Requests PROVE SoundNow(r) /\ ~ At(r, "edit")
    BY DEF Init, SoundNow, Sound, At, AllIdle, Idle, TaskRequest
  <1> QED BY <1>1, <1>2, <1>3 DEF Ledger

\* A request that has just read its task, and perhaps its client.
LEMMA FreshSound ==
  ASSUME TypeOK, TypeOK', Ledger, Monotone, granted' = granted, spent' = spent,
         NEW r \in Requests, NEW op \in OperationNames, NEW t \in Tasks,
         NEW pc \in {"insert", "save", "delete"}, NEW copy \in Row,
         copy.status \in Recognised => paid'[t] > 0 \/ t \in forced'
  PROVE  /\ Sound(Begin(r, op, t, pc, copy), granted', spent', paid', forced')
         /\ Sound([ Begin(r, op, t, pc, copy) EXCEPT
                      !.client = quota[Owner[t]], !.loaded = TRUE ],
                  granted', spent', paid', forced')
  <1>1. Sound(Begin(r, op, t, pc, copy), granted', spent', paid', forced')
    BY DEF Sound, Begin
  <1> DEFINE q == [ Begin(r, op, t, pc, copy) EXCEPT
                      !.client = quota[Owner[t]], !.loaded = TRUE ]
  <1>2. /\ q.pc = pc /\ q.id = t /\ q.copy = copy
        /\ q.client = quota[Owner[t]] /\ q.loaded
    BY DEF Begin
  <1> HIDE DEF q
  <1>3. Owner[t] \in Clients
    BY ConstantsAssumption DEF ConstantsAssumption
  <1>4. NoEdits => q.client + Due(q) >= granted'[Owner[t]] - spent'[Owner[t]]
    BY <1>2, <1>3 DEF Due, Ledger, NeverOvercharged, NoEdits, TypeOK
  <1>5. Sound(q, granted', spent', paid', forced')
    BY <1>2, <1>4 DEF Sound
  <1> QED BY <1>1, <1>5 DEF q

\* The ledger balances after a request that knows nothing stale arrives.
LEMMA AcceptLedger ==
  ASSUME TypeOK, TypeOK', Ledger, Monotone, granted' = granted,
         NEW r \in Requests, NEW op \in OperationNames,
         NEW request \in TaskRequest \cup QuotaEdit, Accept(r, op, request),
         Sound(request, granted', spent', paid', forced'),
         NoEdits => request.pc # "edit"
  PROVE  Ledger'
  <1>1. row' = row /\ quota' = quota
    BY DEF Accept
  <1>2. req'[r] = request /\ \A s \in Requests \ {r} : req'[s] = req[s]
    BY DEF Accept, TypeOK
  <1>3. SoundNow(r)'
    BY <1>2 DEF SoundNow
  <1>4. QuotaFloor' /\ NeverOvercharged' /\ PaidBeforeRecognition'
    BY <1>1, TablesStay
  <1> QED BY <1>2, <1>3, <1>4, LedgerStep DEF At

\* An arrival, given what the handler made of the status it read or was sent.
LEMMA BeginLedger ==
  ASSUME TypeOK, TypeOK', Ledger, Monotone, granted' = granted, spent' = spent,
         NEW r \in Requests, NEW op \in OperationNames, NEW t \in Tasks,
         NEW pc \in {"insert", "save", "delete"}, NEW copy \in Row,
         copy.status \in Recognised => paid'[t] > 0 \/ t \in forced',
         \/ Accept(r, op, Begin(r, op, t, pc, copy))
         \/ Accept(r, op, [ Begin(r, op, t, pc, copy) EXCEPT
                              !.client = quota[Owner[t]], !.loaded = TRUE ])
  PROVE  Ledger'
  <1> DEFINE plain == Begin(r, op, t, pc, copy)
             loaded == [ Begin(r, op, t, pc, copy) EXCEPT
                           !.client = quota[Owner[t]], !.loaded = TRUE ]
  <1>1. quota[Owner[t]] \in Int
    BY ConstantsAssumption DEF ConstantsAssumption, TypeOK
  <1>2. plain \in TaskRequest /\ loaded \in TaskRequest
    BY <1>1, BeginType
  <1>3. /\ Sound(plain, granted', spent', paid', forced')
        /\ Sound(loaded, granted', spent', paid', forced')
    BY FreshSound
  <1> HIDE DEF plain, loaded
  <1>4. plain.pc # "edit" /\ loaded.pc # "edit"
    BY <1>2 DEF TaskRequest
  <1>5. Accept(r, op, plain) \/ Accept(r, op, loaded)
    BY DEF plain, loaded
  <1> QED BY <1>2, <1>3, <1>4, <1>5, AcceptLedger

\* No arrival disturbs the ledger.
LEMMA ArriveLedger ==
  ASSUME TypeOK, TypeOK', Ledger, NEW r \in Requests, Arrive(r)
  PROVE  Ledger'
  <1>u. UNCHANGED history => Monotone /\ granted' = granted /\ spent' = spent
    BY DEF history, Monotone, TypeOK
  <1>f. ASSUME NEW t \in Tasks, NEW s \in Status,
               forced' = IF s \in Recognised THEN forced \cup {t} ELSE forced,
               UNCHANGED <<granted, spent, completed, paid, announced>>
        PROVE  /\ Monotone /\ granted' = granted /\ spent' = spent
               /\ s \in Recognised => t \in forced'
    BY <1>f DEF Monotone, TypeOK
  <1>p. ASSUME NEW t \in Tasks, Stored(t), UNCHANGED history, row[t].status \in Recognised
        PROVE  paid'[t] > 0 \/ t \in forced'
    BY <1>p DEF history, Ledger, PaidBeforeRecognition
  <1>1. ASSUME NEW t \in Tasks, NEW n \in 0 .. MaxImages, CreateTask(r, t, n)
        PROVE  Ledger'
    <2> DEFINE copy == [ status |-> "IMAGES_PENDING", worker |-> NoWorker,
                         images |-> n, processed |-> 0, result |-> FALSE ]
    <2>1. copy \in Row /\ copy.status \notin Recognised
      BY ConstantsAssumption DEF ConstantsAssumption, Row, Status, Recognised
    <2> HIDE DEF copy
    <2>2. /\ Accept(r, "create", [ Begin(r, "create", t, "insert", copy) EXCEPT
                                     !.client = quota[Owner[t]], !.loaded = TRUE ])
          /\ UNCHANGED history
      BY <1>1 DEF CreateTask, copy
    <2> QED BY <2>1, <2>2, <1>u, BeginLedger DEF OperationNames
  <1>2. ASSUME NEW t \in Tasks, NEW s \in Settable,
               NEW n \in 0 .. MaxImages, NEW m \in 0 .. MaxImages,
               UpdateTask(r, t, s, n, m)
        PROVE  Ledger'
    <2> DEFINE copy == [ status |-> s, worker |-> NoWorker, images |-> n,
                         processed |-> m, result |-> FALSE ]
    <2>1. s \in Status /\ copy \in Row /\ copy.status = s
      BY ConstantsAssumption DEF ConstantsAssumption, Row
    <2> HIDE DEF copy
    <2>2. Accept(r, "update", [ Begin(r, "update", t, "save", copy) EXCEPT
                                  !.client = quota[Owner[t]], !.loaded = TRUE ])
      BY <1>2 DEF UpdateTask, copy
    <2>3. /\ Monotone /\ granted' = granted /\ spent' = spent
          /\ s \in Recognised => t \in forced'
      BY <1>2, <1>f, <2>1 DEF UpdateTask
    <2> QED BY <2>1, <2>2, <2>3, BeginLedger DEF OperationNames
  <1>3. ASSUME NEW t \in Tasks, DeleteTask(r, t)
        PROVE  Ledger'
    <2>1. /\ row[t] \in Row
          /\ Accept(r, "delete", Begin(r, "delete", t, "delete", row[t]))
          /\ UNCHANGED history /\ Stored(t)
      BY <1>3, StoredType DEF DeleteTask
    <2> QED BY <2>1, <1>u, <1>p, BeginLedger DEF OperationNames
  <1>4. ASSUME NEW t \in Tasks, NEW w \in Workers, ReserveTask(r, t, w)
        PROVE  Ledger'
    <2>1. row[t] \in Row /\ Stored(t) /\ UNCHANGED history
      BY <1>4, StoredType DEF ReserveTask
    <2>2. /\ [row[t] EXCEPT !.worker = w] \in Row
          /\ [row[t] EXCEPT !.worker = w].status = row[t].status
      BY <2>1 DEF Row
    <2>3. Accept(r, "reserve",
                 Begin(r, "reserve", t, "save", [row[t] EXCEPT !.worker = w]))
      BY <1>4 DEF ReserveTask
    <2> QED BY <2>1, <2>2, <2>3, <1>u, <1>p, BeginLedger DEF OperationNames
  <1>5. ASSUME NEW t \in Tasks, ReportTaskStatus(r, t)
        PROVE  Ledger'
    <2>1. /\ row[t] \in Row
          /\ Accept(r, "report", Begin(r, "report", t, "save", row[t]))
          /\ UNCHANGED history /\ Stored(t)
      BY <1>5, StoredType DEF ReportTaskStatus
    <2> QED BY <2>1, <1>u, <1>p, BeginLedger DEF OperationNames
  <1>6. ASSUME NEW t \in Tasks, NEW n \in 0 .. MaxImages, FinishTask(r, t, n)
        PROVE  Ledger'
    <2>1. row[t] \in Row /\ Stored(t) /\ UNCHANGED history
      BY <1>6, StoredType DEF FinishTask
    <2>2. /\ Finished(row[t], n) \in Row
          /\ Finished(row[t], n).status \in Recognised => row[t].status \in Recognised
      BY <2>1 DEF Finished, Row, Status, Recognised
    <2>3. Accept(r, "finish", Begin(r, "finish", t, "save", Finished(row[t], n)))
      BY <1>6 DEF FinishTask
    <2> QED BY <2>1, <2>2, <2>3, <1>u, <1>p, BeginLedger DEF OperationNames
  <1>7. ASSUME NEW t \in Tasks, FinishTaskPanics(r, t)
        PROVE  Ledger'
    <2>1. /\ UNCHANGED history /\ row' = row /\ quota' = quota
          /\ \A s \in Requests : req'[s] = Idle
      BY <1>7 DEF FinishTaskPanics, AllIdle
    <2>2. SoundNow(r)' /\ ~ At(r, "edit")'
      BY <2>1 DEF SoundNow, Sound, At, Idle, TaskRequest
    <2>3. QuotaFloor' /\ NeverOvercharged' /\ PaidBeforeRecognition'
      BY <2>1, <1>u, TablesStay
    <2> QED BY <2>1, <2>2, <2>3, <1>u, LedgerStep
  <1>8. ASSUME NEW t \in Tasks, FailTask(r, t)
        PROVE  Ledger'
    <2>1. row[t] \in Row /\ Stored(t) /\ UNCHANGED history
      BY <1>8, StoredType DEF FailTask
    <2>2. /\ Failed(row[t]) \in Row
          /\ Failed(row[t]).status \in Recognised => row[t].status \in Recognised
      BY <2>1 DEF Failed, Row, Status, Recognised
    <2>3. Accept(r, "fail", Begin(r, "fail", t, "save", Failed(row[t])))
      BY <1>8 DEF FailTask
    <2> QED BY <2>1, <2>2, <2>3, <1>u, <1>p, BeginLedger DEF OperationNames
  <1>9. ASSUME NEW t \in Tasks, NEW s \in Settable, UpdateRecognitionTask(r, t, s)
        PROVE  Ledger'
    <2>1. row[t] \in Row /\ s \in Status
      BY <1>9, StoredType, ConstantsAssumption DEF ConstantsAssumption, UpdateRecognitionTask
    <2>2. /\ [row[t] EXCEPT !.status = s] \in Row
          /\ [row[t] EXCEPT !.status = s].status = s
      BY <2>1 DEF Row
    <2>3. Accept(r, "setStatus",
                 Begin(r, "setStatus", t, "save", [row[t] EXCEPT !.status = s]))
      BY <1>9 DEF UpdateRecognitionTask
    <2>4. /\ Monotone /\ granted' = granted /\ spent' = spent
          /\ s \in Recognised => t \in forced'
      BY <1>9, <1>f, <2>1 DEF UpdateRecognitionTask
    <2> QED BY <2>2, <2>3, <2>4, BeginLedger DEF OperationNames
  <1>10. ASSUME NEW c \in Clients, NEW q \in 1 .. MaxQuota, UpdateClient(r, c, q)
         PROVE  Ledger'
    <2> DEFINE edit == [pc |-> "edit", who |-> c, seen |-> quota[c], quota |-> q]
    <2>1. edit \in QuotaEdit /\ edit \notin TaskRequest
      BY DEF TypeOK, QuotaEdit, TaskRequest
    <2>2. Accept(r, "setQuota", edit) /\ UNCHANGED history /\ ~ NoEdits
      BY <1>10 DEF UpdateClient, Accept, NoEdits
    <2> HIDE DEF edit
    <2>3. Sound(edit, granted', spent', paid', forced')
      BY <2>1 DEF Sound
    <2> QED BY <2>1, <2>2, <2>3, <1>u, AcceptLedger DEF OperationNames
  <1> QED BY <1>1, <1>2, <1>3, <1>4, <1>5, <1>6, <1>7, <1>8, <1>9, <1>10 DEF Arrive

\* Steps that leave the history of quota and payments alone.
LEMMA HistoryStays ==
  ASSUME TypeOK, UNCHANGED <<granted, spent, paid, forced>>
  PROVE  Monotone
  BY DEF Monotone, TypeOK

\* Outside a deduction, what a request knows depends on its task, its copy and
\* its client only.
LEMMA SameKnowledge ==
  ASSUME NEW g, NEW s, NEW p, NEW f, NEW q \in TaskRequest, NEW q2,
         Sound(q, g, s, p, f), q.pc # "charge", q2.pc # "charge",
         q2.id = q.id, q2.copy = q.copy, q2.client = q.client, q2.loaded = q.loaded
  PROVE  Sound(q2, g, s, p, f)
  BY DEF Sound, Due

\* A write of a sound copy leaves the ledger balanced.
LEMMA WriteLedger ==
  ASSUME TypeOK, TypeOK', Ledger, NEW r \in Requests, req[r] \in TaskRequest, Write(r),
         req[r].pc # "charge",
         req' = [req EXCEPT ![r] = [req[r] EXCEPT !.pc = "process", !.nested = TRUE]]
  PROVE  Ledger'
  <1>1. Monotone
    BY HistoryStays DEF Write
  <1>2. QuotaFloor' /\ NeverOvercharged'
    BY DEF Write, Ledger, QuotaFloor, NeverOvercharged
  <1>3. req[r].copy.status \in Recognised => paid[req[r].id] > 0 \/ req[r].id \in forced
    BY DEF Ledger, SoundNow, Sound
  <1>4. PaidBeforeRecognition'
    BY <1>3 DEF Write, Ledger, PaidBeforeRecognition, TypeOK, TaskRequest
  <1> DEFINE q == [req[r] EXCEPT !.pc = "process", !.nested = TRUE]
  <1>5. /\ q.pc = "process" /\ q.id = req[r].id /\ q.copy = req[r].copy
        /\ q.client = req[r].client /\ q.loaded = req[r].loaded
    BY DEF TaskRequest
  <1>6. req'[r] = q /\ \A s \in Requests \ {r} : req'[s] = req[s]
    BY DEF TypeOK
  <1> HIDE DEF q
  <1>7. Sound(q, granted, spent, paid, forced)
    BY <1>5, SameKnowledge DEF Ledger, SoundNow
  <1>8. SoundNow(r)' /\ ~ At(r, "edit")'
    BY <1>5, <1>6, <1>7 DEF Write, SoundNow, At
  <1> QED BY <1>1, <1>2, <1>4, <1>6, <1>8, LedgerStep

\* No statement disturbs the ledger.
LEMMA StatementLedger ==
  ASSUME TypeOK, TypeOK', Ledger, NEW r \in Requests, Statement(r)
  PROVE  Ledger'
  <1>1. CASE InsertTask(r) \/ SaveTask(r) \/ ReinsertTask(r)
    <2>1. req[r] \in TaskRequest /\ req[r].pc # "charge"
      BY <1>1, Active DEF InsertTask, SaveTask, ReinsertTask, At
    <2> QED BY <1>1, <2>1, WriteLedger DEF InsertTask, SaveTask, ReinsertTask
  <1>2. CASE SaveMissesRow(r)
    <2>1. req[r] \in TaskRequest /\ req[r].pc # "charge"
      BY <1>2, Active DEF SaveMissesRow, At
    <2> DEFINE q == [req[r] EXCEPT !.pc = "process", !.nested = TRUE,
                                   !.inserts = req[r].inserts + 1]
    <2>2. /\ q.pc = "process" /\ q.id = req[r].id /\ q.copy = req[r].copy
          /\ q.client = req[r].client /\ q.loaded = req[r].loaded
      BY <2>1 DEF TaskRequest
    <2>3. req'[r] = q /\ \A s \in Requests \ {r} : req'[s] = req[s]
      BY <1>2 DEF SaveMissesRow, TypeOK
    <2> HIDE DEF q
    <2>4. UNCHANGED <<row, quota, granted, spent, paid, forced>>
      BY <1>2 DEF SaveMissesRow, history
    <2>5. Sound(q, granted, spent, paid, forced)
      BY <2>1, <2>2, SameKnowledge DEF Ledger, SoundNow
    <2>6. SoundNow(r)' /\ ~ At(r, "edit")'
      BY <2>2, <2>3, <2>4, <2>5 DEF SoundNow, At
    <2> QED BY <2>3, <2>4, <2>6, HistoryStays, TablesStay, LedgerStep
  <1>3. CASE RemoveTask(r)
    <2>1. Monotone
      BY <1>3, HistoryStays DEF RemoveTask
    <2>2. req'[r] = Idle /\ \A s \in Requests \ {r} : req'[s] = req[s]
      BY <1>3 DEF RemoveTask, TypeOK
    <2>3. QuotaFloor' /\ NeverOvercharged'
      BY <1>3 DEF RemoveTask, Ledger, QuotaFloor, NeverOvercharged
    <2>4. PaidBeforeRecognition'
      BY <1>3 DEF RemoveTask, Ledger, PaidBeforeRecognition, TypeOK, Deleted, Blank, Recognised
    <2>5. SoundNow(r)' /\ ~ At(r, "edit")'
      BY <2>2 DEF SoundNow, Sound, At, Idle, TaskRequest
    <2> QED BY <2>1, <2>2, <2>3, <2>4, <2>5, LedgerStep
  <1>4. CASE SaveClient(r)
    <2>1. req[r] \in QuotaEdit
      BY <1>4 DEF SaveClient, At, TypeOK, TaskRequest, Idle
    <2>2. req[r].who \in Clients /\ req[r].quota >= 1 /\ req[r].quota \in Int
      BY <2>1, ConstantsAssumption DEF ConstantsAssumption, QuotaEdit
    <2>3. ~ NoEdits
      BY <1>4 DEF SaveClient, Ledger
    <2>4. req'[r] = Idle /\ \A s \in Requests \ {r} : req'[s] = req[s]
      BY <1>4 DEF SaveClient, TypeOK
    <2>5. Monotone
      BY <1>4, <2>3 DEF Monotone, SaveClient, TypeOK
    <2>6. QuotaFloor'
      BY <1>4, <2>2, ConstantsAssumption
      DEF ConstantsAssumption, SaveClient, Ledger, QuotaFloor, TypeOK
    <2>7. NeverOvercharged'
      BY <2>3 DEF NeverOvercharged, NoEdits
    <2>8. PaidBeforeRecognition'
      BY <1>4 DEF SaveClient, Ledger, PaidBeforeRecognition
    <2>9. SoundNow(r)' /\ ~ At(r, "edit")'
      BY <2>4 DEF SoundNow, Sound, At, Idle, TaskRequest
    <2> QED BY <2>4, <2>5, <2>6, <2>7, <2>8, <2>9, LedgerStep
  <1> QED BY <1>1, <1>2, <1>3, <1>4 DEF Statement

\* The client that Process loads is the row's.
LEMMA LoadedSound ==
  ASSUME TypeOK, Ledger, NEW r \in Requests, req[r] \in TaskRequest, At(r, "process")
  PROVE  /\ Sound(Loaded(r), granted, spent, paid, forced)
         /\ Loaded(r).pc = "process"
         /\ Loaded(r).id = req[r].id
         /\ Loaded(r).copy = req[r].copy
  <1>1. /\ Loaded(r).pc = "process" /\ Loaded(r).id = req[r].id
        /\ Loaded(r).copy = req[r].copy
    BY DEF Loaded, At, TaskRequest
  <1>2. SoundNow(r)
    BY DEF Ledger
  <1>3. CASE Loaded(r) = req[r]
    BY <1>1, <1>2, <1>3 DEF SoundNow
  <1>4. CASE Loaded(r) # req[r]
    <2>1. Loaded(r).client = ClientQuota(r) /\ Loaded(r).loaded
      BY <1>4 DEF Loaded, TaskRequest
    <2>2. Owner[req[r].id] \in Clients
      BY ConstantsAssumption DEF ConstantsAssumption, TaskRequest
    <2>3. NoEdits => ClientQuota(r) >= granted[Owner[req[r].id]] - spent[Owner[req[r].id]]
      <3>1. CASE req[r].loaded
        BY <3>1, <1>2 DEF SoundNow, Sound, Due, At, ClientQuota, TaskRequest
      <3>2. CASE ~ req[r].loaded
        BY <3>2, <2>2 DEF ClientQuota, Ledger, NeverOvercharged, NoEdits
      <3> QED BY <3>1, <3>2
    <2>4. Due(Loaded(r)) = 0 /\ ClientQuota(r) \in Int
      BY <1>1, LoadedType DEF Due
    <2> QED BY <1>1, <1>2, <2>1, <2>3, <2>4 DEF Sound, SoundNow
  <1> QED BY <1>1, <1>3, <1>4

\* A step that leaves tables and history of payments alone and gives r a request
\* that is sound.
LEMMA GoOnLedger ==
  ASSUME TypeOK, TypeOK', Ledger, NEW r \in Requests,
         UNCHANGED <<row, quota, granted, spent, paid, forced>>,
         \A s \in Requests \ {r} : req'[s] \in {req[s], Idle},
         req'[r] = Idle \/ (/\ req'[r].pc # "edit"
                            /\ Sound(req'[r], granted, spent, paid, forced))
  PROVE  Ledger'
  <1>1. SoundNow(r)' /\ ~ At(r, "edit")'
    BY DEF SoundNow, Sound, At, Idle, TaskRequest
  <1> QED BY <1>1, HistoryStays, TablesStay, LedgerStep

\* A Process that ends, well or not, leaves the ledger balanced.
LEMMA ReturnLedger ==
  ASSUME TypeOK, TypeOK', Ledger, NEW r \in Requests, At(r, "process"),
         UNCHANGED <<row, quota, granted, spent, paid, forced>>,
         req' \in {Return(r), Panic(r), Abort(r)}
  PROVE  Ledger'
  <1>1. req[r] \in TaskRequest
    BY Active DEF At
  <1>2. \A s \in Requests \ {r} : req'[s] \in {req[s], Idle}
    BY <1>1, ReturnKeeps
  <1>3. /\ Sound(Loaded(r), granted, spent, paid, forced) /\ Loaded(r) \in TaskRequest
        /\ Loaded(r).pc = "process" /\ Loaded(r).id = req[r].id
        /\ Loaded(r).copy = req[r].copy
    BY <1>1, LoadedSound, LoadedType
  <1>4. CASE req'[r] \in {req[r], Idle}
    <2>1. Sound(req[r], granted, spent, paid, forced) /\ req[r].pc # "edit"
      BY DEF Ledger, SoundNow, At
    <2> QED BY <1>2, <1>4, <2>1, GoOnLedger
  <1>5. CASE /\ req'[r].pc \in {"reinsert", "process"}
             /\ req'[r].id = req[r].id
             /\ req'[r].copy = req[r].copy
             /\ req'[r].client = Loaded(r).client
             /\ req'[r].loaded = Loaded(r).loaded
    <2>1. Sound(req'[r], granted, spent, paid, forced)
      BY <1>3, <1>5, SameKnowledge
    <2> QED BY <1>2, <1>5, <2>1, GoOnLedger
  <1> QED BY <1>1, <1>4, <1>5, ReturnKeeps

\* A handler that only chooses the next status leaves the ledger balanced,
\* as long as it does not choose an unpaid status of the recognition phase.
LEMMA SetStatusLedger ==
  ASSUME TypeOK, TypeOK', Ledger, NEW r \in Requests, At(r, "process"),
         NEW s \in Status, SetStatus(r, s),
         s \in Recognised => req[r].copy.status \in Recognised
  PROVE  Ledger'
  <1>1. req[r] \in TaskRequest
    BY Active DEF At
  <1>2. /\ Sound(Loaded(r), granted, spent, paid, forced) /\ Loaded(r) \in TaskRequest
        /\ Loaded(r).pc = "process" /\ Loaded(r).id = req[r].id
        /\ Loaded(r).copy = req[r].copy
    BY <1>1, LoadedSound, LoadedType
  <1> DEFINE copy == [req[r].copy EXCEPT !.status = s]
             q == [Loaded(r) EXCEPT !.pc = "save", !.copy = copy]
  <1>3. copy.status = s
    BY <1>1 DEF TaskRequest, Row
  <1> HIDE DEF copy
  <1>4. /\ q.pc = "save" /\ q.id = Loaded(r).id /\ q.copy = copy
        /\ q.client = Loaded(r).client /\ q.loaded = Loaded(r).loaded
    BY <1>2 DEF TaskRequest
  <1>5. req'[r] = q /\ \A x \in Requests \ {r} : req'[x] = req[x]
    BY DEF SetStatus, Goto, TypeOK, copy
  <1> HIDE DEF q
  <1>6. Sound(q, granted, spent, paid, forced)
    BY <1>2, <1>3, <1>4 DEF Sound, Due
  <1>7. UNCHANGED <<row, quota, granted, spent, paid, forced>>
    BY DEF SetStatus, NoWrite, history
  <1> QED BY <1>4, <1>5, <1>6, <1>7, GoOnLedger

\* A handler has computed the quota to write.
LEMMA DeductionLedger ==
  ASSUME TypeOK, TypeOK', Ledger, NEW r \in Requests, At(r, "process"),
         req[r].copy.status \in {"READY_FOR_PROCESSING", "IMAGES_COMPLETED"},
         NEW n \in Int, n >= 1 - MaxImages,
         NoEdits =>
           n + (IF req[r].copy.status = "READY_FOR_PROCESSING"
                THEN req[r].copy.images ELSE 1)
             >= granted[Owner[req[r].id]] - spent[Owner[req[r].id]],
         req' = [req EXCEPT ![r] = [Loaded(r) EXCEPT !.pc = "charge", !.client = n]],
         NoWrite
  PROVE  Ledger'
  <1>1. req[r] \in TaskRequest
    BY Active DEF At
  <1>2. /\ Sound(Loaded(r), granted, spent, paid, forced) /\ Loaded(r) \in TaskRequest
        /\ Loaded(r).id = req[r].id /\ Loaded(r).copy = req[r].copy
    BY <1>1, LoadedSound, LoadedType
  <1>3. Loaded(r).loaded
    BY <1>1 DEF Loaded, Terminal, TaskRequest
  <1> DEFINE q == [Loaded(r) EXCEPT !.pc = "charge", !.client = n]
  <1>4. /\ q.pc = "charge" /\ q.id = req[r].id /\ q.copy = req[r].copy
        /\ q.client = n /\ q.loaded
    BY <1>2, <1>3 DEF TaskRequest
  <1>5. req'[r] = q /\ \A x \in Requests \ {r} : req'[x] = req[x]
    BY DEF TypeOK
  <1> HIDE DEF q
  <1>6. Sound(q, granted, spent, paid, forced)
    BY <1>2, <1>4 DEF Sound, Due, Recognised
  <1>7. UNCHANGED <<row, quota, granted, spent, paid, forced>>
    BY DEF NoWrite, history
  <1> QED BY <1>4, <1>5, <1>6, <1>7, GoOnLedger

\* A client is saved: its quota is the one the request computed, the deduction
\* it stands for is counted, and the request goes on to save its task.
LEMMA ChargeLedger ==
  ASSUME TypeOK, TypeOK', Ledger, NEW r \in Requests, At(r, "charge"),
         NEW n \in Nat, n = Due(req[r]), NEW s \in Status,
         row' = row, granted' = granted, forced' = forced,
         quota' = [quota EXCEPT ![Owner[req[r].id]] = req[r].client],
         spent' = [spent EXCEPT ![Owner[req[r].id]] = @ + n],
         \A t \in Tasks : paid[t] <= paid'[t],
         s \in Recognised => paid'[req[r].id] > 0,
         req' = Goto(r, "save", [req[r].copy EXCEPT !.status = s])
  PROVE  Ledger'
  <1>1. req[r] \in TaskRequest
    BY Active DEF At
  <1> DEFINE c == Owner[req[r].id]
  <1>2. c \in Clients /\ req[r].client \in Int
    BY <1>1, ConstantsAssumption DEF ConstantsAssumption, TaskRequest
  <1>3. /\ req[r].client >= 1 - MaxImages
        /\ req[r].loaded
        /\ req[r].copy.status \in {"READY_FOR_PROCESSING", "IMAGES_COMPLETED"}
        /\ NoEdits => req[r].client + n >= granted[c] - spent[c]
    BY <1>1 DEF Ledger, SoundNow, Sound, At
  <1>4. Monotone
    BY <1>2 DEF Monotone, TypeOK
  <1>5. spent'[c] = spent[c] + n /\ quota'[c] = req[r].client
    BY <1>2 DEF TypeOK
  <1>6. NoEdits => req[r].client >= granted'[c] - spent'[c]
    BY <1>2, <1>3, <1>5 DEF TypeOK
  <1>7. QuotaFloor'
    BY <1>2, <1>3 DEF QuotaFloor, Ledger, TypeOK
  <1>8. NeverOvercharged'
    BY <1>2, <1>5, <1>6 DEF NeverOvercharged, Ledger, TypeOK, NoEdits
  <1>9. PaidBeforeRecognition'
    BY DEF PaidBeforeRecognition, Ledger, TypeOK
  <1>10. Loaded(r) \in TaskRequest /\ Loaded(r).id = req[r].id
         /\ Loaded(r).client = req[r].client /\ Loaded(r).loaded
    <2>1. Loaded(r) = [req[r] EXCEPT !.client = req[r].client, !.loaded = TRUE]
      BY <1>3 DEF Loaded, ClientQuota, Terminal
    <2> QED BY <1>1, <2>1, LoadedType DEF TaskRequest
  <1> DEFINE copy == [req[r].copy EXCEPT !.status = s]
             q == [Loaded(r) EXCEPT !.pc = "save", !.copy = copy]
  <1>11. copy.status = s
    BY <1>1 DEF TaskRequest, Row
  <1> HIDE DEF copy
  <1>12. /\ q.pc = "save" /\ q.id = req[r].id /\ q.copy = copy
         /\ q.client = req[r].client /\ q.loaded
    BY <1>10 DEF TaskRequest
  <1>13. req'[r] = q /\ \A x \in Requests \ {r} : req'[x] = req[x]
    BY DEF Goto, TypeOK, copy
  <1> HIDE DEF q
  <1>14. SoundNow(r)' /\ ~ At(r, "edit")'
    <2>1. Due(q) = 0
      BY <1>12 DEF Due
    <2>2. Sound(q, granted', spent', paid', forced')
      BY <1>2, <1>6, <1>11, <1>12, <2>1 DEF Sound
    <2> QED BY <1>12, <1>13, <2>2 DEF SoundNow, At
  <1> QED BY <1>4, <1>7, <1>8, <1>9, <1>13, <1>14, LedgerStep

\* No handler of the state machine disturbs the ledger.
LEMMA ProcessLedger ==
  ASSUME TypeOK, TypeOK', Ledger, NEW r \in Requests, Process(r)
  PROVE  Ledger'
  <1>a. ASSUME At(r, "process") \/ At(r, "charge")
        PROVE  /\ req[r] \in TaskRequest
               /\ req[r].copy.images \in 0 .. MaxImages /\ MaxImages \in Nat
               /\ req[r].id \in Tasks /\ Owner[req[r].id] \in Clients
    <2>1. req[r] \in TaskRequest
      BY <1>a, Active DEF At
    <2> QED BY <2>1, ConstantsAssumption DEF ConstantsAssumption, TaskRequest, Row
  <1>1. CASE ProcessNothing(r)
    BY <1>1, ReturnLedger DEF ProcessNothing, NoWrite, history
  <1>2. CASE handlePending(r)
    BY <1>2, ReturnLedger DEF handlePending
  <1>3. CASE handleReadyForProcessing(r)
    <2>0. At(r, "process") /\ req[r].copy.status = "READY_FOR_PROCESSING"
      BY <1>3 DEF handleReadyForProcessing, Handles
    <2>1. CASE \/ SetStatus(r, "IMAGES_FAILED_PROCESSING")
               \/ SetStatus(r, "IMAGES_FAILED_QUOTA")
      BY <2>0, <2>1, SetStatusLedger DEF Status, Recognised
    <2>2. CASE /\ ClientQuota(r) > 0
               /\ req' = [req EXCEPT ![r] = [Loaded(r) EXCEPT
                            !.pc = "charge", !.client = @ - req[r].copy.images]]
               /\ NoWrite
      <3> DEFINE n == Loaded(r).client - req[r].copy.images
      <3>1. /\ Loaded(r) \in TaskRequest /\ Loaded(r).client \in Int
            /\ Loaded(r).client = ClientQuota(r) /\ Loaded(r).loaded
            /\ Loaded(r).pc = "process" /\ Loaded(r).id = req[r].id
        BY <2>0, <1>a, LoadedType DEF Loaded, ClientQuota, Terminal, At, TaskRequest
      <3>2. n \in Int /\ n >= 1 - MaxImages
        BY <2>0, <2>2, <3>1, <1>a
      <3>3. NoEdits =>
              Loaded(r).client >= granted[Owner[req[r].id]] - spent[Owner[req[r].id]]
        <4>1. Sound(Loaded(r), granted, spent, paid, forced) /\ Due(Loaded(r)) = 0
          BY <2>0, <1>a, <3>1, LoadedSound DEF Due
        <4> QED BY <3>1, <4>1 DEF Sound
      <3>4. NoEdits => n + req[r].copy.images
                         >= granted[Owner[req[r].id]] - spent[Owner[req[r].id]]
        BY <3>1, <3>3, <2>0, <1>a
      <3>5. req' = [req EXCEPT ![r] = [Loaded(r) EXCEPT !.pc = "charge", !.client = n]]
        BY <2>2
      <3> HIDE DEF n
      <3> QED BY <2>0, <2>2, <3>2, <3>4, <3>5, DeductionLedger
    <2> QED BY <1>3, <2>1, <2>2 DEF handleReadyForProcessing
  <1>4. CASE handleImagesProcessing(r)
    BY <1>4, SetStatusLedger DEF handleImagesProcessing, Handles, Status, Recognised
  <1>5. CASE handleImagesCompleted(r)
    <2>0. At(r, "process") /\ req[r].copy.status = "IMAGES_COMPLETED"
      BY <1>5 DEF handleImagesCompleted, Handles
    <2> DEFINE n == quota[Owner[req[r].id]] - 1
    <2>1. CASE SetStatus(r, "RECOGNITION_FAILED_QUOTA")
      BY <2>0, <2>1, SetStatusLedger DEF Status, Recognised
    <2>2. CASE /\ quota[Owner[req[r].id]] >= 1
               /\ req' = [req EXCEPT ![r] = [Loaded(r) EXCEPT
                            !.pc = "charge", !.client = quota[Owner[req[r].id]] - 1]]
               /\ NoWrite
      <3>1. quota[Owner[req[r].id]] \in Int
        BY <2>0, <1>a DEF TypeOK
      <3>2. n \in Int /\ n >= 1 - MaxImages
        BY <2>0, <2>2, <3>1, <1>a, ConstantsAssumption DEF ConstantsAssumption
      <3>3. NoEdits => n + 1 >= granted[Owner[req[r].id]] - spent[Owner[req[r].id]]
        BY <2>0, <1>a, <3>1 DEF Ledger, NeverOvercharged, NoEdits
      <3>4. req' = [req EXCEPT ![r] = [Loaded(r) EXCEPT !.pc = "charge", !.client = n]]
        BY <2>2
      <3> HIDE DEF n
      <3> QED BY <2>0, <2>2, <3>2, <3>3, <3>4, DeductionLedger
    <2> QED BY <1>5, <2>1, <2>2 DEF handleImagesCompleted
  <1>6. CASE handleRecognitionProcessing(r)
    BY <1>6, SetStatusLedger DEF handleRecognitionProcessing, Handles, Status, Recognised
  <1>7. CASE handleRecognitionCompleted(r)
    BY <1>7, SetStatusLedger DEF handleRecognitionCompleted, Handles, Status, Recognised
  <1>8. CASE FlattenPanics(r)
    BY <1>8, ReturnLedger DEF FlattenPanics, Handles, history
  <1>9. CASE ChargeImages(r)
    <2>1. At(r, "charge") /\ req[r].copy.status = "READY_FOR_PROCESSING"
      BY <1>9 DEF ChargeImages
    <2>2. Due(req[r]) = req[r].copy.images /\ Due(req[r]) \in Nat
      BY <2>1, <1>a DEF Due, At
    <2> DEFINE n == Due(req[r])
    <2>3. spent' = [spent EXCEPT ![Owner[req[r].id]] = @ + n]
      BY <1>9, <2>2 DEF ChargeImages
    <2>4. \A t \in Tasks : paid[t] <= paid'[t]
      BY <1>9 DEF ChargeImages, TypeOK
    <2> HIDE DEF n
    <2>5. n \in Nat /\ n = Due(req[r])
      BY <2>2 DEF n
    <2> QED BY <1>9, <2>1, <2>3, <2>4, <2>5, ChargeLedger DEF ChargeImages, Status, Recognised
  <1>10. CASE ChargeRecognition(r)
    <2>1. At(r, "charge") /\ req[r].copy.status = "IMAGES_COMPLETED"
      BY <1>10 DEF ChargeRecognition
    <2>2. Due(req[r]) = 1
      BY <2>1 DEF Due, At
    <2>3. /\ \A t \in Tasks : paid[t] <= paid'[t]
          /\ paid'[req[r].id] > 0
      BY <1>10, <2>1, <1>a DEF ChargeRecognition, TypeOK
    <2> QED BY <1>10, <2>1, <2>2, <2>3, ChargeLedger DEF ChargeRecognition, Status, Recognised
  <1> QED BY <1>1, <1>2, <1>3, <1>4, <1>5, <1>6, <1>7, <1>8, <1>9, <1>10 DEF Process

\* No failed statement, panic or crash disturbs the ledger.
LEMMA FaultLedger ==
  ASSUME TypeOK, TypeOK', Ledger,
         (\E r \in Requests : SaveFails(r) \/ StatementFails(r) \/ ProcessFails(r)) \/ Crash
  PROVE  Ledger'
  <1>1. ASSUME NEW r \in Requests, SaveFails(r)
        PROVE  Ledger'
    <2>1. req[r] \in TaskRequest /\ req[r].pc # "charge"
      BY <1>1, Active DEF SaveFails
    <2> DEFINE how == IF req[r].nested \/ req[r].failed = "panic" THEN "panic" ELSE "reply"
               q == [ req[r] EXCEPT !.pc = "process", !.nested = TRUE, !.inserts = 0,
                                    !.failed = how ]
    <2> HIDE DEF how
    <2>2. /\ q.pc = "process" /\ q.id = req[r].id /\ q.copy = req[r].copy
          /\ q.client = req[r].client /\ q.loaded = req[r].loaded
      BY <2>1 DEF TaskRequest
    <2>3. req' = [req EXCEPT ![r] = q] /\ UNCHANGED <<row, quota, started, history>>
      BY <1>1 DEF SaveFails, how
    <2> HIDE DEF q
    <2>4. req'[r] = q /\ \A s \in Requests \ {r} : req'[s] = req[s]
      BY <2>3 DEF TypeOK
    <2>5. Sound(q, granted, spent, paid, forced)
      BY <2>1, <2>2, SameKnowledge DEF Ledger, SoundNow
    <2> QED BY <2>2, <2>3, <2>4, <2>5, GoOnLedger DEF history
  <1>2. ASSUME NEW r \in Requests, ProcessFails(r)
        PROVE  Ledger'
    <2>1. req[r] \in TaskRequest
      BY <1>2, Active DEF ProcessFails, At
    <2>2. req' = Abort(r) /\ UNCHANGED <<row, quota, granted, spent, paid, forced>>
      BY <1>2 DEF ProcessFails, history
    <2>3. \A s \in Requests : req'[s] \in {req[s], Idle}
      BY <2>1, <2>2, ReturnKeeps
    <2>4. Sound(req[r], granted, spent, paid, forced) /\ req[r].pc # "edit"
      BY <1>2 DEF Ledger, SoundNow, ProcessFails, At
    <2> QED BY <2>2, <2>3, <2>4, GoOnLedger
  <1>3. CASE Crash
    <2>1. UNCHANGED <<row, quota, granted, spent, paid, forced>>
      BY <1>3 DEF Crash, history
    <2>2. \A r \in Requests : req'[r] = Idle
      BY <1>3 DEF Crash, AllIdle
    <2>3. Monotone
      BY <2>1, HistoryStays
    <2>4. QuotaFloor' /\ NeverOvercharged' /\ PaidBeforeRecognition'
      BY <2>1, <2>3, TablesStay
    <2>5. \A r \in Requests : SoundNow(r)' /\ ~ At(r, "edit")'
      BY <2>2 DEF SoundNow, Sound, At, Idle, TaskRequest
    <2> QED BY <2>4, <2>5 DEF Ledger
  <1>4. ASSUME NEW r \in Requests, StatementFails(r)
        PROVE  Ledger'
    <2>1. /\ UNCHANGED <<row, quota, granted, spent, paid, forced>>
          /\ req' = [req EXCEPT ![r] = Idle]
      BY <1>4 DEF StatementFails, history
    <2>2. req'[r] = Idle /\ \A s \in Requests \ {r} : req'[s] = req[s]
      BY <2>1 DEF TypeOK
    <2> QED BY <2>1, <2>2, GoOnLedger
  <1> QED BY <1>1, <1>2, <1>3, <1>4

\* The inductive invariant: however reads and writes of clients interleave,
\* every quota in the table or in a goroutine's hands is bounded by what was
\* granted and deducted, and every copy in recognition was paid for.
THEOREM LedgerHolds == Spec => []Ledger
  <1>1. TypeOK /\ TypeOK' /\ Ledger /\ [Next]_vars => Ledger'
    <2> SUFFICES ASSUME TypeOK, TypeOK', Ledger, [Next]_vars PROVE Ledger'
      OBVIOUS
    <2>1. ASSUME NEW r \in Requests, Arrive(r) PROVE Ledger'
      BY <2>1, ArriveLedger
    <2>2. ASSUME NEW r \in Requests, Step(r) PROVE Ledger'
      BY <2>2, StatementLedger, ProcessLedger DEF Step
    <2>3. CASE \/ \E r \in Requests : SaveFails(r) \/ StatementFails(r) \/ ProcessFails(r)
               \/ Crash
      BY <2>3, FaultLedger
    <2>4. CASE UNCHANGED vars
      BY <2>4 DEF vars, history, Ledger, QuotaFloor, NeverOvercharged,
                  PaidBeforeRecognition, SoundNow, At
    <2> QED BY <2>1, <2>2, <2>3, <2>4 DEF Next
  <1> QED BY <1>1, InitLedger, TypeCorrect, PTL DEF Spec

\* Whatever requests, crashes and failed statements interleave, a client is never
\* overdrawn by more than the images of one task less one.
THEOREM QuotaFloorHolds == Spec => []QuotaFloor
  <1>1. Ledger => QuotaFloor
    BY DEF Ledger
  <1> QED BY <1>1, LedgerHolds, PTL

\* Deductions that overwrite each other only ever leave the client more: without
\* edits by administrators the quota is at least the grant minus the deductions.
THEOREM NeverOverchargedHolds == Spec => []NeverOvercharged
  <1>1. Ledger => NeverOvercharged
    BY DEF Ledger
  <1> QED BY <1>1, LedgerHolds, PTL

\* No interleaving, crash or failed save lets a task into recognition before its
\* charge was written.
THEOREM PaidBeforeRecognitionHolds == Spec => []PaidBeforeRecognition
  <1>1. Ledger => PaidBeforeRecognition
    BY DEF Ledger
  <1> QED BY <1>1, LedgerHolds, PTL

-----------------------------------------------------------------------------
(* Announcements *)

\* Nothing has failed yet for the requests in progress.
NobodyFailed ==
  faults = 0 => \A r \in Requests : req[r] \in TaskRequest => req[r].failed = "no"

\* The inductive invariant: without it, Process might end the program, and with
\* it the goroutines that are about to publish.
Heralded == PendingAnnounced /\ NobodyFailed

\* The goroutine is to publish its task, whose row is as its copy says.
Publishes(r) ==
  /\ At(r, "process")
  /\ req[r].copy.status \in Pending
  /\ req[r].copy.status = row[req[r].id].status

\* Nobody fails in a step that gives one goroutine a request without failure.
LEMMA CalmStep ==
  ASSUME TypeOK, NobodyFailed, NEW r \in Requests, faults' = faults,
         \A s \in Requests \ {r} : req'[s] = req[s],
         faults = 0 /\ req'[r] \in TaskRequest => req'[r].failed = "no"
  PROVE  NobodyFailed'
  BY DEF NobodyFailed

\* A step that leaves the rows alone: the goroutine that takes it was not the
\* one that has to publish a pending task, or has published it.
LEMMA HeraldStep ==
  ASSUME TypeOK, Heralded, NEW r \in Requests, faults' = faults, row' = row,
         announced \subseteq announced',
         \A s \in Requests \ {r} : req'[s] = req[s],
         req'[r] \in TaskRequest => req'[r].failed = "no",
         ~ Publishes(r) \/ req[r].id \in announced'
  PROVE  Heralded'
  <1>1. NobodyFailed'
    BY DEF Heralded, NobodyFailed
  <1>2. ASSUME faults' = 0, NEW t \in Tasks, row'[t].status \in Pending,
               t \notin announced'
        PROVE  \E s \in Requests : /\ req'[s].pc = "process"
                                  /\ req'[s].id = t
                                  /\ req'[s].copy.status = row'[t].status
    <2>1. PICK s \in Requests : /\ At(s, "process")
                                /\ req[s].id = t
                                /\ req[s].copy.status = row[t].status
      BY <1>2 DEF Heralded, PendingAnnounced
    <2>2. s # r
      BY <1>2, <2>1 DEF Publishes
    <2> QED BY <1>2, <2>1, <2>2 DEF At
  <1> QED BY <1>1, <1>2 DEF Heralded, PendingAnnounced, At

\* A failure ends what PendingAnnounced promises.
LEMMA FaultHeralds ==
  ASSUME TypeOK, faults' = faults + 1
  PROVE  Heralded'
  BY DEF Heralded, PendingAnnounced, NobodyFailed, TypeOK

\* A goroutine that writes its copy is about to publish it.
LEMMA WriteHeralds ==
  ASSUME TypeOK, Heralded, NEW r \in Requests, req[r] \in TaskRequest,
         ~ At(r, "process"), Write(r),
         req' = [req EXCEPT ![r] = [req[r] EXCEPT !.pc = "process", !.nested = TRUE]]
  PROVE  Heralded'
  <1> DEFINE q == [req[r] EXCEPT !.pc = "process", !.nested = TRUE]
  <1>1. /\ q.pc = "process" /\ q.id = req[r].id /\ q.copy = req[r].copy
        /\ q.failed = req[r].failed
    BY DEF TaskRequest
  <1>2. req'[r] = q /\ \A s \in Requests \ {r} : req'[s] = req[s]
    BY DEF TypeOK
  <1> HIDE DEF q
  <1>3. req[r].id \in Tasks /\ faults' = faults
    BY DEF TaskRequest, Write
  <1>4. NobodyFailed'
    BY <1>1, <1>2, <1>3, CalmStep DEF Heralded, NobodyFailed
  <1>5. ASSUME faults' = 0, NEW t \in Tasks, row'[t].status \in Pending,
               t \notin announced'
        PROVE  \E s \in Requests : /\ req'[s].pc = "process"
                                  /\ req'[s].id = t
                                  /\ req'[s].copy.status = row'[t].status
    <2>1. CASE t = req[r].id
      <3>1. row'[t] = req[r].copy
        BY <2>1, <1>3 DEF Write, TypeOK
      <3> QED BY <2>1, <3>1, <1>1, <1>2
    <2>2. CASE t # req[r].id
      <3>1. row'[t] = row[t] /\ t \notin announced
        BY <2>2, <1>3, <1>5 DEF Write, TypeOK
      <3>2. PICK s \in Requests : /\ At(s, "process")
                                  /\ req[s].id = t
                                  /\ req[s].copy.status = row[t].status
        BY <1>3, <1>5, <3>1 DEF Heralded, PendingAnnounced
      <3>3. s # r
        BY <3>2
      <3> QED BY <1>2, <3>1, <3>2, <3>3 DEF At
    <2> QED BY <2>1, <2>2
  <1> QED BY <1>4, <1>5 DEF Heralded, PendingAnnounced, At

\* No statement leaves a pending task without somebody to publish it.
LEMMA StatementHeralds ==
  ASSUME TypeOK, Heralded, faults = 0, NEW r \in Requests, Statement(r)
  PROVE  Heralded'
  <1>1. CASE InsertTask(r) \/ SaveTask(r) \/ ReinsertTask(r)
    <2>1. req[r] \in TaskRequest /\ ~ At(r, "process")
      BY <1>1, Active DEF InsertTask, SaveTask, ReinsertTask, At
    <2> QED BY <1>1, <2>1, WriteHeralds DEF InsertTask, SaveTask, ReinsertTask
  <1>2. CASE SaveMissesRow(r)
    <2>1. req[r] \in TaskRequest /\ ~ At(r, "process")
      BY <1>2, Active DEF SaveMissesRow, At
    <2> DEFINE q == [req[r] EXCEPT !.pc = "process", !.nested = TRUE,
                                   !.inserts = req[r].inserts + 1]
    <2>2. q.failed = req[r].failed
      BY <2>1 DEF TaskRequest
    <2>3. req'[r] = q /\ \A s \in Requests \ {r} : req'[s] = req[s]
      BY <1>2 DEF SaveMissesRow, TypeOK
    <2> HIDE DEF q
    <2>4. faults' = faults /\ row' = row /\ announced' = announced
      BY <1>2 DEF SaveMissesRow, history
    <2>5. q.failed = "no" /\ ~ Publishes(r)
      BY <2>1, <2>2 DEF Heralded, NobodyFailed, Publishes
    <2> QED BY <2>3, <2>4, <2>5, HeraldStep
  <1>3. CASE RemoveTask(r)
    <2>1. /\ req'[r] = Idle /\ \A s \in Requests \ {r} : req'[s] = req[s]
          /\ faults' = faults /\ ~ At(r, "process")
      BY <1>3 DEF RemoveTask, TypeOK, At
    <2>2. NobodyFailed'
      BY <2>1, CalmStep DEF Heralded, Idle, TaskRequest
    <2>3. ASSUME faults' = 0, NEW t \in Tasks, row'[t].status \in Pending,
                 t \notin announced'
          PROVE  \E s \in Requests : /\ req'[s].pc = "process"
                                    /\ req'[s].id = t
                                    /\ req'[s].copy.status = row'[t].status
      <3>1. t # req[r].id /\ row'[t] = row[t] /\ t \notin announced
        BY <1>3, <2>3 DEF RemoveTask, TypeOK, Deleted, Blank, Pending
      <3>2. PICK s \in Requests : /\ At(s, "process")
                                  /\ req[s].id = t
                                  /\ req[s].copy.status = row[t].status
        BY <2>1, <2>3, <3>1 DEF Heralded, PendingAnnounced
      <3>3. s # r
        BY <2>1, <3>2
      <3> QED BY <2>1, <3>1, <3>2, <3>3 DEF At
    <2> QED BY <2>2, <2>3 DEF Heralded, PendingAnnounced, At
  <1>4. CASE SaveClient(r)
    <2>1. /\ req'[r] = Idle /\ \A s \in Requests \ {r} : req'[s] = req[s]
          /\ faults' = faults /\ row' = row /\ announced' = announced
          /\ ~ At(r, "process")
      BY <1>4 DEF SaveClient, TypeOK, At
    <2>2. Idle \notin TaskRequest /\ ~ Publishes(r)
      BY <2>1 DEF Idle, TaskRequest, Publishes
    <2> QED BY <2>1, <2>2, HeraldStep
  <1> QED BY <1>1, <1>2, <1>3, <1>4 DEF Statement

\* A request that arrives has nothing to publish and has not failed.
LEMMA ArriveHeralds ==
  ASSUME TypeOK, Heralded, faults = 0, NEW r \in Requests, Arrive(r)
  PROVE  Heralded'
  <1>1. ASSUME NEW op, NEW request, Accept(r, op, request), announced' = announced,
               request \in TaskRequest => request.failed = "no"
        PROVE  Heralded'
    <2>1. /\ req'[r] = request /\ \A s \in Requests \ {r} : req'[s] = req[s]
          /\ faults' = faults /\ row' = row /\ ~ Publishes(r)
      BY <1>1 DEF Accept, TypeOK, At, Publishes
    <2> QED BY <1>1, <2>1, HeraldStep
  <1>2. ASSUME NEW op, NEW t, NEW pc, NEW copy, NEW q
        PROVE  /\ Begin(r, op, t, pc, copy).failed = "no"
               /\ [ Begin(r, op, t, pc, copy) EXCEPT
                      !.client = q, !.loaded = TRUE ].failed = "no"
    BY DEF Begin
  <1>3. ASSUME NEW c, NEW seen, NEW q
        PROVE  [pc |-> "edit", who |-> c, seen |-> seen, quota |-> q] \notin TaskRequest
    BY DEF TaskRequest
  <1>4. ASSUME NEW t \in Tasks,
               \/ \E n \in 0 .. MaxImages : CreateTask(r, t, n)
               \/ \E s \in Settable, n, m \in 0 .. MaxImages : UpdateTask(r, t, s, n, m)
        PROVE  Heralded'
    <2>1. PICK op, pc, copy :
            /\ Accept(r, op, [ Begin(r, op, t, pc, copy) EXCEPT
                                 !.client = quota[Owner[t]], !.loaded = TRUE ])
            /\ announced' = announced
      BY <1>4 DEF CreateTask, UpdateTask, history
    <2> DEFINE request == [ Begin(r, op, t, pc, copy) EXCEPT
                              !.client = quota[Owner[t]], !.loaded = TRUE ]
    <2>2. request.failed = "no"
      BY <1>2
    <2>3. Accept(r, op, request)
      BY <2>1
    <2> HIDE DEF request
    <2> QED BY <2>1, <2>2, <2>3, <1>1
  <1>5. ASSUME NEW t \in Tasks,
               \/ DeleteTask(r, t)
               \/ \E w \in Workers : ReserveTask(r, t, w)
               \/ ReportTaskStatus(r, t)
               \/ \E n \in 0 .. MaxImages : FinishTask(r, t, n)
               \/ FailTask(r, t)
               \/ \E s \in Settable : UpdateRecognitionTask(r, t, s)
        PROVE  Heralded'
    <2>1. PICK op, pc, copy :
            Accept(r, op, Begin(r, op, t, pc, copy)) /\ announced' = announced
      BY <1>5 DEF DeleteTask, ReserveTask, ReportTaskStatus, FinishTask, FailTask,
                  UpdateRecognitionTask, history
    <2> QED BY <2>1, <1>1, <1>2
  <1>6. ASSUME NEW t \in Tasks, FinishTaskPanics(r, t) PROVE Heralded'
    BY <1>6, FaultHeralds DEF FinishTaskPanics
  <1>7. ASSUME NEW c \in Clients, NEW q \in 1 .. MaxQuota, UpdateClient(r, c, q)
        PROVE  Heralded'
    BY <1>7, <1>1, <1>3 DEF UpdateClient, history
  <1> QED BY <1>4, <1>5, <1>6, <1>7 DEF Arrive

\* While nothing failed, a Process that ends leaves the other goroutines alone.
LEMMA ReturnCalm ==
  ASSUME TypeOK, NEW r \in Requests, req[r] \in TaskRequest, req[r].failed = "no"
  PROVE  /\ \A s \in Requests \ {r} : Return(r)[s] = req[s]
         /\ Return(r)[r] \in TaskRequest => Return(r)[r].failed = "no"
  <1>1. Loaded(r) \in TaskRequest /\ Loaded(r).failed = "no"
    BY LoadedType DEF Loaded, TaskRequest
  <1> DEFINE q1 == [Loaded(r) EXCEPT !.pc = "reinsert", !.inserts = Loaded(r).inserts - 1]
             q2 == [Loaded(r) EXCEPT !.pc = "process", !.again = TRUE, !.nested = FALSE]
  <1>2. q1.failed = "no" /\ q2.failed = "no"
    BY <1>1 DEF TaskRequest
  <1> HIDE DEF q1, q2
  <1>3. \/ Return(r) = [req EXCEPT ![r] = q1]
        \/ Return(r) = [req EXCEPT ![r] = q2]
        \/ Return(r) = [req EXCEPT ![r] = Idle]
    BY <1>1 DEF Return, q1, q2
  <1> QED BY <1>2, <1>3 DEF TypeOK, Idle, TaskRequest

\* No handler of the state machine leaves a pending task unpublished.
LEMMA ProcessHeralds ==
  ASSUME TypeOK, Heralded, faults = 0, NEW r \in Requests, Process(r)
  PROVE  Heralded'
  <1>0. req[r] \in TaskRequest
    BY Active DEF Process, ProcessNothing, handlePending, handleReadyForProcessing,
         handleImagesProcessing, handleImagesCompleted, handleRecognitionProcessing,
         handleRecognitionCompleted, FlattenPanics, ChargeImages, ChargeRecognition,
         Handles, At
  <1>n. req[r].failed = "no"
    BY <1>0 DEF Heralded, NobodyFailed
  <1>a. Loaded(r) \in TaskRequest /\ Loaded(r).failed = req[r].failed
    BY <1>0, LoadedType DEF Loaded, TaskRequest
  <1>g. ASSUME NEW pc, NEW copy, req' = Goto(r, pc, copy), row' = row,
               faults' = faults, announced \subseteq announced',
               At(r, "charge") \/ req[r].copy.status \notin Pending
        PROVE  Heralded'
    <2> DEFINE q == [Loaded(r) EXCEPT !.pc = pc, !.copy = copy]
    <2>1. q.failed = req[r].failed
      BY <1>a DEF TaskRequest
    <2>2. req'[r] = q /\ \A s \in Requests \ {r} : req'[s] = req[s]
      BY <1>g DEF Goto, TypeOK
    <2> HIDE DEF q
    <2>3. ~ Publishes(r) /\ q.failed = "no"
      BY <1>g, <1>n, <2>1 DEF At, Publishes
    <2> QED BY <1>g, <2>2, <2>3, HeraldStep
  <1>c. ASSUME NEW n, row' = row, faults' = faults, announced' = announced,
               req' = [req EXCEPT ![r] = [Loaded(r) EXCEPT !.pc = "charge", !.client = n]],
               req[r].copy.status \notin Pending
        PROVE  Heralded'
    <2> DEFINE q == [Loaded(r) EXCEPT !.pc = "charge", !.client = n]
    <2>1. q.failed = req[r].failed
      BY <1>a DEF TaskRequest
    <2>2. req'[r] = q /\ \A s \in Requests \ {r} : req'[s] = req[s]
      BY <1>c DEF TypeOK
    <2> HIDE DEF q
    <2>3. ~ Publishes(r) /\ q.failed = "no"
      BY <1>c, <1>n, <2>1 DEF Publishes
    <2> QED BY <1>c, <2>2, <2>3, HeraldStep
  <1>1. CASE ProcessNothing(r)
    <2>1. /\ ~ Publishes(r) /\ req' = Return(r)
          /\ faults' = faults /\ row' = row /\ announced' = announced
      BY <1>1 DEF ProcessNothing, NoWrite, history, Terminal, Pending, Publishes
    <2>2. /\ \A s \in Requests \ {r} : req'[s] = req[s]
          /\ req'[r] \in TaskRequest => req'[r].failed = "no"
      BY <1>0, <1>n, <2>1, ReturnCalm
    <2> QED BY <2>1, <2>2, HeraldStep
  <1>2. CASE handlePending(r)
    <2>1. /\ req' = Return(r) /\ faults' = faults /\ row' = row
          /\ announced' = Announced(req[r].id, req[r].copy.status)
      BY <1>2 DEF handlePending
    <2>2. /\ announced \subseteq announced'
          /\ ~ Publishes(r) \/ req[r].id \in announced'
      BY <2>1 DEF Announced, Publishes
    <2>3. /\ \A s \in Requests \ {r} : req'[s] = req[s]
          /\ req'[r] \in TaskRequest => req'[r].failed = "no"
      BY <1>0, <1>n, <2>1, ReturnCalm
    <2> QED BY <2>1, <2>2, <2>3, HeraldStep
  <1>3. CASE handleReadyForProcessing(r)
    <2>1. req[r].copy.status \notin Pending
      BY <1>3 DEF handleReadyForProcessing, Handles, Pending
    <2>2. CASE \E s \in Status : SetStatus(r, s)
      BY <2>1, <2>2, <1>g DEF SetStatus, NoWrite, history
    <2>3. CASE /\ req' = [req EXCEPT ![r] = [Loaded(r) EXCEPT
                            !.pc = "charge", !.client = @ - req[r].copy.images]]
               /\ NoWrite
      BY <2>1, <2>3, <1>c DEF NoWrite, history
    <2> QED BY <1>3, <2>2, <2>3 DEF handleReadyForProcessing, Status
  <1>4. CASE \/ handleImagesProcessing(r) \/ handleRecognitionProcessing(r)
             \/ handleRecognitionCompleted(r)
    <2>1. req[r].copy.status \notin Pending
      BY <1>4 DEF handleImagesProcessing, handleRecognitionProcessing,
                  handleRecognitionCompleted, Handles, Pending
    <2>2. PICK s : SetStatus(r, s)
      BY <1>4 DEF handleImagesProcessing, handleRecognitionProcessing,
                  handleRecognitionCompleted
    <2> QED BY <2>1, <2>2, <1>g DEF SetStatus, NoWrite, history
  <1>5. CASE handleImagesCompleted(r)
    <2>1. req[r].copy.status \notin Pending
      BY <1>5 DEF handleImagesCompleted, Handles, Pending
    <2>2. CASE SetStatus(r, "RECOGNITION_FAILED_QUOTA")
      BY <2>1, <2>2, <1>g DEF SetStatus, NoWrite, history
    <2>3. CASE \E n : /\ req' = [req EXCEPT ![r] =
                                   [Loaded(r) EXCEPT !.pc = "charge", !.client = n]]
                      /\ NoWrite
      BY <2>1, <2>3, <1>c DEF NoWrite, history
    <2> QED BY <1>5, <2>2, <2>3 DEF handleImagesCompleted
  <1>6. CASE FlattenPanics(r)
    BY <1>6, FaultHeralds DEF FlattenPanics
  <1>7. CASE ChargeImages(r)
    BY <1>7, <1>g DEF ChargeImages
  <1>8. CASE ChargeRecognition(r)
    BY <1>8, <1>g DEF ChargeRecognition, Announced
  <1> QED BY <1>1, <1>2, <1>3, <1>4, <1>5, <1>6, <1>7, <1>8 DEF Process

\* A failure is not forgotten.
LEMMA FaultsOnlyGrow ==
  ASSUME TypeOK, [Next]_vars
  PROVE  faults' \in {faults, faults + 1} /\ (faults' = 0 => faults = 0)
  <1>1. ASSUME NEW r \in Requests, Arrive(r) PROVE faults' \in {faults, faults + 1}
    BY <1>1 DEF Arrive, CreateTask, UpdateTask, DeleteTask, ReserveTask, ReportTaskStatus,
                FinishTask, FinishTaskPanics, FailTask, UpdateRecognitionTask,
                UpdateClient, Accept
  <1>2. ASSUME NEW r \in Requests, Statement(r) PROVE faults' \in {faults, faults + 1}
    BY <1>2 DEF Statement, InsertTask, SaveTask, SaveMissesRow, ReinsertTask, RemoveTask,
                SaveClient, Write
  <1>3. ASSUME NEW r \in Requests, Process(r) PROVE faults' \in {faults, faults + 1}
    BY <1>3 DEF Process, ProcessNothing, handlePending, handleReadyForProcessing,
                handleImagesProcessing, handleImagesCompleted, handleRecognitionProcessing,
                handleRecognitionCompleted, FlattenPanics, ChargeImages, ChargeRecognition,
                SetStatus, NoWrite
  <1>4. faults' \in {faults, faults + 1}
    BY <1>1, <1>2, <1>3 DEF Next, Step, SaveFails, StatementFails, ProcessFails, Crash, vars
  <1> QED BY <1>4 DEF TypeOK

\* Whatever interleaves, and however stale the copies are that are saved, a task
\* that becomes pending is published afterwards, or is about to be, as long as
\* no statement failed and no program died: no task is forgotten by the machine.
THEOREM PendingIsAnnounced == Spec => []PendingAnnounced
  <1>1. Init => Heralded
    BY DEF Init, Heralded, PendingAnnounced, NobodyFailed, Blank, Pending, AllIdle,
           Idle, TaskRequest
  <1>2. TypeOK /\ Heralded /\ [Next]_vars => Heralded'
    <2> SUFFICES ASSUME TypeOK, Heralded, [Next]_vars, faults' = 0 PROVE Heralded'
      BY DEF Heralded, PendingAnnounced, NobodyFailed
    <2>0. faults = 0
      BY FaultsOnlyGrow
    <2>1. ASSUME NEW r \in Requests, Arrive(r) PROVE Heralded'
      BY <2>0, <2>1, ArriveHeralds
    <2>2. ASSUME NEW r \in Requests, Step(r) PROVE Heralded'
      BY <2>0, <2>2, StatementHeralds, ProcessHeralds DEF Step
    <2>3. CASE \/ \E r \in Requests : SaveFails(r) \/ StatementFails(r) \/ ProcessFails(r)
               \/ Crash
      BY <2>3, FaultHeralds DEF SaveFails, StatementFails, ProcessFails, Crash
    <2>4. CASE UNCHANGED vars
      BY <2>4 DEF vars, history, Heralded, PendingAnnounced, NobodyFailed, At
    <2> QED BY <2>1, <2>2, <2>3, <2>4 DEF Next
  <1>3. Heralded => PendingAnnounced
    BY DEF Heralded
  <1> QED BY <1>1, <1>2, <1>3, TypeCorrect, PTL DEF Spec

-----------------------------------------------------------------------------
(* One request at a time *)

\* Requests do not overlap: one goroutine serves them all. What follows has it
\* as a hypothesis; the run quota_lost_update shows a deduction that is lost
\* without it.
Serial == \A r, s \in Requests : r = s

\* How far a task with this status is.
StageOf(status) ==
  CASE status = "ABSENT" -> "absent"
    [] status = "DELETED" -> "deleted"
    [] status = "PROCESSING_COMPLETED" -> "completed"
    [] status \in Terminal \ {"PROCESSING_COMPLETED"} -> "failed"
    [] status \in Recognised \ Terminal -> "recognition"
    [] status = "READY_FOR_PROCESSING" -> "ready"
    [] status \in Status \ (Recognised \cup Terminal \cup {"READY_FOR_PROCESSING"}) -> "open"

\* The client a request holds, if it holds one, has the quota of its row, and a
\* deduction is computed from it.
Reads(q, amounts) ==
  /\ q \in QuotaEdit => q.seen = amounts[q.who]
  /\ q \in TaskRequest =>
       /\ q.loaded => q.client + Due(q) = amounts[Owner[q.id]]
       /\ q.pc = "charge" =>
            /\ q.loaded
            /\ amounts[Owner[q.id]] > 0
            /\ \/ q.copy.status = "READY_FOR_PROCESSING" /\ q.copy.images > 0
               \/ q.copy.status = "IMAGES_COMPLETED"

\* Where the copy of a worker's request may be when the row is at `old'.
Follows(new, old) ==
  \/ StageOf(new) = StageOf(old)
  \/ StageOf(new) = "failed" /\ StageOf(old) \in {"ready", "open", "recognition"}
  \/ StageOf(new) = "completed" /\ StageOf(old) = "recognition"
  \/ new = "IMAGES_PENDING" /\ StageOf(old) = "ready"
  \/ new = "RECOGNITION_PENDING" /\ StageOf(old) = "open"

\* A worker's copy is one step ahead of the row at most, and one that waits to be
\* saved as pending after a charge stands just before the phase it paid for.
Leads(q, status) ==
  /\ status \in Terminal => q.copy.status = status
  /\ Follows(q.copy.status, status)
  /\ q.pc = "save" /\ q.copy.status \in Pending =>
       StageOf(status) =
         IF ~ q.nested THEN StageOf(q.copy.status)
         ELSE IF q.copy.status = "IMAGES_PENDING" THEN "ready" ELSE "open"

\* Statuses that Process does not act on when the service calls it again: those
\* on which the hook's Process returned.
Settled == Terminal \cup Pending \cup {"CREATED", "UNKNOWN", "IMAGES_PROCESSING"}

\* A request and the row it works on, which nobody else writes or deletes.
Works(q, rows) ==
  q \in TaskRequest =>
    /\ q.inserts = 0 /\ q.pc # "reinsert" /\ q.op # "setQuota"
    /\ q.op = "delete" <=> q.pc = "delete"
    /\ q.pc = "insert" => q.op = "create" /\ rows[q.id] = Blank
    /\ q.op = "create" => q.pc \in {"insert", "process"} /\ q.copy.status = "IMAGES_PENDING"
    /\ q.op # "create" => rows[q.id].status \in Status
    /\ q.pc = "process" /\ ~ q.nested => q.copy.status \in Settled
    /\ q.pc = "charge" => q.nested
    /\ q.op \in Grpc => Leads(q, rows[q.id].status)

\* The inductive invariant of quotas, rows and requests.
Alone ==
  /\ QuotaAccounting
  /\ \A r \in Requests : Reads(req[r], quota) /\ Works(req[r], row)

-----------------------------------------------------------------------------
(* What a step does to the request that takes it *)

Unmoved == UNCHANGED <<row, quota, granted, spent, completed, paid>>

\* The same request, further on.
Carries(q, q2) ==
  /\ q2 \in TaskRequest
  /\ q2.op = q.op /\ q2.id = q.id /\ q2.inserts = q.inserts /\ q2.failed = q.failed

\* Its client is the one it had, or the row.
Knows(q, q2) ==
  q2.loaded => q2.client = IF q.loaded THEN q.client ELSE quota[Owner[q.id]]

\* A task request that has just arrived with its first read done.
Fresh(q) ==
  /\ ~ q.nested /\ q.inserts = 0 /\ q.failed = "no"
  /\ q.loaded => q.client = quota[Owner[q.id]]
  /\ \/ /\ q.op = "create" /\ q.pc = "insert"
        /\ row[q.id] = Blank /\ q.copy.status = "IMAGES_PENDING"
     \/ q.op = "delete" /\ q.pc = "delete" /\ Stored(q.id)
     \/ q.op \in {"update", "setStatus"} /\ q.pc = "save" /\ Stored(q.id)
     \/ /\ q.op \in Grpc /\ q.pc = "save" /\ Stored(q.id)
        /\ \/ q.copy.status = row[q.id].status
           \/ row[q.id].status = "IMAGES_PROCESSING" /\
                q.copy.status \in {"IMAGES_COMPLETED", "IMAGES_FAILED_PROCESSING"}
           \/ row[q.id].status = "RECOGNITION_PROCESSING" /\
                q.copy.status \in {"RECOGNITION_COMPLETED", "RECOGNITION_FAILED_PROCESSING"}

Arrives(q2) ==
  /\ Unmoved
  /\ \/ q2 \in QuotaEdit /\ q2.seen = quota[q2.who]
     \/ q2 \in TaskRequest /\ Fresh(q2)

\* Process returned on a status it leaves alone, or something failed.
Ends(q, q2) ==
  /\ Unmoved /\ q2 = Idle
  /\ faults' = faults + 1 \/ (q.pc = "process" /\ q.copy.status \in Settled)

\* A service calls Process itself, on the copy the hook left.
CallsAgain(q, q2) ==
  /\ Unmoved /\ Carries(q, q2) /\ Knows(q, q2)
  /\ q.pc = "process" /\ q2.pc = "process" /\ ~ q2.nested
  /\ q.op \in Reporting /\ q2.copy = q.copy /\ q.copy.status \in Settled

\* The statuses a handler of Process goes to.
Moves ==
  { <<"READY_FOR_PROCESSING", "IMAGES_FAILED_PROCESSING">>,
    <<"READY_FOR_PROCESSING", "IMAGES_FAILED_QUOTA">>,
    <<"IMAGES_PROCESSING", "IMAGES_FAILED_TIMEOUT">>,
    <<"IMAGES_PROCESSING", "IMAGES_COMPLETED">>,
    <<"IMAGES_COMPLETED", "RECOGNITION_FAILED_QUOTA">>,
    <<"RECOGNITION_PROCESSING", "RECOGNITION_FAILED_TIMEOUT">>,
    <<"RECOGNITION_PROCESSING", "RECOGNITION_COMPLETED">>,
    <<"RECOGNITION_COMPLETED", "PROCESSING_COMPLETED">> }

Chooses(q, q2) ==
  /\ Unmoved /\ Carries(q, q2) /\ Knows(q, q2)
  /\ q.pc = "process" /\ q2.pc = "save" /\ q2.nested = q.nested
  /\ <<q.copy.status, q2.copy.status>> \in Moves

\* What the deduction is computed from.
Base(q) ==
  IF q.copy.status = "READY_FOR_PROCESSING" /\ q.loaded THEN q.client
  ELSE quota[Owner[q.id]]

Deducts(q, q2) ==
  /\ Unmoved /\ Carries(q, q2)
  /\ q.pc = "process" /\ q2.pc = "charge" /\ q2.nested = q.nested
  /\ q2.copy = q.copy /\ q2.loaded
  /\ \/ q.copy.status = "READY_FOR_PROCESSING" /\ q.copy.images > 0
     \/ q.copy.status = "IMAGES_COMPLETED"
  /\ Base(q) > 0
  /\ q2.client = Base(q) - Due(q2)

Pays(q, q2) ==
  /\ UNCHANGED <<row, granted, completed>> /\ Carries(q, q2) /\ Knows(q, q2)
  /\ q.pc = "charge" /\ q2.pc = "save" /\ q2.nested = q.nested
  /\ quota' = [quota EXCEPT ![Owner[q.id]] = q.client]
  /\ spent' = [spent EXCEPT ![Owner[q.id]] = @ + Due(q)]
  /\ \/ /\ q.copy.status = "READY_FOR_PROCESSING"
        /\ q2.copy.status = "IMAGES_PENDING"
        /\ paid' = paid
     \/ /\ q.copy.status = "IMAGES_COMPLETED"
        /\ q2.copy.status = "RECOGNITION_PENDING"
        /\ paid' = [paid EXCEPT ![q.id] = @ + 1]

\* Its copy becomes the row, and the hook runs.
Writes(q, q2) ==
  /\ UNCHANGED <<quota, granted, spent, paid>> /\ Carries(q, q2)
  /\ q.pc \in {"insert", "save"} /\ q2.pc = "process" /\ q2.nested
  /\ q2.copy = q.copy /\ q2.loaded = q.loaded /\ q2.client = q.client
  /\ row' = [row EXCEPT ![q.id] = q.copy]
  /\ completed' =
       IF q.copy.status = "IMAGES_COMPLETED" /\ row[q.id].status # "IMAGES_COMPLETED"
       THEN [completed EXCEPT ![q.id] = @ + 1] ELSE completed

\* Its write fails, and the hook runs.
Misses(q, q2) ==
  /\ Unmoved /\ faults' = faults + 1
  /\ q2 \in TaskRequest
  /\ q2.op = q.op /\ q2.id = q.id /\ q2.inserts = 0
  /\ q.pc \in {"insert", "save"} /\ q2.pc = "process" /\ q2.nested
  /\ q2.copy = q.copy /\ q2.loaded = q.loaded /\ q2.client = q.client

Removes(q, q2) ==
  /\ UNCHANGED <<quota, granted, spent, completed, paid>>
  /\ q.pc = "delete" /\ q2 = Idle
  /\ row' = [row EXCEPT ![q.id] = Deleted]

Grants(q, q2) ==
  /\ UNCHANGED <<row, spent, completed, paid>>
  /\ q \in QuotaEdit /\ q2 = Idle
  /\ quota' = [quota EXCEPT ![q.who] = q.quota]
  /\ granted' = [granted EXCEPT ![q.who] = @ + q.quota - q.seen]

\* What a task request does.
Advances(q, q2) ==
  \/ Ends(q, q2)
  \/ CallsAgain(q, q2)
  \/ Chooses(q, q2)
  \/ Deducts(q, q2)
  \/ Pays(q, q2)
  \/ Writes(q, q2)
  \/ Misses(q, q2)
  \/ Removes(q, q2)

\* A request that has loaded its client is the same request.
LEMMA LoadedCarries ==
  ASSUME TypeOK, NEW r \in Requests, req[r] \in TaskRequest
  PROVE  /\ Carries(req[r], Loaded(r)) /\ Knows(req[r], Loaded(r))
         /\ Loaded(r).pc = req[r].pc /\ Loaded(r).copy = req[r].copy
         /\ Loaded(r).nested = req[r].nested
         /\ req[r].copy.status \notin Terminal =>
              Loaded(r).loaded /\ Loaded(r).client = ClientQuota(r)
  <1>1. Loaded(r) \in TaskRequest
    BY LoadedType
  <1>2. CASE req[r].copy.status \in Terminal
    <2>1. Loaded(r) = req[r]
      BY <1>2 DEF Loaded
    <2> QED BY <1>2, <2>1 DEF Carries, Knows, TaskRequest
  <1>3. CASE req[r].copy.status \notin Terminal
    <2>1. Loaded(r) = [req[r] EXCEPT !.client = ClientQuota(r), !.loaded = TRUE]
      BY <1>3 DEF Loaded
    <2> DEFINE n == ClientQuota(r)
    <2> HIDE DEF n
    <2>2. Loaded(r) = [req[r] EXCEPT !.client = n, !.loaded = TRUE]
      BY <2>1 DEF n
    <2>3. /\ Loaded(r).op = req[r].op /\ Loaded(r).id = req[r].id
          /\ Loaded(r).inserts = req[r].inserts /\ Loaded(r).failed = req[r].failed
          /\ Loaded(r).pc = req[r].pc /\ Loaded(r).copy = req[r].copy
          /\ Loaded(r).nested = req[r].nested
          /\ Loaded(r).loaded /\ Loaded(r).client = n
      BY <2>2 DEF TaskRequest
    <2> QED BY <1>1, <1>3, <2>3 DEF Carries, Knows, ClientQuota, n
  <1> QED BY <1>2, <1>3

\* A request that goes on, with its client loaded.
LEMMA GotoCarries ==
  ASSUME TypeOK, NEW r \in Requests, req[r] \in TaskRequest,
         NEW pc \in {"save", "charge"}, NEW copy \in Row, req' = Goto(r, pc, copy)
  PROVE  /\ Carries(req[r], req'[r]) /\ Knows(req[r], req'[r])
         /\ req'[r].pc = pc /\ req'[r].copy = copy
         /\ req'[r].nested = req[r].nested
  <1> DEFINE q == [Loaded(r) EXCEPT !.pc = pc, !.copy = copy]
  <1>1. Loaded(r) \in TaskRequest
    BY LoadedType
  <1>2. q \in TaskRequest
    BY <1>1 DEF TaskRequest
  <1>3. /\ q.op = Loaded(r).op /\ q.id = Loaded(r).id
        /\ q.inserts = Loaded(r).inserts /\ q.failed = Loaded(r).failed
        /\ q.pc = pc /\ q.copy = copy /\ q.nested = Loaded(r).nested
        /\ q.loaded = Loaded(r).loaded /\ q.client = Loaded(r).client
    BY <1>1 DEF TaskRequest
  <1>4. req'[r] = q
    BY DEF Goto, TypeOK
  <1> HIDE DEF q
  <1> QED BY <1>2, <1>3, <1>4, LoadedCarries DEF Carries, Knows

\* A Process that returns ends the request, or the service calls it once more.
LEMMA ReturnAdvances ==
  ASSUME TypeOK, NEW r \in Requests, req[r] \in TaskRequest, req[r].inserts = 0,
         At(r, "process"), req[r].copy.status \in Settled, req' = Return(r), Unmoved
  PROVE  Ends(req[r], req'[r]) \/ CallsAgain(req[r], req'[r])
  <1> DEFINE q == [Loaded(r) EXCEPT !.pc = "process", !.again = TRUE, !.nested = FALSE]
  <1>1. /\ Loaded(r) \in TaskRequest /\ Carries(req[r], Loaded(r))
        /\ Knows(req[r], Loaded(r)) /\ Loaded(r).copy = req[r].copy
    BY LoadedType, LoadedCarries
  <1>2. q \in TaskRequest
    BY <1>1 DEF TaskRequest
  <1>3. /\ q.op = Loaded(r).op /\ q.id = Loaded(r).id
        /\ q.inserts = Loaded(r).inserts /\ q.failed = Loaded(r).failed
        /\ q.pc = "process" /\ ~ q.nested /\ q.copy = Loaded(r).copy
        /\ q.loaded = Loaded(r).loaded /\ q.client = Loaded(r).client
    BY <1>1 DEF TaskRequest
  <1>4. \/ req'[r] = Idle
        \/ Loaded(r).op \in Reporting /\ req'[r] = q
    <2>1. Loaded(r).inserts = 0
      BY <1>1 DEF Carries
    <2> HIDE DEF q
    <2>2. \/ req' = Panic(r)
          \/ Loaded(r).op \in Reporting /\ req' = [req EXCEPT ![r] = q]
          \/ req' = [req EXCEPT ![r] = Idle]
      BY <2>1 DEF Return, q
    <2> QED BY <2>2 DEF Panic, AllIdle, TypeOK
  <1> HIDE DEF q
  <1>5. CASE req'[r] = Idle
    BY <1>5 DEF Ends, At
  <1>6. CASE Loaded(r).op \in Reporting /\ req'[r] = q
    BY <1>1, <1>2, <1>3, <1>6 DEF CallsAgain, Carries, Knows, At
  <1> QED BY <1>4, <1>5, <1>6

\* A goroutine that panics or aborts is gone.
LEMMA AbortEnds ==
  ASSUME TypeOK, NEW r \in Requests, Unmoved, faults' = faults + 1,
         req' \in {Panic(r), Abort(r), AllIdle}
  PROVE  Ends(req[r], req'[r])
  BY DEF Ends, Panic, Abort, AllIdle, TypeOK

\* A handler that chooses the next status.
LEMMA SetStatusChooses ==
  ASSUME TypeOK, NEW r \in Requests, At(r, "process"), NEW s \in Status,
         SetStatus(r, s), <<req[r].copy.status, s>> \in Moves
  PROVE  Chooses(req[r], req'[r])
  <1>1. req[r] \in TaskRequest
    BY Active DEF At
  <1> DEFINE copy == [req[r].copy EXCEPT !.status = s]
  <1>2. copy \in Row /\ copy.status = s
    BY <1>1 DEF TaskRequest, Row
  <1>3. req' = Goto(r, "save", copy) /\ Unmoved
    BY DEF SetStatus, NoWrite, history, Unmoved
  <1> HIDE DEF copy
  <1> QED BY <1>1, <1>2, <1>3, GotoCarries DEF Chooses, At

\* The request that has computed this quota to write.
Charging(r, n) == [Loaded(r) EXCEPT !.pc = "charge", !.client = n]

\* A handler that deducts from the quota it knows.
LEMMA ChargeDeducts ==
  ASSUME TypeOK, NEW r \in Requests, At(r, "process"), NoWrite,
         Base(req[r]) > 0, NEW n \in Int,
         \/ /\ req[r].copy.status = "READY_FOR_PROCESSING"
            /\ req[r].copy.images > 0
            /\ n = Base(req[r]) - req[r].copy.images
         \/ /\ req[r].copy.status = "IMAGES_COMPLETED"
            /\ n = Base(req[r]) - 1,
         req'[r] = Charging(r, n)
  PROVE  Deducts(req[r], req'[r])
  <1>1. req[r] \in TaskRequest
    BY Active DEF At
  <1>2. /\ Loaded(r) \in TaskRequest /\ Carries(req[r], Loaded(r))
        /\ Loaded(r).copy = req[r].copy /\ Loaded(r).nested = req[r].nested
        /\ Loaded(r).loaded
    BY <1>1, LoadedType, LoadedCarries DEF Terminal
  <1> DEFINE q == [Loaded(r) EXCEPT !.pc = "charge", !.client = n]
  <1>3. q \in TaskRequest
    BY <1>2 DEF TaskRequest
  <1>4. /\ q.op = Loaded(r).op /\ q.id = Loaded(r).id
        /\ q.inserts = Loaded(r).inserts /\ q.failed = Loaded(r).failed
        /\ q.pc = "charge" /\ q.copy = Loaded(r).copy /\ q.nested = Loaded(r).nested
        /\ q.loaded = Loaded(r).loaded /\ q.client = n
    BY <1>2 DEF TaskRequest
  <1>5. req'[r] = q /\ Unmoved
    BY DEF NoWrite, history, Unmoved, Charging
  <1> HIDE DEF q
  <1>6. q.client = Base(req[r]) - Due(q)
    BY <1>2, <1>4 DEF Due
  <1> QED BY <1>2, <1>3, <1>4, <1>5, <1>6 DEF Deducts, Carries, At

\* Every step of Process is one of these.
LEMMA ProcessAdvances ==
  ASSUME TypeOK, NEW r \in Requests, req[r] \in TaskRequest, req[r].inserts = 0, Process(r)
  PROVE  Advances(req[r], req'[r])
  <1>1. CASE ProcessNothing(r)
    <2>1. req[r].copy.status \in Settled /\ At(r, "process") /\ req' = Return(r)
      BY <1>1 DEF ProcessNothing, Settled
    <2>2. Unmoved
      BY <1>1 DEF ProcessNothing, NoWrite, history, Unmoved
    <2> QED BY <2>1, <2>2, ReturnAdvances DEF Advances
  <1>2. CASE handlePending(r)
    <2>1. req[r].copy.status \in Settled /\ At(r, "process") /\ req' = Return(r)
      BY <1>2 DEF handlePending, Settled
    <2>2. Unmoved
      BY <1>2 DEF handlePending, Unmoved
    <2> QED BY <2>1, <2>2, ReturnAdvances DEF Advances
  <1>3. CASE handleReadyForProcessing(r)
    <2>0. At(r, "process") /\ req[r].copy.status = "READY_FOR_PROCESSING"
      BY <1>3 DEF handleReadyForProcessing, Handles
    <2>1. CASE \/ SetStatus(r, "IMAGES_FAILED_PROCESSING")
               \/ SetStatus(r, "IMAGES_FAILED_QUOTA")
      BY <2>0, <2>1, SetStatusChooses DEF Moves, Status, Advances
    <2>2. CASE /\ req[r].copy.images > 0
               /\ ClientQuota(r) > 0
               /\ req' = [req EXCEPT ![r] = [Loaded(r) EXCEPT
                            !.pc = "charge", !.client = @ - req[r].copy.images]]
               /\ NoWrite
      <3> DEFINE n == Base(req[r]) - req[r].copy.images
      <3>1. /\ Loaded(r).client = ClientQuota(r) /\ ClientQuota(r) = Base(req[r])
            /\ Base(req[r]) \in Int
        BY <2>0, LoadedCarries, LoadedType DEF Base, ClientQuota, Terminal
      <3>2. req[r].copy.images \in Int
        BY DEF TaskRequest, Row
      <3>3. n \in Int
        BY <3>1, <3>2
      <3>4. req'[r] = Charging(r, n)
        BY <2>2, <3>1 DEF TypeOK, Charging
      <3>5. n = Base(req[r]) - req[r].copy.images
        OBVIOUS
      <3> HIDE DEF n
      <3>6. Base(req[r]) > 0
        BY <2>2, <3>1
      <3>7. Deducts(req[r], req'[r])
        BY <2>0, <2>2, <3>3, <3>4, <3>5, <3>6, ChargeDeducts
      <3> QED BY <3>7 DEF Advances
    <2> QED BY <1>3, <2>1, <2>2 DEF handleReadyForProcessing
  <1>4. CASE handleImagesProcessing(r)
    BY <1>4, SetStatusChooses DEF handleImagesProcessing, Handles, Moves, Status, Advances
  <1>5. CASE handleImagesCompleted(r)
    <2>0. At(r, "process") /\ req[r].copy.status = "IMAGES_COMPLETED"
      BY <1>5 DEF handleImagesCompleted, Handles
    <2>1. CASE SetStatus(r, "RECOGNITION_FAILED_QUOTA")
      BY <2>0, <2>1, SetStatusChooses DEF Moves, Status, Advances
    <2>2. CASE /\ quota[Owner[req[r].id]] >= 1
               /\ req' = [req EXCEPT ![r] = [Loaded(r) EXCEPT
                            !.pc = "charge", !.client = quota[Owner[req[r].id]] - 1]]
               /\ NoWrite
      <3> DEFINE n == Base(req[r]) - 1
      <3>1. Base(req[r]) = quota[Owner[req[r].id]] /\ Base(req[r]) \in Int
        BY <2>0, ConstantsAssumption DEF ConstantsAssumption, Base, TypeOK, TaskRequest
      <3>2. n \in Int /\ Base(req[r]) > 0
        BY <2>2, <3>1
      <3>3. req'[r] = Charging(r, n)
        BY <2>2, <3>1 DEF TypeOK, Charging
      <3>4. n = Base(req[r]) - 1
        OBVIOUS
      <3> HIDE DEF n
      <3>5. Deducts(req[r], req'[r])
        BY <2>0, <2>2, <3>2, <3>3, <3>4, ChargeDeducts
      <3> QED BY <3>5 DEF Advances
    <2> QED BY <1>5, <2>1, <2>2 DEF handleImagesCompleted
  <1>6. CASE handleRecognitionProcessing(r)
    BY <1>6, SetStatusChooses DEF handleRecognitionProcessing, Handles, Moves, Status, Advances
  <1>7. CASE handleRecognitionCompleted(r)
    BY <1>7, SetStatusChooses DEF handleRecognitionCompleted, Handles, Moves, Status, Advances
  <1>8. CASE FlattenPanics(r)
    BY <1>8, AbortEnds DEF FlattenPanics, history, Unmoved, Advances
  <1>9. CASE ChargeImages(r)
    <2>1. At(r, "charge") /\ req[r].copy.status = "READY_FOR_PROCESSING"
      BY <1>9 DEF ChargeImages
    <2> DEFINE copy == [req[r].copy EXCEPT !.status = "IMAGES_PENDING"]
    <2>2. copy \in Row /\ copy.status = "IMAGES_PENDING"
      BY DEF TaskRequest, Row, Status
    <2>3. req' = Goto(r, "save", copy)
      BY <1>9 DEF ChargeImages
    <2> HIDE DEF copy
    <2>4. Due(req[r]) = req[r].copy.images
      BY <2>1 DEF Due, At
    <2>5. /\ UNCHANGED <<row, granted, completed, paid>>
          /\ quota' = [quota EXCEPT ![Owner[req[r].id]] = req[r].client]
          /\ spent' = [spent EXCEPT ![Owner[req[r].id]] = @ + Due(req[r])]
      BY <1>9, <2>4 DEF ChargeImages
    <2> QED BY <2>1, <2>2, <2>3, <2>5, GotoCarries DEF Pays, Advances, At
  <1>10. CASE ChargeRecognition(r)
    <2>1. At(r, "charge") /\ req[r].copy.status = "IMAGES_COMPLETED"
      BY <1>10 DEF ChargeRecognition
    <2> DEFINE copy == [req[r].copy EXCEPT !.status = "RECOGNITION_PENDING"]
    <2>2. copy \in Row /\ copy.status = "RECOGNITION_PENDING"
      BY DEF TaskRequest, Row, Status
    <2>3. req' = Goto(r, "save", copy)
      BY <1>10 DEF ChargeRecognition
    <2> HIDE DEF copy
    <2>4. Due(req[r]) = 1
      BY <2>1 DEF Due, At
    <2>5. /\ UNCHANGED <<row, granted, completed>>
          /\ paid' = [paid EXCEPT ![req[r].id] = @ + 1]
          /\ quota' = [quota EXCEPT ![Owner[req[r].id]] = req[r].client]
          /\ spent' = [spent EXCEPT ![Owner[req[r].id]] = @ + Due(req[r])]
      BY <1>10, <2>4 DEF ChargeRecognition
    <2> QED BY <2>1, <2>2, <2>3, <2>5, GotoCarries DEF Pays, Advances, At
  <1> QED BY <1>1, <1>2, <1>3, <1>4, <1>5, <1>6, <1>7, <1>8, <1>9, <1>10 DEF Process

\* The request whose hook runs.
Hooked(q) == [q EXCEPT !.pc = "process", !.nested = TRUE]

\* A write goes on in the hook.
LEMMA WriteWrites ==
  ASSUME TypeOK, NEW r \in Requests, req[r] \in TaskRequest, Write(r),
         req[r].pc \in {"insert", "save"},
         req'[r] = Hooked(req[r])
  PROVE  Writes(req[r], req'[r])
  <1> DEFINE q == [req[r] EXCEPT !.pc = "process", !.nested = TRUE]
  <1>1. q \in TaskRequest
    BY DEF TaskRequest
  <1>2. /\ q.op = req[r].op /\ q.id = req[r].id /\ q.inserts = req[r].inserts
        /\ q.failed = req[r].failed /\ q.pc = "process" /\ q.nested
        /\ q.copy = req[r].copy /\ q.loaded = req[r].loaded /\ q.client = req[r].client
    BY DEF TaskRequest
  <1> HIDE DEF q
  <1>3. req'[r] = q
    BY DEF q, Hooked
  <1> QED BY <1>1, <1>2, <1>3 DEF Write, Writes, Carries

\* Every statement of a request whose row is there, and every failed statement,
\* is one of these.
LEMMA StatementAdvances ==
  ASSUME TypeOK, NEW r \in Requests, Works(req[r], row), Statement(r)
  PROVE  \/ req[r] \in TaskRequest /\ Advances(req[r], req'[r])
         \/ Grants(req[r], req'[r])
  <1>1. CASE InsertTask(r) \/ SaveTask(r)
    <2>1. req[r] \in TaskRequest /\ req[r].pc \in {"insert", "save"}
      BY <1>1, Active DEF InsertTask, SaveTask, At
    <2>2. Write(r) /\ req'[r] = Hooked(req[r])
      BY <1>1 DEF InsertTask, SaveTask, TypeOK, Hooked
    <2>3. Writes(req[r], req'[r])
      BY <2>1, <2>2, WriteWrites
    <2> QED BY <2>1, <2>3 DEF Advances
  <1>2. CASE SaveMissesRow(r) \/ ReinsertTask(r)
    <2>1. req[r] \in TaskRequest
      BY <1>2, Active DEF SaveMissesRow, ReinsertTask, At
    <2> QED BY <1>2, <2>1 DEF SaveMissesRow, ReinsertTask, At, Works, Stored
  <1>3. CASE RemoveTask(r)
    <2>1. req[r] \in TaskRequest
      BY <1>3, Active DEF RemoveTask, At
    <2> QED BY <1>3, <2>1 DEF RemoveTask, Removes, Advances, At, TypeOK
  <1>4. CASE SaveClient(r)
    <2>1. req[r] \in QuotaEdit
      BY <1>4 DEF SaveClient, At, TypeOK, TaskRequest, Idle
    <2> QED BY <1>4, <2>1 DEF SaveClient, Grants, TypeOK
  <1> QED BY <1>1, <1>2, <1>3, <1>4 DEF Statement

\* A failed statement, or an error of Process.
LEMMA FaultAdvances ==
  ASSUME TypeOK, NEW r \in Requests, SaveFails(r) \/ ProcessFails(r)
  PROVE  req[r] \in TaskRequest /\ Advances(req[r], req'[r])
  <1>0. req[r] \in TaskRequest
    BY Active DEF SaveFails, ProcessFails, At
  <1>1. CASE SaveFails(r)
    <2> DEFINE how == IF req[r].nested \/ req[r].failed = "panic" THEN "panic" ELSE "reply"
               q == [ req[r] EXCEPT !.pc = "process", !.nested = TRUE, !.inserts = 0,
                                    !.failed = how ]
    <2>1. how \in {"reply", "panic"}
      OBVIOUS
    <2> HIDE DEF how
    <2>2. q \in TaskRequest
      BY <1>0, <2>1 DEF TaskRequest
    <2>3. /\ q.op = req[r].op /\ q.id = req[r].id /\ q.inserts = 0
          /\ q.pc = "process" /\ q.nested /\ q.copy = req[r].copy
          /\ q.loaded = req[r].loaded /\ q.client = req[r].client
      BY <1>0 DEF TaskRequest
    <2>4. req' = [req EXCEPT ![r] = q]
      BY <1>1 DEF SaveFails, how
    <2> HIDE DEF q
    <2>5. req'[r] = q
      BY <2>4 DEF TypeOK
    <2>6. Unmoved /\ faults' = faults + 1 /\ req[r].pc \in {"insert", "save"}
      BY <1>1 DEF SaveFails, Unmoved, history
    <2> QED BY <1>0, <2>2, <2>3, <2>5, <2>6 DEF Misses, Advances
  <1>2. CASE ProcessFails(r)
    BY <1>0, <1>2, AbortEnds DEF ProcessFails, Unmoved, history, Advances
  <1> QED BY <1>0, <1>1, <1>2

\* The request that has read its client before it starts.
WithClient(q, n) == [q EXCEPT !.client = n, !.loaded = TRUE]

\* What a request starts with.
LEMMA BeginFields ==
  ASSUME NEW r \in Requests, NEW op \in OperationNames, NEW t \in Tasks,
         NEW pc \in {"insert", "save", "delete"}, NEW copy \in Row, NEW n \in Int,
         NEW q \in { Begin(r, op, t, pc, copy), WithClient(Begin(r, op, t, pc, copy), n) }
  PROVE  /\ q \in TaskRequest
         /\ q.op = op /\ q.id = t /\ q.pc = pc /\ q.copy = copy
         /\ ~ q.nested /\ q.inserts = 0 /\ q.failed = "no"
         /\ q.loaded => q.client = n
  <1> DEFINE plain == Begin(r, op, t, pc, copy)
             loaded == WithClient(plain, n)
  <1>1. plain \in TaskRequest /\ loaded \in TaskRequest
    <2>1. plain \in TaskRequest
      BY DEF Begin, TaskRequest
    <2> HIDE DEF plain
    <2> QED BY <2>1 DEF WithClient, TaskRequest
  <1>2. /\ plain.op = op /\ plain.id = t /\ plain.pc = pc /\ plain.copy = copy
        /\ ~ plain.nested /\ plain.inserts = 0 /\ plain.failed = "no" /\ ~ plain.loaded
    BY DEF Begin
  <1>3. /\ loaded.op = op /\ loaded.id = t /\ loaded.pc = pc /\ loaded.copy = copy
        /\ ~ loaded.nested /\ loaded.inserts = 0 /\ loaded.failed = "no"
        /\ loaded.client = n
    BY DEF Begin, WithClient
  <1> HIDE DEF plain, loaded
  <1>4. q = plain \/ q = loaded
    BY DEF plain, loaded
  <1> QED BY <1>1, <1>2, <1>3, <1>4

\* A request that is accepted is the goroutine's, and nothing else moves.
LEMMA AcceptArrives ==
  ASSUME TypeOK, NEW r \in Requests, NEW op, NEW q, Accept(r, op, q),
         UNCHANGED <<granted, spent, completed, paid>>,
         \/ q \in QuotaEdit /\ q.seen = quota[q.who]
         \/ q \in TaskRequest /\ Fresh(q)
  PROVE  At(r, "idle") /\ Arrives(req'[r])
  <1>1. At(r, "idle") /\ req'[r] = q /\ Unmoved
    BY DEF Accept, TypeOK, Unmoved
  <1> QED BY <1>1 DEF Arrives

\* Every handler starts with what it read or was sent; FinishTask may end the
\* program instead.
LEMMA ArriveArrives ==
  ASSUME TypeOK, NEW r \in Requests, Arrive(r)
  PROVE  At(r, "idle") /\ (Arrives(req'[r]) \/ Ends(req[r], req'[r]))
  <1>q. \A t \in Tasks : quota[Owner[t]] \in Int
    BY ConstantsAssumption DEF ConstantsAssumption, TypeOK
  <1>1. ASSUME NEW t \in Tasks, NEW n \in 0 .. MaxImages, CreateTask(r, t, n)
        PROVE  At(r, "idle") /\ Arrives(req'[r])
    <2> DEFINE copy == [ status |-> "IMAGES_PENDING", worker |-> NoWorker,
                         images |-> n, processed |-> 0, result |-> FALSE ]
               q == WithClient(Begin(r, "create", t, "insert", copy), quota[Owner[t]])
    <2>1. copy \in Row /\ copy.status = "IMAGES_PENDING"
      BY ConstantsAssumption DEF ConstantsAssumption, Row, Status
    <2>2. /\ Accept(r, "create", q) /\ row[t] = Blank
          /\ UNCHANGED <<granted, spent, completed, paid>>
      BY <1>1 DEF CreateTask, WithClient, history
    <2> HIDE DEF copy
    <2>3. /\ q \in TaskRequest /\ q.op = "create" /\ q.id = t /\ q.pc = "insert"
          /\ q.copy = copy /\ ~ q.nested /\ q.inserts = 0 /\ q.failed = "no"
          /\ q.loaded => q.client = quota[Owner[t]]
      BY <1>q, <2>1, BeginFields DEF OperationNames
    <2> HIDE DEF q
    <2>4. Fresh(q)
      BY <2>1, <2>2, <2>3 DEF Fresh
    <2> QED BY <2>2, <2>3, <2>4, AcceptArrives
  <1>2. ASSUME NEW t \in Tasks, NEW s \in Settable,
               NEW n \in 0 .. MaxImages, NEW m \in 0 .. MaxImages,
               UpdateTask(r, t, s, n, m)
        PROVE  At(r, "idle") /\ Arrives(req'[r])
    <2> DEFINE copy == [ status |-> s, worker |-> NoWorker, images |-> n,
                         processed |-> m, result |-> FALSE ]
               q == WithClient(Begin(r, "update", t, "save", copy), quota[Owner[t]])
    <2>1. copy \in Row
      BY ConstantsAssumption DEF ConstantsAssumption, Row
    <2>2. /\ Accept(r, "update", q) /\ Stored(t)
          /\ UNCHANGED <<granted, spent, completed, paid>>
      BY <1>2 DEF UpdateTask, WithClient
    <2> HIDE DEF copy
    <2>3. /\ q \in TaskRequest /\ q.op = "update" /\ q.id = t /\ q.pc = "save"
          /\ q.copy = copy /\ ~ q.nested /\ q.inserts = 0 /\ q.failed = "no"
          /\ q.loaded => q.client = quota[Owner[t]]
      BY <1>q, <2>1, BeginFields DEF OperationNames
    <2> HIDE DEF q
    <2>4. Fresh(q)
      BY <2>2, <2>3 DEF Fresh
    <2> QED BY <2>2, <2>3, <2>4, AcceptArrives
  <1>p. ASSUME NEW t \in Tasks, NEW op \in OperationNames, NEW pc \in {"save", "delete"},
               NEW copy \in Row, Accept(r, op, Begin(r, op, t, pc, copy)),
               UNCHANGED <<granted, spent, completed, paid>>, Stored(t),
               \/ op = "delete" /\ pc = "delete"
               \/ op = "setStatus" /\ pc = "save"
               \/ /\ op \in Grpc /\ pc = "save"
                  /\ \/ copy.status = row[t].status
                     \/ row[t].status = "IMAGES_PROCESSING" /\
                          copy.status \in {"IMAGES_COMPLETED", "IMAGES_FAILED_PROCESSING"}
                     \/ row[t].status = "RECOGNITION_PROCESSING" /\
                          copy.status \in {"RECOGNITION_COMPLETED",
                                           "RECOGNITION_FAILED_PROCESSING"}
        PROVE  At(r, "idle") /\ Arrives(req'[r])
    <2> DEFINE q == Begin(r, op, t, pc, copy)
    <2>1. /\ q \in TaskRequest /\ q.op = op /\ q.id = t /\ q.pc = pc
          /\ q.copy = copy /\ ~ q.nested /\ q.inserts = 0 /\ q.failed = "no"
          /\ q.loaded => q.client = quota[Owner[t]]
      BY <1>q, BeginFields
    <2> HIDE DEF q
    <2>2. Fresh(q)
      BY <1>p, <2>1 DEF Fresh
    <2>3. Accept(r, op, q)
      BY <1>p DEF q
    <2> QED BY <1>p, <2>1, <2>2, <2>3, AcceptArrives
  <1>3. ASSUME NEW t \in Tasks, DeleteTask(r, t)
        PROVE  At(r, "idle") /\ Arrives(req'[r])
    BY <1>3, <1>p, StoredType DEF DeleteTask, OperationNames, history
  <1>4. ASSUME NEW t \in Tasks, NEW w \in Workers, ReserveTask(r, t, w)
        PROVE  At(r, "idle") /\ Arrives(req'[r])
    <2> DEFINE copy == [row[t] EXCEPT !.worker = w]
    <2>1. copy \in Row /\ copy.status = row[t].status
      BY <1>4, StoredType DEF ReserveTask, Row
    <2>2. Accept(r, "reserve", Begin(r, "reserve", t, "save", copy))
      BY <1>4 DEF ReserveTask
    <2> HIDE DEF copy
    <2> QED BY <1>4, <2>1, <2>2, <1>p DEF ReserveTask, OperationNames, Grpc, history
  <1>5. ASSUME NEW t \in Tasks, ReportTaskStatus(r, t)
        PROVE  At(r, "idle") /\ Arrives(req'[r])
    BY <1>5, <1>p, StoredType DEF ReportTaskStatus, OperationNames, Grpc, history
  <1>6. ASSUME NEW t \in Tasks, NEW n \in 0 .. MaxImages, FinishTask(r, t, n)
        PROVE  At(r, "idle") /\ Arrives(req'[r])
    <2> DEFINE copy == Finished(row[t], n)
    <2>1. row[t] \in Row
      BY <1>6, StoredType DEF FinishTask
    <2>2. /\ copy \in Row
          /\ \/ copy.status = row[t].status
             \/ row[t].status = "IMAGES_PROCESSING" /\ copy.status = "IMAGES_COMPLETED"
             \/ row[t].status = "RECOGNITION_PROCESSING"
                  /\ copy.status = "RECOGNITION_COMPLETED"
      BY <2>1 DEF Finished, Row, Status
    <2>3. Accept(r, "finish", Begin(r, "finish", t, "save", copy))
      BY <1>6 DEF FinishTask
    <2> HIDE DEF copy
    <2> QED BY <1>6, <2>2, <2>3, <1>p DEF FinishTask, OperationNames, Grpc, history
  <1>7. ASSUME NEW t \in Tasks, FinishTaskPanics(r, t)
        PROVE  At(r, "idle") /\ Ends(req[r], req'[r])
    BY <1>7, AbortEnds DEF FinishTaskPanics, Unmoved, history
  <1>8. ASSUME NEW t \in Tasks, FailTask(r, t)
        PROVE  At(r, "idle") /\ Arrives(req'[r])
    <2> DEFINE copy == Failed(row[t])
    <2>1. row[t] \in Row
      BY <1>8, StoredType DEF FailTask
    <2>2. /\ copy \in Row
          /\ \/ copy.status = row[t].status
             \/ row[t].status = "IMAGES_PROCESSING"
                  /\ copy.status = "IMAGES_FAILED_PROCESSING"
             \/ row[t].status = "RECOGNITION_PROCESSING"
                  /\ copy.status = "RECOGNITION_FAILED_PROCESSING"
      BY <2>1 DEF Failed, Row, Status
    <2>3. Accept(r, "fail", Begin(r, "fail", t, "save", copy))
      BY <1>8 DEF FailTask
    <2> HIDE DEF copy
    <2> QED BY <1>8, <2>2, <2>3, <1>p DEF FailTask, OperationNames, Grpc, history
  <1>9. ASSUME NEW t \in Tasks, NEW s \in Settable, UpdateRecognitionTask(r, t, s)
        PROVE  At(r, "idle") /\ Arrives(req'[r])
    <2> DEFINE copy == [row[t] EXCEPT !.status = s]
    <2>1. copy \in Row
      BY <1>9, StoredType, ConstantsAssumption
      DEF ConstantsAssumption, UpdateRecognitionTask, Row
    <2>2. Accept(r, "setStatus", Begin(r, "setStatus", t, "save", copy))
      BY <1>9 DEF UpdateRecognitionTask
    <2> HIDE DEF copy
    <2> QED BY <1>9, <2>1, <2>2, <1>p DEF UpdateRecognitionTask, OperationNames
  <1>10. ASSUME NEW c \in Clients, NEW q \in 1 .. MaxQuota, UpdateClient(r, c, q)
         PROVE  At(r, "idle") /\ Arrives(req'[r])
    <2> DEFINE edit == [pc |-> "edit", who |-> c, seen |-> quota[c], quota |-> q]
    <2>1. edit \in QuotaEdit /\ edit.seen = quota[edit.who]
      BY DEF TypeOK, QuotaEdit
    <2>2. Accept(r, "setQuota", edit) /\ UNCHANGED <<granted, spent, completed, paid>>
      BY <1>10 DEF UpdateClient, history
    <2> HIDE DEF edit
    <2> QED BY <2>1, <2>2, AcceptArrives
  <1> QED BY <1>1, <1>2, <1>3, <1>4, <1>5, <1>6, <1>7, <1>8, <1>9, <1>10 DEF Arrive

\* Every step is a request's arrival, a request that goes on, a quota that is
\* saved, or the end of the program.
LEMMA StepKinds ==
  ASSUME TypeOK, \A r \in Requests : Works(req[r], row), Next
  PROVE  \/ \E r \in Requests :
              \/ At(r, "idle") /\ Arrives(req'[r])
              \/ ~ At(r, "process") /\ Ends(req[r], req'[r])
              \/ req[r] \in TaskRequest /\ Advances(req[r], req'[r])
              \/ Grants(req[r], req'[r])
         \/ Unmoved /\ faults' = faults + 1 /\ req' = AllIdle
  <1>1. ASSUME NEW r \in Requests, Arrive(r)
        PROVE  At(r, "idle") /\ (Arrives(req'[r]) \/ Ends(req[r], req'[r]))
    BY <1>1, ArriveArrives
  <1>2. ASSUME NEW r \in Requests, Statement(r)
        PROVE  \/ req[r] \in TaskRequest /\ Advances(req[r], req'[r])
               \/ Grants(req[r], req'[r])
    BY <1>2, StatementAdvances
  <1>3. ASSUME NEW r \in Requests, Process(r)
        PROVE  req[r] \in TaskRequest /\ Advances(req[r], req'[r])
    <2>1. req[r] \in TaskRequest
      BY <1>3, Active DEF Process, ProcessNothing, handlePending,
         handleReadyForProcessing, handleImagesProcessing, handleImagesCompleted,
         handleRecognitionProcessing, handleRecognitionCompleted, FlattenPanics,
         ChargeImages, ChargeRecognition, Handles, At
    <2>2. req[r].inserts = 0
      BY <2>1 DEF Works
    <2> QED BY <1>3, <2>1, <2>2, ProcessAdvances
  <1>4. ASSUME NEW r \in Requests, SaveFails(r) \/ ProcessFails(r)
        PROVE  req[r] \in TaskRequest /\ Advances(req[r], req'[r])
    BY <1>4, FaultAdvances
  <1>5. CASE Crash
    BY <1>5 DEF Crash, Unmoved, history
  <1>6. ASSUME NEW r \in Requests, StatementFails(r)
        PROVE  ~ At(r, "process") /\ Ends(req[r], req'[r])
    BY <1>6 DEF StatementFails, Ends, Unmoved, history, At, TypeOK
  <1>7. ASSUME NEW r \in Requests, At(r, "idle") PROVE ~ At(r, "process")
    BY <1>7 DEF At
  <1> QED BY <1>1, <1>2, <1>3, <1>4, <1>5, <1>6, <1>7 DEF Next, Step

-----------------------------------------------------------------------------
(* Quotas and rows of one request at a time *)

\* The stage of each status.
LEMMA Stages ==
  /\ StageOf("ABSENT") = "absent" /\ StageOf("DELETED") = "deleted"
  /\ StageOf("PROCESSING_COMPLETED") = "completed"
  /\ \A s \in Terminal \ {"PROCESSING_COMPLETED"} : StageOf(s) = "failed"
  /\ \A s \in {"RECOGNITION_PENDING", "RECOGNITION_PROCESSING", "RECOGNITION_COMPLETED"} :
       StageOf(s) = "recognition"
  /\ StageOf("READY_FOR_PROCESSING") = "ready"
  /\ \A s \in {"UNKNOWN", "CREATED", "IMAGES_PENDING", "IMAGES_PROCESSING",
               "IMAGES_COMPLETED"} : StageOf(s) = "open"
  <1>1. StageOf("ABSENT") = "absent" /\ StageOf("DELETED") = "deleted"
    BY DEF StageOf, Terminal, Recognised, Status
  <1>2. StageOf("PROCESSING_COMPLETED") = "completed"
    BY DEF StageOf, Terminal, Recognised, Status
  <1>3. ASSUME NEW s \in Terminal \ {"PROCESSING_COMPLETED"}
        PROVE  StageOf(s) = "failed"
    BY <1>3 DEF StageOf, Terminal, Recognised, Status
  <1>4. ASSUME NEW s \in {"RECOGNITION_PENDING", "RECOGNITION_PROCESSING",
                          "RECOGNITION_COMPLETED"}
        PROVE  StageOf(s) = "recognition"
    BY <1>4 DEF StageOf, Terminal, Recognised, Status
  <1>5. StageOf("READY_FOR_PROCESSING") = "ready"
    BY DEF StageOf, Terminal, Recognised, Status
  <1>6. ASSUME NEW s \in {"UNKNOWN", "CREATED", "IMAGES_PENDING", "IMAGES_PROCESSING",
                          "IMAGES_COMPLETED"}
        PROVE  StageOf(s) = "open"
    BY <1>6 DEF StageOf, Terminal, Recognised, Status
  <1> QED BY <1>1, <1>2, <1>3, <1>4, <1>5, <1>6

\* A handler of Process never goes back, and never from where a task has ended.
LEMMA MovesFollow ==
  ASSUME NEW old, NEW new, NEW status, <<old, new>> \in Moves, Follows(old, status),
         status \in Terminal => old = status
  PROVE  Follows(new, status) /\ status \notin Terminal /\ new \notin Pending
  <1>1. old \notin Terminal /\ old \notin Pending /\ new \notin Pending
    BY DEF Moves, Terminal, Pending
  <1>2. StageOf(old) \notin {"failed", "completed"} /\ StageOf(old) = StageOf(status)
    BY <1>1, Stages DEF Moves, Follows, Terminal, Pending
  <1>3. \/ StageOf(new) = StageOf(old)
        \/ StageOf(new) = "failed" /\ StageOf(old) \in {"ready", "open", "recognition"}
        \/ StageOf(new) = "completed" /\ StageOf(old) = "recognition"
    BY Stages DEF Moves, Terminal
  <1> QED BY <1>1, <1>2, <1>3 DEF Follows

\* What a worker's request starts with follows its row.
LEMMA FreshLeads ==
  ASSUME NEW q, NEW status \in Status, q.pc = "save", ~ q.nested,
         \/ q.copy.status = status
         \/ status = "IMAGES_PROCESSING" /\
              q.copy.status \in {"IMAGES_COMPLETED", "IMAGES_FAILED_PROCESSING"}
         \/ status = "RECOGNITION_PROCESSING" /\
              q.copy.status \in {"RECOGNITION_COMPLETED", "RECOGNITION_FAILED_PROCESSING"}
  PROVE  Leads(q, status)
  <1>1. CASE q.copy.status = status
    BY <1>1 DEF Leads, Follows
  <1>2. CASE status = "IMAGES_PROCESSING" /\
              q.copy.status \in {"IMAGES_COMPLETED", "IMAGES_FAILED_PROCESSING"}
    <2>1. StageOf(status) = "open" /\ StageOf(q.copy.status) \in {"open", "failed"}
      BY <1>2, Stages DEF Terminal
    <2> QED BY <1>2, <2>1 DEF Leads, Follows, Terminal, Pending
  <1>3. CASE status = "RECOGNITION_PROCESSING" /\
              q.copy.status \in {"RECOGNITION_COMPLETED", "RECOGNITION_FAILED_PROCESSING"}
    <2>1. StageOf(status) = "recognition"
          /\ StageOf(q.copy.status) \in {"recognition", "failed"}
      BY <1>3, Stages DEF Terminal
    <2> QED BY <1>3, <2>1 DEF Leads, Follows, Terminal, Pending
  <1> QED BY <1>1, <1>2, <1>3

\* A request that arrives knows the quota and the row.
LEMMA ArrivesAlone ==
  ASSUME TypeOK, NEW q2, Arrives(q2)
  PROVE  Reads(q2, quota') /\ Works(q2, row')
  <1>0. quota' = quota /\ row' = row
    BY DEF Arrives, Unmoved
  <1>1. CASE q2 \in QuotaEdit /\ q2.seen = quota[q2.who]
    BY <1>0, <1>1 DEF Reads, Works, QuotaEdit, TaskRequest
  <1>2. CASE q2 \in TaskRequest /\ Fresh(q2)
    <2>1. Reads(q2, quota)
      <3>1. q2 \notin QuotaEdit /\ q2.pc # "charge"
        BY <1>2 DEF Fresh, QuotaEdit, TaskRequest
      <3>2. Due(q2) = 0 /\ q2.client \in Int
        BY <1>2, <3>1 DEF Due, TaskRequest
      <3>3. q2.loaded => q2.client = quota[Owner[q2.id]]
        BY <1>2 DEF Fresh
      <3> QED BY <1>2, <3>1, <3>2, <3>3 DEF Reads
    <2>2. q2.op \in Grpc => Leads(q2, row[q2.id].status)
      <3> SUFFICES ASSUME q2.op \in Grpc PROVE Leads(q2, row[q2.id].status)
        OBVIOUS
      <3> DEFINE status == row[q2.id].status
      <3>1. /\ q2.pc = "save" /\ ~ q2.nested /\ status \in Status
            /\ \/ q2.copy.status = status
               \/ status = "IMAGES_PROCESSING" /\
                    q2.copy.status \in {"IMAGES_COMPLETED", "IMAGES_FAILED_PROCESSING"}
               \/ status = "RECOGNITION_PROCESSING" /\
                    q2.copy.status \in {"RECOGNITION_COMPLETED",
                                        "RECOGNITION_FAILED_PROCESSING"}
        BY <1>2 DEF Fresh, Grpc, Stored
      <3> HIDE DEF status
      <3>2. Leads(q2, status)
        BY <3>1, FreshLeads
      <3> QED BY <3>2 DEF status
    <2>3. Works(q2, row)
      BY <1>2, <2>2 DEF Works, Fresh, Grpc, Stored
    <2> QED BY <1>0, <2>1, <2>3
  <1> QED BY <1>1, <1>2 DEF Arrives

\* What a request that goes on knows of its client.
LEMMA AdvancesReads ==
  ASSUME TypeOK, NEW r \in Requests, NEW q, q = req[r], NEW q2, q2 = req'[r],
         q \in TaskRequest, Reads(q, quota), Advances(q, q2)
  PROVE  Reads(q2, quota')
  <1>0. /\ q.id \in Tasks /\ Owner[q.id] \in Clients /\ quota[Owner[q.id]] \in Int
        /\ q.client \in Int /\ Due(q) \in Int
    BY ConstantsAssumption DEF ConstantsAssumption, TaskRequest, TypeOK, Due, Row
  <1>e. ASSUME q2 = Idle PROVE Reads(q2, quota')
    BY <1>e DEF Reads, Idle, TaskRequest, QuotaEdit
  <1>k. ASSUME q2 \in TaskRequest, q2.pc # "charge", quota' = quota, q2.id = q.id,
               q.pc # "charge", q2.loaded => q2.client = quota[Owner[q.id]]
        PROVE  Reads(q2, quota')
    <2>1. q2 \notin QuotaEdit /\ Due(q2) = 0 /\ q2.client \in Int
      BY <1>k DEF QuotaEdit, TaskRequest, Due
    <2> QED BY <1>k, <2>1 DEF Reads
  <1>c. q.loaded /\ q.pc # "charge" => q.client = quota[Owner[q.id]]
    BY <1>0 DEF Reads, Due
  <1>1. CASE Ends(q, q2) \/ Removes(q, q2)
    BY <1>1, <1>e DEF Ends, Removes
  <1>2. CASE CallsAgain(q, q2) \/ Chooses(q, q2)
    <2>1. /\ q2 \in TaskRequest /\ q2.pc # "charge" /\ quota' = quota /\ q2.id = q.id
          /\ q.pc # "charge" /\ Knows(q, q2)
      BY <1>2 DEF CallsAgain, Chooses, Unmoved, Carries
    <2> QED BY <1>c, <1>k, <2>1 DEF Knows
  <1>3. CASE Writes(q, q2) \/ Misses(q, q2)
    <2>1. /\ q2 \in TaskRequest /\ q2.pc # "charge" /\ quota' = quota /\ q2.id = q.id
          /\ q.pc # "charge" /\ q2.loaded = q.loaded /\ q2.client = q.client
      BY <1>3 DEF Writes, Misses, Unmoved, Carries
    <2> QED BY <1>c, <1>k, <2>1
  <1>4. CASE Deducts(q, q2)
    <2>1. /\ q2 \in TaskRequest /\ q2.pc = "charge" /\ q2.id = q.id /\ q2.loaded
          /\ quota' = quota /\ q2.copy = q.copy /\ q.pc # "charge"
      BY <1>4 DEF Deducts, Unmoved, Carries
    <2>2. Base(q) = quota[Owner[q.id]]
      BY <1>c, <2>1 DEF Base
    <2>3. q2 \notin QuotaEdit /\ q2.client \in Int /\ Due(q2) \in Int
      BY <2>1 DEF QuotaEdit, TaskRequest, Due, Row
    <2>4. /\ q2.client + Due(q2) = quota[Owner[q2.id]]
          /\ quota[Owner[q2.id]] > 0
      BY <1>0, <1>4, <2>1, <2>2, <2>3 DEF Deducts
    <2>5. \/ q2.copy.status = "READY_FOR_PROCESSING" /\ q2.copy.images > 0
          \/ q2.copy.status = "IMAGES_COMPLETED"
      BY <1>4, <2>1 DEF Deducts
    <2> QED BY <2>1, <2>3, <2>4, <2>5 DEF Reads
  <1>5. CASE Pays(q, q2)
    <2>1. /\ q2 \in TaskRequest /\ q2.pc # "charge" /\ q2.id = q.id
          /\ quota' = [quota EXCEPT ![Owner[q.id]] = q.client]
          /\ Knows(q, q2) /\ q.pc = "charge"
      BY <1>5 DEF Pays, Carries
    <2>2. q.loaded /\ q2 \notin QuotaEdit /\ Due(q2) = 0 /\ q2.client \in Int
      BY <2>1 DEF Reads, QuotaEdit, TaskRequest, Due
    <2>3. quota'[Owner[q2.id]] = q.client
      BY <1>0, <2>1 DEF TypeOK
    <2> QED BY <2>1, <2>2, <2>3 DEF Reads, Knows
  <1> QED BY <1>1, <1>2, <1>3, <1>4, <1>5 DEF Advances

\* A request that goes on still works on a row nobody else touched.
LEMMA AdvancesWorks ==
  ASSUME TypeOK, TypeOK', NEW r \in Requests, NEW q, q = req[r], NEW q2, q2 = req'[r],
         q \in TaskRequest, Reads(q, quota), Works(q, row), Advances(q, q2)
  PROVE  Works(q2, row')
  <1>0. q.id \in Tasks /\ q.copy \in Row
    BY DEF TaskRequest
  <1>e. ASSUME q2 = Idle PROVE Works(q2, row')
    BY <1>e DEF Works, Idle, TaskRequest
  <1>1. CASE Ends(q, q2) \/ Removes(q, q2)
    BY <1>1, <1>e DEF Ends, Removes
  <1>2. CASE CallsAgain(q, q2)
    <2>1. /\ q2.op = q.op /\ q2.id = q.id /\ q2.inserts = q.inserts /\ row' = row
          /\ q.pc = "process" /\ q2.pc = "process" /\ q2.copy = q.copy
          /\ q.op \in Reporting /\ q.copy.status \in Settled
      BY <1>2 DEF CallsAgain, Carries, Unmoved
    <2>2. q.op \notin {"create", "delete"}
      BY <2>1 DEF Reporting
    <2>3. q.op \in Grpc => Leads(q2, row[q.id].status)
      BY <2>1 DEF Works, Leads
    <2> QED BY <2>1, <2>2, <2>3 DEF Works
  <1>3. CASE Chooses(q, q2)
    <2>1. /\ q2.op = q.op /\ q2.id = q.id /\ q2.inserts = q.inserts /\ row' = row
          /\ q.pc = "process" /\ q2.pc = "save"
          /\ <<q.copy.status, q2.copy.status>> \in Moves
      BY <1>3 DEF Chooses, Carries, Unmoved
    <2>2. q.op \notin {"create", "delete"}
      BY <2>1 DEF Works, Moves
    <2>3. q.op \in Grpc => Leads(q2, row[q.id].status)
      <3> SUFFICES ASSUME q.op \in Grpc PROVE Leads(q2, row[q.id].status)
        OBVIOUS
      <3> DEFINE status == row[q.id].status
      <3>1. /\ Follows(q.copy.status, status)
            /\ status \in Terminal => q.copy.status = status
        BY DEF Works, Leads
      <3> HIDE DEF status
      <3>2. /\ Follows(q2.copy.status, status) /\ status \notin Terminal
            /\ q2.copy.status \notin Pending
        BY <2>1, <3>1, MovesFollow
      <3>3. Leads(q2, status)
        BY <3>2 DEF Leads
      <3> QED BY <3>3 DEF status
    <2> QED BY <2>1, <2>2, <2>3 DEF Works
  <1>4. CASE Deducts(q, q2)
    <2>1. /\ q2.op = q.op /\ q2.id = q.id /\ q2.inserts = q.inserts /\ row' = row
          /\ q.pc = "process" /\ q2.pc = "charge" /\ q2.copy = q.copy
          /\ q2.nested = q.nested
          /\ q.copy.status \in {"READY_FOR_PROCESSING", "IMAGES_COMPLETED"}
      BY <1>4 DEF Deducts, Carries, Unmoved
    <2>2. q.op \notin {"create", "delete"} /\ q.nested
      BY <2>1 DEF Works, Settled, Terminal, Pending
    <2>3. q.op \in Grpc => Leads(q2, row[q.id].status)
      BY <2>1 DEF Works, Leads
    <2> QED BY <2>1, <2>2, <2>3 DEF Works
  <1>5. CASE Pays(q, q2)
    <2>1. /\ q2.op = q.op /\ q2.id = q.id /\ q2.inserts = q.inserts /\ row' = row
          /\ q.pc = "charge" /\ q2.pc = "save" /\ q2.nested = q.nested
          /\ \/ q.copy.status = "READY_FOR_PROCESSING" /\ q2.copy.status = "IMAGES_PENDING"
             \/ q.copy.status = "IMAGES_COMPLETED" /\ q2.copy.status = "RECOGNITION_PENDING"
      BY <1>5 DEF Pays, Carries
    <2>2. q.op \notin {"create", "delete"} /\ q.nested
      BY <2>1 DEF Works
    <2>3. q.op \in Grpc => Leads(q2, row[q.id].status)
      <3> SUFFICES ASSUME q.op \in Grpc PROVE Leads(q2, row[q.id].status)
        OBVIOUS
      <3> DEFINE status == row[q.id].status
      <3>1. /\ Follows(q.copy.status, status)
            /\ status \in Terminal => q.copy.status = status
        BY DEF Works, Leads
      <3> HIDE DEF status
      <3>2. status \notin Terminal /\ StageOf(status) = StageOf(q.copy.status)
        BY <2>1, <3>1, Stages DEF Follows, Terminal
      <3>3. Leads(q2, status)
        BY <2>1, <2>2, <3>2, Stages DEF Leads, Follows
      <3> QED BY <3>3 DEF status
    <2> QED BY <2>1, <2>2, <2>3 DEF Works
  <1>6. CASE Writes(q, q2)
    <2>1. /\ q2.op = q.op /\ q2.id = q.id /\ q2.inserts = q.inserts
          /\ q.pc \in {"insert", "save"} /\ q2.pc = "process" /\ q2.nested
          /\ q2.copy = q.copy /\ row' = [row EXCEPT ![q.id] = q.copy]
      BY <1>6 DEF Writes, Carries
    <2>2. row'[q.id] = q.copy
      BY <1>0, <2>1 DEF TypeOK
    <2>3. Leads(q2, q.copy.status)
      BY <2>1 DEF Leads, Follows
    <2>4. q.op # "delete" /\ q.copy.status \in Status
      BY <1>0, <2>1 DEF Works, Row
    <2> QED BY <2>1, <2>2, <2>3, <2>4 DEF Works
  <1>7. CASE Misses(q, q2)
    <2>1. /\ q2.op = q.op /\ q2.id = q.id /\ q2.inserts = 0 /\ row' = row
          /\ q.pc \in {"insert", "save"} /\ q2.pc = "process" /\ q2.nested
          /\ q2.copy = q.copy
      BY <1>7 DEF Misses, Unmoved
    <2>2. q.op \in Grpc => Leads(q2, row[q.id].status)
      BY <2>1 DEF Works, Leads
    <2>3. q.op # "delete"
      BY <2>1 DEF Works
    <2> QED BY <2>1, <2>2, <2>3 DEF Works
  <1> QED BY <1>1, <1>2, <1>3, <1>4, <1>5, <1>6, <1>7 DEF Advances

\* A request that goes on counts what it deducts.
LEMMA AdvancesAccounts ==
  ASSUME TypeOK, NEW q \in TaskRequest, NEW q2, Reads(q, quota), Advances(q, q2),
         QuotaAccounting
  PROVE  QuotaAccounting'
  <1>1. CASE UNCHANGED <<quota, granted, spent>>
    BY <1>1 DEF QuotaAccounting
  <1>2. CASE Pays(q, q2)
    <2>1. /\ q.id \in Tasks /\ Owner[q.id] \in Clients /\ q.client \in Int
          /\ Due(q) \in Int
      BY ConstantsAssumption DEF ConstantsAssumption, TaskRequest, Due, Row
    <2> DEFINE c == Owner[q.id]
               n == Due(q)
    <2>2. q.client + n = quota[c]
      BY <1>2 DEF Pays, Reads
    <2>3. /\ quota' = [quota EXCEPT ![c] = q.client]
          /\ spent' = [spent EXCEPT ![c] = @ + n]
          /\ granted' = granted
      BY <1>2 DEF Pays
    <2>4. c \in Clients /\ n \in Int
      BY <2>1
    <2> HIDE DEF c, n
    <2>5. ASSUME NEW d \in Clients
          PROVE  quota'[d] = granted'[d] - spent'[d]
      <3>1. /\ quota[d] = granted[d] - spent[d]
            /\ granted[d] \in Int /\ spent[d] \in Int /\ quota[d] \in Int
        BY DEF QuotaAccounting, TypeOK
      <3>2. CASE d = c
        <4>1. quota'[d] = q.client /\ spent'[d] = spent[d] + n /\ granted'[d] = granted[d]
          BY <2>3, <2>4, <3>2 DEF TypeOK
        <4> QED BY <2>1, <2>2, <2>4, <3>1, <3>2, <4>1
      <3>3. CASE d # c
        BY <2>3, <2>4, <3>1, <3>3 DEF TypeOK
      <3> QED BY <3>2, <3>3
    <2> QED BY <2>5 DEF QuotaAccounting
  <1> QED BY <1>1, <1>2
      DEF Advances, Ends, CallsAgain, Chooses, Deducts, Writes, Misses, Removes, Unmoved

\* No step of one request at a time disturbs quotas and rows.
LEMMA AloneStep ==
  ASSUME Serial, TypeOK, TypeOK', Alone, [Next]_vars
  PROVE  Alone'
  <1>r. ASSUME NEW r \in Requests, QuotaAccounting',
               Reads(req'[r], quota'), Works(req'[r], row')
        PROVE  Alone'
    <2>1. \A s \in Requests : s = r
      BY DEF Serial
    <2> QED BY <1>r, <2>1 DEF Alone
  <1>i. Reads(Idle, quota') /\ Works(Idle, row')
    BY DEF Reads, Works, Idle, TaskRequest, QuotaEdit
  <1>u. Unmoved => QuotaAccounting'
    BY DEF Alone, Unmoved, QuotaAccounting
  <1>1. ASSUME NEW r \in Requests, Arrives(req'[r]) PROVE Alone'
    BY <1>1, <1>r, <1>u, ArrivesAlone DEF Arrives
  <1>2. ASSUME NEW r \in Requests, Ends(req[r], req'[r]) PROVE Alone'
    BY <1>2, <1>r, <1>u, <1>i DEF Ends
  <1>3. ASSUME NEW r \in Requests, req[r] \in TaskRequest, Advances(req[r], req'[r])
        PROVE  Alone'
    <2>1. Reads(req[r], quota) /\ Works(req[r], row) /\ QuotaAccounting
      BY DEF Alone
    <2>2. Reads(req'[r], quota')
      BY <1>3, <2>1, AdvancesReads
    <2>3. Works(req'[r], row')
      BY <1>3, <2>1, AdvancesWorks
    <2>4. QuotaAccounting'
      BY <1>3, <2>1, AdvancesAccounts
    <2> QED BY <2>2, <2>3, <2>4, <1>r
  <1>4. ASSUME NEW r \in Requests, Grants(req[r], req'[r]) PROVE Alone'
    <2> DEFINE q == req[r]
    <2>1. /\ q \in QuotaEdit /\ req'[r] = Idle
          /\ quota' = [quota EXCEPT ![q.who] = q.quota]
          /\ granted' = [granted EXCEPT ![q.who] = @ + q.quota - q.seen]
          /\ spent' = spent
      BY <1>4 DEF Grants
    <2>2. Reads(q, quota) /\ QuotaAccounting
      BY DEF Alone
    <2> HIDE DEF q
    <2>3. q.who \in Clients /\ q.quota \in Int /\ q.seen \in Int /\ q.seen = quota[q.who]
      BY <2>1, <2>2, ConstantsAssumption DEF ConstantsAssumption, QuotaEdit, Reads
    <2>4. ASSUME NEW d \in Clients
          PROVE  quota'[d] = granted'[d] - spent'[d]
      <3>1. /\ quota[d] = granted[d] - spent[d]
            /\ granted[d] \in Int /\ spent[d] \in Int /\ quota[d] \in Int
        BY <2>2 DEF QuotaAccounting, TypeOK
      <3>2. CASE d = q.who
        <4>1. quota'[d] = q.quota /\ granted'[d] = granted[d] + q.quota - q.seen
          BY <2>1, <2>3, <3>2 DEF TypeOK
        <4> QED BY <2>1, <2>3, <3>1, <3>2, <4>1
      <3>3. CASE d # q.who
        BY <2>1, <2>3, <3>1, <3>3 DEF TypeOK
      <3> QED BY <3>2, <3>3
    <2>5. QuotaAccounting'
      BY <2>4 DEF QuotaAccounting
    <2> QED BY <2>1, <2>5, <1>i, <1>r
  <1>5. CASE Unmoved /\ req' = AllIdle
    BY <1>5, <1>i, <1>u DEF Alone, AllIdle
  <1>6. CASE UNCHANGED vars
    BY <1>6 DEF vars, history, Alone, QuotaAccounting
  <1>7. \A r \in Requests : Works(req[r], row)
    BY DEF Alone
  <1> QED BY <1>1, <1>2, <1>3, <1>4, <1>5, <1>6, <1>7, StepKinds

\* The quotas and rows of the first state.
LEMMA InitAlone == Init => Alone
  <1> SUFFICES ASSUME Init PROVE Alone
    OBVIOUS
  <1>1. QuotaAccounting
    BY ConstantsAssumption DEF ConstantsAssumption, Init, QuotaAccounting
  <1>2. \A r \in Requests : Reads(req[r], quota) /\ Works(req[r], row)
    BY DEF Init, AllIdle, Idle, Reads, Works, TaskRequest, QuotaEdit
  <1> QED BY <1>1, <1>2 DEF Alone

\* The inductive invariant of a system that serves one request at a time.
LEMMA AloneHolds ==
  ASSUME Serial
  PROVE  Spec => []Alone
  <1>1. TypeOK /\ TypeOK' /\ Alone /\ [Next]_vars => Alone'
    BY AloneStep
  <1> QED BY <1>1, InitAlone, TypeCorrect, PTL DEF Spec

\* While requests do not overlap, every deduction and every grant counts,
\* whatever fails: what is lost in quota_lost_update is lost to overlapping
\* requests only.
THEOREM QuotaIsAccounted == Serial => (Spec => []QuotaAccounting)
  <1> SUFFICES ASSUME Serial PROVE Spec => []QuotaAccounting
    OBVIOUS
  <1>1. Alone => QuotaAccounting
    BY DEF Alone
  <1>2. Spec => []Alone
    BY AloneHolds
  <1> QED BY <1>1, <1>2, PTL

-----------------------------------------------------------------------------
(* Charges of one request at a time *)

\* The request is about to charge for the task's completed images, or is past it.
Completing(q, t) ==
  /\ q \in TaskRequest
  /\ q.id = t
  /\ \/ q.pc \in {"process", "charge"} /\ q.copy.status = "IMAGES_COMPLETED"
     \/ q.pc = "save" /\ q.copy.status # "IMAGES_COMPLETED"

\* A row does not rest at IMAGES_COMPLETED: whoever wrote it leads it on. The
\* charge that is about to be made has its completion.
Billed(q, rows, payments, completions) ==
  /\ \A t \in Tasks : rows[t].status = "IMAGES_COMPLETED" => Completing(q, t)
  /\ q \in TaskRequest /\ q.pc \in {"process", "charge"} /\ q.copy.status = "IMAGES_COMPLETED"
       => payments[q.id] < completions[q.id]

\* The inductive invariant of charges, as long as nothing failed.
Billing ==
  faults = 0 => /\ \A t \in Tasks : paid[t] <= completed[t]
                /\ \A r \in Requests : Billed(req[r], row, paid, completed)

\* A request that goes on charges what it completed.
LEMMA AdvancesBills ==
  ASSUME TypeOK, NEW r \in Requests, NEW q, q = req[r], NEW q2, q2 = req'[r],
         q \in TaskRequest, Works(q, row), Advances(q, q2), faults' = faults,
         \A t \in Tasks : paid[t] <= completed[t], Billed(q, row, paid, completed)
  PROVE  /\ \A t \in Tasks : paid'[t] <= completed'[t]
         /\ Billed(q2, row', paid', completed')
  <1>0. q.id \in Tasks /\ q.copy \in Row /\ faults' # faults + 1
    BY DEF TaskRequest, TypeOK
  <1>n. ASSUME \A t \in Tasks : ~ Completing(q, t)
        PROVE  \A t \in Tasks : row[t].status # "IMAGES_COMPLETED"
    BY <1>n DEF Billed
  <1>1. CASE Ends(q, q2)
    <2>1. /\ row' = row /\ paid' = paid /\ completed' = completed /\ q2 = Idle
          /\ q.pc = "process" /\ q.copy.status \in Settled
      BY <1>0, <1>1 DEF Ends, Unmoved
    <2>2. \A t \in Tasks : ~ Completing(q, t)
      BY <2>1 DEF Completing, Settled, Terminal, Pending
    <2> QED BY <2>1, <2>2, <1>n DEF Billed, Idle, TaskRequest
  <1>2. CASE CallsAgain(q, q2)
    <2>1. /\ row' = row /\ paid' = paid /\ completed' = completed
          /\ q.pc = "process" /\ q.copy.status \in Settled /\ q2.copy = q.copy
      BY <1>2 DEF CallsAgain, Unmoved
    <2>2. q.copy.status # "IMAGES_COMPLETED"
      BY <2>1 DEF Settled, Terminal, Pending
    <2>3. \A t \in Tasks : ~ Completing(q, t)
      BY <2>1, <2>2 DEF Completing
    <2> QED BY <2>1, <2>2, <2>3, <1>n DEF Billed
  <1>3. CASE Chooses(q, q2)
    <2>1. /\ row' = row /\ paid' = paid /\ completed' = completed
          /\ q.pc = "process" /\ q2.pc = "save" /\ q2 \in TaskRequest /\ q2.id = q.id
          /\ <<q.copy.status, q2.copy.status>> \in Moves
      BY <1>3 DEF Chooses, Unmoved, Carries
    <2>2. ASSUME NEW t \in Tasks, row[t].status = "IMAGES_COMPLETED"
          PROVE  Completing(q2, t)
      <3>1. q.id = t /\ q.copy.status = "IMAGES_COMPLETED"
        BY <2>1, <2>2 DEF Billed, Completing
      <3>2. q2.copy.status # "IMAGES_COMPLETED"
        BY <2>1, <3>1 DEF Moves
      <3> QED BY <2>1, <3>1, <3>2 DEF Completing
    <2> QED BY <2>1, <2>2 DEF Billed
  <1>4. CASE Deducts(q, q2)
    <2>1. /\ row' = row /\ paid' = paid /\ completed' = completed
          /\ q.pc = "process" /\ q2.pc = "charge" /\ q2 \in TaskRequest /\ q2.id = q.id
          /\ q2.copy = q.copy
      BY <1>4 DEF Deducts, Unmoved, Carries
    <2>2. \A t \in Tasks : Completing(q, t) => Completing(q2, t)
      BY <2>1 DEF Completing
    <2> QED BY <2>1, <2>2 DEF Billed
  <1>5. CASE Pays(q, q2)
    <2>1. /\ row' = row /\ completed' = completed
          /\ q.pc = "charge" /\ q2.pc = "save" /\ q2 \in TaskRequest /\ q2.id = q.id
      BY <1>5 DEF Pays, Carries
    <2>2. CASE /\ q.copy.status = "READY_FOR_PROCESSING" /\ paid' = paid
      <3>1. \A t \in Tasks : ~ Completing(q, t)
        BY <2>1, <2>2 DEF Completing
      <3> QED BY <2>1, <2>2, <3>1, <1>n DEF Billed
    <2>3. CASE /\ q.copy.status = "IMAGES_COMPLETED"
               /\ q2.copy.status = "RECOGNITION_PENDING"
               /\ paid' = [paid EXCEPT ![q.id] = @ + 1]
      <3>1. paid[q.id] < completed[q.id]
        BY <2>1, <2>3 DEF Billed
      <3>2. \A t \in Tasks : paid'[t] <= completed'[t]
        BY <1>0, <2>1, <2>3, <3>1 DEF TypeOK
      <3>3. \A t \in Tasks : Completing(q, t) => Completing(q2, t)
        BY <2>1, <2>3 DEF Completing
      <3> QED BY <2>1, <3>2, <3>3 DEF Billed
    <2> QED BY <1>5, <2>2, <2>3 DEF Pays
  <1>6. CASE Writes(q, q2)
    <2>1. /\ q.pc \in {"insert", "save"} /\ q2.pc = "process" /\ q2 \in TaskRequest
          /\ q2.id = q.id /\ q2.copy = q.copy /\ paid' = paid
          /\ row' = [row EXCEPT ![q.id] = q.copy]
          /\ completed' =
               IF q.copy.status = "IMAGES_COMPLETED" /\ row[q.id].status # "IMAGES_COMPLETED"
               THEN [completed EXCEPT ![q.id] = @ + 1] ELSE completed
      BY <1>6 DEF Writes, Carries
    <2>2. \A t \in Tasks : row'[t] = IF t = q.id THEN q.copy ELSE row[t]
      BY <1>0, <2>1 DEF TypeOK
    <2>3. CASE q.copy.status = "IMAGES_COMPLETED"
      <3>1. \A t \in Tasks : row[t].status # "IMAGES_COMPLETED"
        BY <2>1, <2>3, <1>n DEF Completing
      <3>2. completed' = [completed EXCEPT ![q.id] = @ + 1]
        BY <1>0, <2>1, <2>3, <3>1
      <3>3. /\ \A t \in Tasks : paid'[t] <= completed'[t]
            /\ paid'[q.id] < completed'[q.id]
        BY <1>0, <2>1, <3>2 DEF TypeOK
      <3>4. ASSUME NEW t \in Tasks, row'[t].status = "IMAGES_COMPLETED"
            PROVE  Completing(q2, t)
        BY <2>1, <2>2, <2>3, <3>1, <3>4 DEF Completing
      <3> QED BY <2>1, <3>3, <3>4 DEF Billed
    <2>4. CASE q.copy.status # "IMAGES_COMPLETED"
      <3>1. completed' = completed
        BY <2>1, <2>4
      <3>2. \A t \in Tasks : row'[t].status # "IMAGES_COMPLETED"
        BY <2>2, <2>4 DEF Billed, Completing
      <3> QED BY <2>1, <2>4, <3>1, <3>2 DEF Billed
    <2> QED BY <2>3, <2>4
  <1>7. CASE Misses(q, q2)
    BY <1>0, <1>7 DEF Misses
  <1>8. CASE Removes(q, q2)
    <2>1. /\ q.pc = "delete" /\ q2 = Idle /\ paid' = paid /\ completed' = completed
          /\ row' = [row EXCEPT ![q.id] = Deleted]
      BY <1>8 DEF Removes
    <2>2. \A t \in Tasks : row[t].status # "IMAGES_COMPLETED"
      BY <2>1, <1>n DEF Completing
    <2>3. \A t \in Tasks : row'[t].status # "IMAGES_COMPLETED"
      BY <1>0, <2>1, <2>2 DEF TypeOK, Deleted, Blank
    <2> QED BY <2>1, <2>3 DEF Billed, Idle, TaskRequest
  <1> QED BY <1>1, <1>2, <1>3, <1>4, <1>5, <1>6, <1>7, <1>8 DEF Advances

\* No step of one request at a time charges twice.
LEMMA BillingStep ==
  ASSUME Serial, TypeOK, TypeOK', Alone, Billing, [Next]_vars
  PROVE  Billing'
  <1> SUFFICES ASSUME faults' = 0
               PROVE  /\ \A t \in Tasks : paid'[t] <= completed'[t]
                      /\ \A r \in Requests : Billed(req'[r], row', paid', completed')
    BY DEF Billing
  <1>0. faults = 0 /\ faults' # faults + 1
    BY FaultsOnlyGrow
  <1>b. /\ \A t \in Tasks : paid[t] <= completed[t]
        /\ \A r \in Requests : Billed(req[r], row, paid, completed) /\ Works(req[r], row)
    BY <1>0 DEF Billing, Alone
  <1>s. \A r, s \in Requests : r = s
    BY DEF Serial
  <1>n. ASSUME NEW r \in Requests, req[r] \notin TaskRequest, row' = row, paid' = paid,
               completed' = completed, req'[r] \in TaskRequest => req'[r].pc \notin {"process", "charge"}
        PROVE  Billed(req'[r], row', paid', completed')
    BY <1>b, <1>n DEF Billed, Completing
  <1>1. ASSUME NEW r \in Requests, At(r, "idle"), Arrives(req'[r])
        PROVE  \A s \in Requests : Billed(req'[s], row', paid', completed')
    <2>1. req[r] \notin TaskRequest
      BY <1>1 DEF At, TaskRequest
    <2>2. row' = row /\ paid' = paid /\ completed' = completed
      BY <1>1 DEF Arrives, Unmoved
    <2>3. req'[r] \in TaskRequest => req'[r].pc \notin {"process", "charge"}
      BY <1>1 DEF Arrives, Fresh, QuotaEdit, TaskRequest
    <2> QED BY <2>1, <2>2, <2>3, <1>n, <1>s
  <1>2. ASSUME NEW r \in Requests, ~ At(r, "process"), Ends(req[r], req'[r])
        PROVE  FALSE
    BY <1>0, <1>2 DEF Ends, At
  <1>3. ASSUME NEW r \in Requests, req[r] \in TaskRequest, Advances(req[r], req'[r])
        PROVE  /\ \A t \in Tasks : paid'[t] <= completed'[t]
               /\ \A s \in Requests : Billed(req'[s], row', paid', completed')
    <2>1. faults' = faults
      BY <1>0
    <2>2. /\ \A t \in Tasks : paid'[t] <= completed'[t]
          /\ Billed(req'[r], row', paid', completed')
      BY <1>b, <1>3, <2>1, AdvancesBills
    <2> QED BY <2>2, <1>s
  <1>4. ASSUME NEW r \in Requests, Grants(req[r], req'[r])
        PROVE  \A s \in Requests : Billed(req'[s], row', paid', completed')
    <2>1. req[r] \notin TaskRequest /\ req'[r] \notin TaskRequest
      BY <1>4 DEF Grants, QuotaEdit, TaskRequest, Idle
    <2>2. row' = row /\ paid' = paid /\ completed' = completed
      BY <1>4 DEF Grants
    <2> QED BY <2>1, <2>2, <1>n, <1>s
  <1>5. CASE UNCHANGED vars
    BY <1>5, <1>b DEF vars, history
  <1>6. CASE Next
    <2>1. (\E r \in Requests : Grants(req[r], req'[r]) \/ Arrives(req'[r]))
            => paid' = paid /\ completed' = completed
      BY DEF Grants, Arrives, Unmoved
    <2> QED BY <1>6, <2>1, <1>b, <1>0, <1>1, <1>2, <1>3, <1>4, StepKinds
  <1> QED BY <1>5, <1>6

\* While requests do not overlap and nothing fails, a task is charged for
\* recognition at most as often as its images were completed: the hook that runs
\* for every save of a task charges once for each completion, not once per save.
THEOREM ChargedOnce == Serial => (Spec => []SingleCharge)
  <1> SUFFICES ASSUME Serial PROVE Spec => []SingleCharge
    OBVIOUS
  <1>1. Init => Billing
    BY DEF Init, Billing, Billed, AllIdle, Idle, TaskRequest, Blank
  <1>2. TypeOK /\ TypeOK' /\ Alone /\ Billing /\ [Next]_vars => Billing'
    BY BillingStep
  <1>3. Billing => SingleCharge
    BY DEF Billing, SingleCharge
  <1>4. Spec => []Alone
    BY AloneHolds
  <1> QED BY <1>1, <1>2, <1>3, <1>4, TypeCorrect, PTL DEF Spec

\* While requests do not overlap, whatever fails: a deleted task stays deleted,
\* and only users and administrators, who write a status or delete, take a task
\* out of its terminal status. The machine never revives what has ended.
THEOREM EndedStays == Serial => (Spec => TerminalStays)
  <1> SUFFICES ASSUME Serial PROVE Spec => TerminalStays
    OBVIOUS
  <1> DEFINE Stays(t) ==
        /\ row[t] = Deleted => row'[t] = Deleted
        /\ row[t].status \in Terminal /\ row'[t].status # row[t].status =>
             \E r \in Requests : /\ req[r].pc \in { "save", "delete" }
                                /\ req[r].id = t
                                /\ req[r].op \in { "update", "setStatus", "delete" }
  <1>1. ASSUME TypeOK, Alone, [Next]_vars, NEW t \in Tasks
        PROVE  Stays(t)
    <2>0. \A r \in Requests : Works(req[r], row)
      BY <1>1 DEF Alone
    <2>1. ASSUME row'[t] = row[t] PROVE Stays(t)
      BY <2>1
    <2>2. ASSUME NEW r \in Requests, req[r] \in TaskRequest, Writes(req[r], req'[r])
          PROVE  Stays(t)
      <3> DEFINE q == req[r]
      <3>1. /\ q.id \in Tasks /\ q.op \in OperationNames
            /\ q.pc \in {"insert", "save"} /\ row' = [row EXCEPT ![q.id] = q.copy]
        BY <2>2 DEF Writes, TaskRequest
      <3>2. Works(q, row) /\ q \in TaskRequest
        BY <2>0, <2>2
      <3> HIDE DEF q
      <3>3. CASE t # q.id
        BY <1>1, <2>1, <3>1, <3>3 DEF TypeOK
      <3>4. CASE t = q.id
        <4>1. row'[t] = q.copy
          BY <1>1, <3>1, <3>4 DEF TypeOK
        <4>2. CASE q.pc = "insert"
          BY <3>2, <3>4, <4>2 DEF Works, Blank, Deleted, Terminal
        <4>3. CASE q.pc = "save"
          <5>1. row[t].status \in Status /\ q.op \in Grpc \cup {"update", "setStatus"}
            BY <3>1, <3>2, <3>4, <4>3 DEF Works, OperationNames, Grpc
          <5>2. row[t] # Deleted
            BY <5>1 DEF Deleted, Blank, Status
          <5>3. q.op \in Grpc /\ row[t].status \in Terminal => row'[t].status = row[t].status
            BY <3>2, <3>4, <4>1 DEF Works, Leads
          <5> QED BY <3>4, <4>3, <5>1, <5>2, <5>3 DEF q
        <4> QED BY <3>1, <4>2, <4>3
      <3> QED BY <3>3, <3>4
    <2>3. ASSUME NEW r \in Requests, req[r] \in TaskRequest, Removes(req[r], req'[r])
          PROVE  Stays(t)
      <3>1. /\ req[r].id \in Tasks /\ req[r].pc = "delete" /\ req[r].op = "delete"
            /\ row' = [row EXCEPT ![req[r].id] = Deleted]
        BY <2>0, <2>3 DEF Removes, TaskRequest, Works
      <3> QED BY <1>1, <3>1 DEF TypeOK
    <2>4. CASE UNCHANGED vars
      BY <2>1, <2>4 DEF vars
    <2>5. CASE Next
      <3>1. ASSUME NEW r \in Requests, req[r] \in TaskRequest, Advances(req[r], req'[r])
            PROVE  Stays(t)
        BY <2>1, <2>2, <2>3, <3>1
        DEF Advances, Ends, CallsAgain, Chooses, Deducts, Pays, Misses, Unmoved
      <3>2. ASSUME NEW r \in Requests, \/ Arrives(req'[r]) \/ Ends(req[r], req'[r])
                                       \/ Grants(req[r], req'[r])
            PROVE  Stays(t)
        BY <2>1, <3>2 DEF Arrives, Ends, Grants, Unmoved
      <3>3. ASSUME Unmoved PROVE Stays(t)
        BY <2>1, <3>3 DEF Unmoved
      <3> HIDE DEF Stays
      <3> QED BY <1>1, <2>0, <2>5, <3>1, <3>2, <3>3, StepKinds
    <2> QED BY <1>1, <2>4, <2>5
  <1>2. TypeOK /\ Alone /\ [Next]_vars => [\A t \in Tasks : Stays(t)]_vars
    BY <1>1
  <1>3. Spec => []Alone
    BY AloneHolds
  <1> QED BY <1>2, <1>3, TypeCorrect, PTL DEF Spec, TerminalStays

-----------------------------------------------------------------------------
(* The refinement of TaskLedger *)

TaskStages == [t \in Tasks |-> Stage(t)]

\* What TaskLedger sees of the only request.
EditedBy(q) ==
  IF q \in TaskRequest /\ q.op \in {"update", "setStatus"} THEN {q.id} ELSE {}

Phase(q) == IF q.copy.status = "IMAGES_PENDING" THEN "open" ELSE "recognition"

OwedBy(q) ==
  IF q \in TaskRequest /\ q.pc = "save" /\ q.nested /\ q.copy.status \in Pending
  THEN { <<q.id, Phase(q)>> } ELSE {}

\* The mapping, for one request.
LEMMA OneMaps ==
  ASSUME Serial, TypeOK, TypeOK', NEW r \in Requests
  PROVE  /\ EditedTasks = EditedBy(req[r]) /\ EditedTasks' = EditedBy(req'[r])
         /\ OwedPhases = OwedBy(req[r]) /\ OwedPhases' = OwedBy(req'[r])
  <1>s. \A s \in Requests : s = r
    BY DEF Serial
  <1>1. req[r] \in TaskRequest <=> req[r].pc # "idle" /\ req[r].pc # "edit"
    BY DEF TypeOK, TaskRequest, QuotaEdit, Idle
  <1>2. req'[r] \in TaskRequest <=> req'[r].pc # "idle" /\ req'[r].pc # "edit"
    BY DEF TypeOK, TaskRequest, QuotaEdit, Idle
  <1>3. OnTask = (IF req[r] \in TaskRequest THEN {r} ELSE {})
    BY <1>s, <1>1 DEF OnTask, At
  <1>4. OnTask' = (IF req'[r] \in TaskRequest THEN {r} ELSE {})
    BY <1>s, <1>2 DEF OnTask, At
  <1>5. EditedTasks = EditedBy(req[r])
    BY <1>3 DEF EditedTasks, EditedBy
  <1>6. EditedTasks' = EditedBy(req'[r])
    BY <1>4 DEF EditedTasks, EditedBy
  <1>7. OwedPhases = OwedBy(req[r])
    BY <1>3 DEF OwedPhases, OwedBy, Phase, At
  <1>8. OwedPhases' = OwedBy(req'[r])
    BY <1>4 DEF OwedPhases, OwedBy, Phase, At
  <1> QED BY <1>5, <1>6, <1>7, <1>8

\* The stage of a task is that of its row's status.
LEMMA StageMaps ==
  /\ \A t \in Tasks : Stage(t) = StageOf(row[t].status)
  /\ \A t \in Tasks : Stage(t)' = StageOf(row'[t].status)
  BY DEF Stage, StageOf

\* A row that is written moves its task to the stage of the new status.
LEMMA StageMoves ==
  ASSUME TypeOK, NEW t \in Tasks, NEW new, row' = [row EXCEPT ![t] = new]
  PROVE  TaskStages' = [TaskStages EXCEPT ![t] = StageOf(new.status)]
  <1>1. \A x \in Tasks : row'[x] = IF x = t THEN new ELSE row[x]
    BY DEF TypeOK
  <1>2. \A x \in Tasks : Stage(x)' = IF x = t THEN StageOf(new.status) ELSE Stage(x)
    BY <1>1, StageMaps
  <1> QED BY <1>2 DEF TaskStages

\* Rows that stay keep their tasks where they are.
LEMMA StagesStay ==
  ASSUME row' = row
  PROVE  TaskStages' = TaskStages
  BY DEF TaskStages, Stage

\* A step the ledger sees, if at all, as the end of a request.
LEMMA Releases ==
  ASSUME TaskStages' = TaskStages, quota' = quota,
         EditedTasks' \subseteq EditedTasks, OwedPhases' \subseteq OwedPhases
  PROVE  Books!Next
  <1>1. Books!Release
    BY DEF Books!Release, TaskStages
  <1> QED BY <1>1 DEF Books!Next

\* A step the ledger does not see at all.
LEMMA Stutters ==
  ASSUME TaskStages' = TaskStages, quota' = quota,
         EditedTasks' = EditedTasks, OwedPhases' = OwedPhases
  PROVE  UNCHANGED Books!vars
  BY DEF Books!vars, TaskStages

\* A charge pays for the phase that is entered by the next save.
LEMMA PaysRefines ==
  ASSUME Serial, TypeOK, TypeOK', NEW r \in Requests, NEW q, q = req[r],
         NEW q2, q2 = req'[r], q \in TaskRequest, Reads(q, quota), Works(q, row),
         Pays(q, q2)
  PROVE  Books!Next
  <1>0. /\ q.id \in Tasks /\ Owner[q.id] \in Clients /\ quota[Owner[q.id]] \in Int
        /\ q.client \in Int /\ q.copy.images \in 0 .. MaxImages /\ MaxImages \in Nat
        /\ q.op \in OperationNames
    BY ConstantsAssumption DEF ConstantsAssumption, TaskRequest, TypeOK, Row
  <1>1. /\ row' = row /\ q2 \in TaskRequest /\ q2.op = q.op /\ q2.id = q.id
        /\ q.pc = "charge" /\ q2.pc = "save" /\ q2.nested = q.nested
        /\ quota' = [quota EXCEPT ![Owner[q.id]] = q.client]
    BY DEF Pays, Carries
  <1>2. /\ q.nested /\ q.op \notin {"create", "delete", "setQuota"}
        /\ quota[Owner[q.id]] > 0 /\ q.client + Due(q) = quota[Owner[q.id]]
    BY <1>1 DEF Works, Reads
  <1>3. /\ EditedTasks' = EditedTasks
        /\ OwedPhases = {}
        /\ q.id \notin EditedTasks => q.op \in Grpc
    BY <1>0, <1>1, <1>2, OneMaps DEF EditedBy, OwedBy, OperationNames, Grpc
  <1>4. TaskStages' = TaskStages
    BY <1>1, StagesStay
  <1>5. q.op \in Grpc => StageOf(row[q.id].status) = StageOf(q.copy.status)
    BY <1>1, Stages DEF Works, Leads, Follows, Pays, Terminal
  <1>6. TaskStages[q.id] = StageOf(row[q.id].status)
    BY <1>0, StageMaps DEF TaskStages
  <1>7. CASE /\ q.copy.status = "READY_FOR_PROCESSING"
             /\ q2.copy.status = "IMAGES_PENDING"
    <2>1. OwedPhases' = { <<q.id, "open">> }
      BY <1>1, <1>2, <1>7, OneMaps DEF OwedBy, Phase, Pending
    <2>2. q.copy.images \in 1 .. MaxImages /\ Due(q) = q.copy.images
      BY <1>0, <1>1, <1>7 DEF Reads, Due
    <2>3. q.client = quota[Owner[q.id]] - q.copy.images
      BY <1>0, <1>2, <2>2
    <2>4. quota' = [quota EXCEPT ![Owner[q.id]] = @ - q.copy.images]
      BY <1>1, <2>3
    <2>5. TaskStages[q.id] = "ready" \/ q.id \in EditedTasks
      BY <1>3, <1>5, <1>6, <1>7, Stages
    <2>6. Books!PayImages(q.id, q.copy.images)
      BY <1>2, <1>3, <1>4, <2>1, <2>4, <2>5
      DEF Books!PayImages, Books!Pay, Books!From, TaskStages
    <2> QED BY <1>0, <2>2, <2>6 DEF Books!Next
  <1>8. CASE /\ q.copy.status = "IMAGES_COMPLETED"
             /\ q2.copy.status = "RECOGNITION_PENDING"
    <2>1. OwedPhases' = { <<q.id, "recognition">> }
      BY <1>1, <1>2, <1>8, OneMaps DEF OwedBy, Phase, Pending
    <2>2. Due(q) = 1
      BY <1>1, <1>8 DEF Due
    <2>3. q.client = quota[Owner[q.id]] - 1
      BY <1>0, <1>2, <2>2
    <2>4. quota' = [quota EXCEPT ![Owner[q.id]] = @ - 1]
      BY <1>1, <2>3
    <2>5. TaskStages[q.id] = "open" \/ q.id \in EditedTasks
      BY <1>3, <1>5, <1>6, <1>8, Stages
    <2>6. Books!PayRecognition(q.id)
      BY <1>2, <1>3, <1>4, <2>1, <2>4, <2>5
      DEF Books!PayRecognition, Books!Pay, Books!From, TaskStages
    <2> QED BY <1>0, <2>6 DEF Books!Next
  <1> QED BY <1>7, <1>8 DEF Pays

\* A save puts the task where the ledger allows: into the phase that was paid for,
\* to its end, where it was, or where a user or administrator wants it.
LEMMA WritesRefines ==
  ASSUME Serial, TypeOK, TypeOK', NEW r \in Requests, NEW q, q = req[r],
         NEW q2, q2 = req'[r], q \in TaskRequest, Works(q, row), Writes(q, q2)
  PROVE  Books!Next \/ UNCHANGED Books!vars
  <1>0. q.id \in Tasks /\ q.copy \in Row /\ q.copy.status \in Status /\ q.op \in OperationNames
    BY DEF TaskRequest, Row
  <1>1. /\ q2 \in TaskRequest /\ q2.op = q.op /\ q2.id = q.id /\ quota' = quota
        /\ q.pc \in {"insert", "save"} /\ q2.pc = "process"
        /\ row' = [row EXCEPT ![q.id] = q.copy]
    BY DEF Writes, Carries
  <1> DEFINE t == q.id
             old == StageOf(row[t].status)
             new == StageOf(q.copy.status)
  <1>2. t \in Tasks /\ TaskStages[t] = old /\ TaskStages' = [TaskStages EXCEPT ![t] = new]
    BY <1>0, <1>1, StageMaps, StageMoves DEF TaskStages
  <1>3. EditedTasks' = EditedTasks /\ OwedPhases' = {}
    BY <1>1, OneMaps DEF EditedBy, OwedBy
  <1>4. new \in {"ready", "open", "recognition", "failed", "completed"}
    BY <1>0, Stages DEF Status, Terminal
  <1>5. CASE q.pc = "insert"
    <2>1. /\ row[t] = Blank /\ q.copy.status = "IMAGES_PENDING" /\ OwedPhases = {}
      BY <1>5, OneMaps DEF Works, OwedBy
    <2>2. old = "absent" /\ new = "open"
      BY <2>1, Stages DEF Blank
    <2> HIDE DEF t, old, new
    <2>3. Books!Create(t)
      BY <1>1, <1>2, <1>3, <2>1, <2>2 DEF Books!Create, TaskStages
    <2> QED BY <1>2, <2>3 DEF Books!Next
  <1>6. CASE q.pc = "save" /\ q.nested /\ q.copy.status \in Pending
    <2> DEFINE phase == Phase(q)
               before == IF phase = "open" THEN "ready" ELSE "open"
    <2>1. OwedPhases = { <<t, phase>> }
      BY <1>6, OneMaps DEF OwedBy
    <2>2. new = phase /\ phase \in {"open", "recognition"}
      BY <1>6, Stages DEF Phase, Pending
    <2>3. old = before \/ t \in EditedTasks
      <3>1. CASE q.op \in Grpc
        BY <1>6, <3>1 DEF Works, Leads, Phase, Pending
      <3>2. CASE q.op \notin Grpc
        BY <1>0, <1>6, <3>2, OneMaps DEF Works, EditedBy, OperationNames, Grpc
      <3> QED BY <3>1, <3>2
    <2> HIDE DEF t, old, new, phase
    <2>4. Books!Enter(t, phase)
      BY <1>1, <1>2, <1>3, <2>1, <2>2, <2>3 DEF Books!Enter, Books!From, TaskStages
    <2> QED BY <1>2, <2>2, <2>4 DEF Books!Next
  <1>7. CASE q.pc = "save" /\ ~ (q.nested /\ q.copy.status \in Pending) /\ q.op \notin Grpc
    <2>1. OwedPhases = {} /\ t \in EditedTasks
      BY <1>0, <1>7, OneMaps DEF Works, OwedBy, EditedBy, OperationNames, Grpc
    <2> HIDE DEF t, old, new
    <2>2. Books!Override(t, new)
      BY <1>1, <1>2, <1>3, <2>1 DEF Books!Override, TaskStages
    <2> QED BY <1>2, <1>4, <2>2 DEF Books!Next, Books!Living, Books!Running, Books!Ended
  <1>8. CASE q.pc = "save" /\ ~ (q.nested /\ q.copy.status \in Pending) /\ q.op \in Grpc
    <2>1. OwedPhases = {}
      BY <1>8, OneMaps DEF OwedBy
    <2>2. \/ new = old
          \/ new = "failed" /\ old \in {"ready", "open", "recognition"}
          \/ new = "completed" /\ old = "recognition"
      BY <1>8 DEF Works, Leads, Follows, Pending
    <2> HIDE DEF t, old, new
    <2>3. CASE new = old
      <3>1. TaskStages' = TaskStages
        BY <1>2, <2>3 DEF TaskStages
      <3> QED BY <1>1, <1>3, <2>1, <3>1, Stutters
    <2>4. CASE new = "failed" /\ old \in {"ready", "open", "recognition"}
      <3>1. Books!Fail(t)
        BY <1>1, <1>2, <1>3, <2>1, <2>4 DEF Books!Fail, Books!Running, TaskStages
      <3> QED BY <1>2, <3>1 DEF Books!Next
    <2>5. CASE new = "completed" /\ old = "recognition"
      <3>1. Books!Complete(t)
        BY <1>1, <1>2, <1>3, <2>1, <2>5 DEF Books!Complete, TaskStages
      <3> QED BY <1>2, <3>1 DEF Books!Next
    <2> QED BY <2>2, <2>3, <2>4, <2>5
  <1> QED BY <1>1, <1>5, <1>6, <1>7, <1>8

\* Whatever a task request does, the ledger allows.
LEMMA AdvancesRefines ==
  ASSUME Serial, TypeOK, TypeOK', NEW r \in Requests, NEW q, q = req[r],
         NEW q2, q2 = req'[r], q \in TaskRequest, Reads(q, quota), Works(q, row),
         Advances(q, q2)
  PROVE  Books!Next \/ UNCHANGED Books!vars
  <1>m. /\ EditedTasks = EditedBy(q) /\ EditedTasks' = EditedBy(q2)
        /\ OwedPhases = OwedBy(q) /\ OwedPhases' = OwedBy(q2)
    BY OneMaps
  <1>1. CASE Ends(q, q2)
    <2>1. row' = row /\ quota' = quota /\ q2 = Idle
      BY <1>1 DEF Ends, Unmoved
    <2>2. EditedTasks' = {} /\ OwedPhases' = {}
      BY <1>m, <2>1 DEF EditedBy, OwedBy, Idle, TaskRequest
    <2> QED BY <2>1, <2>2, StagesStay, Releases
  <1>2. CASE CallsAgain(q, q2) \/ Chooses(q, q2) \/ Deducts(q, q2)
    <2>1. /\ row' = row /\ quota' = quota /\ q2 \in TaskRequest
          /\ q2.op = q.op /\ q2.id = q.id /\ q.pc = "process"
          /\ q2.pc # "save" \/ q2.copy.status \notin Pending
      BY <1>2 DEF CallsAgain, Chooses, Deducts, Unmoved, Carries, Moves, Pending
    <2>2. EditedTasks' = EditedTasks /\ OwedPhases' = OwedPhases
      BY <1>m, <2>1 DEF EditedBy, OwedBy
    <2> QED BY <2>1, <2>2, StagesStay, Stutters
  <1>3. CASE Pays(q, q2)
    BY <1>3, PaysRefines
  <1>4. CASE Writes(q, q2)
    BY <1>4, WritesRefines
  <1>5. CASE Misses(q, q2)
    <2>1. /\ row' = row /\ quota' = quota /\ q2 \in TaskRequest
          /\ q2.op = q.op /\ q2.id = q.id /\ q2.pc = "process"
      BY <1>5 DEF Misses, Unmoved
    <2>2. EditedTasks' = EditedTasks /\ OwedPhases' = {}
      BY <1>m, <2>1 DEF EditedBy, OwedBy
    <2> QED BY <2>1, <2>2, StagesStay, Releases
  <1>6. CASE Removes(q, q2)
    <2>1. /\ q.id \in Tasks /\ q.pc = "delete" /\ q2 = Idle /\ quota' = quota
          /\ row' = [row EXCEPT ![q.id] = Deleted]
      BY <1>6 DEF Removes, TaskRequest
    <2>2. q.op = "delete" /\ row[q.id].status \in Status
      BY <2>1 DEF Works
    <2>3. /\ EditedTasks = {} /\ EditedTasks' = {} /\ OwedPhases = {} /\ OwedPhases' = {}
      <3>1. EditedBy(q) = {} /\ OwedBy(q) = {}
        BY <2>1, <2>2 DEF EditedBy, OwedBy
      <3>2. EditedBy(q2) = {} /\ OwedBy(q2) = {}
        BY <2>1 DEF EditedBy, OwedBy, Idle, TaskRequest
      <3> QED BY <1>m, <3>1, <3>2
    <2>4. /\ TaskStages[q.id] = StageOf(row[q.id].status)
          /\ TaskStages' = [TaskStages EXCEPT ![q.id] = StageOf("DELETED")]
      <3>1. TaskStages' = [TaskStages EXCEPT ![q.id] = StageOf(Deleted.status)]
        BY <2>1, StageMoves DEF TaskStages
      <3>2. Deleted.status = "DELETED"
        BY DEF Deleted, Blank
      <3> QED BY <2>1, <3>1, <3>2, StageMaps DEF TaskStages
    <2>5. StageOf(row[q.id].status) \in {"ready", "open", "recognition", "failed", "completed"}
      BY <2>2, Stages DEF Status, Terminal
    <2>6. Books!Delete(q.id)
      BY <2>1, <2>3, <2>4, <2>5, Stages
      DEF Books!Delete, Books!Living, Books!Running, Books!Ended, TaskStages
    <2> QED BY <2>1, <2>6 DEF Books!Next
  <1> QED BY <1>1, <1>2, <1>3, <1>4, <1>5, <1>6 DEF Advances

\* A request that arrives does not move a task; the ledger notes who is about to
\* write one.
LEMMA ArrivesRefines ==
  ASSUME Serial, TypeOK, TypeOK', NEW r \in Requests, NEW q, q = req[r],
         NEW q2, q2 = req'[r], q.pc = "idle", Arrives(q2)
  PROVE  Books!Next \/ UNCHANGED Books!vars
  <1>m. /\ EditedTasks = {} /\ EditedTasks' = EditedBy(q2)
        /\ OwedPhases = {} /\ OwedPhases' = OwedBy(q2)
    BY OneMaps DEF EditedBy, OwedBy, TaskRequest
  <1>1. row' = row /\ quota' = quota
    BY DEF Arrives, Unmoved
  <1>2. OwedPhases' = {}
    BY <1>m DEF Arrives, Fresh, OwedBy, QuotaEdit, TaskRequest
  <1>3. CASE q2 \in TaskRequest /\ q2.op \in {"update", "setStatus"}
    <2>1. q2.id \in Tasks /\ row[q2.id].status \in Status /\ EditedTasks' = {q2.id}
      BY <1>m, <1>3 DEF Arrives, Fresh, EditedBy, Grpc, Stored, QuotaEdit, TaskRequest
    <2>2. TaskStages[q2.id] = StageOf(row[q2.id].status) /\ TaskStages' = TaskStages
      BY <1>1, <2>1, StageMaps, StagesStay DEF TaskStages
    <2>3. StageOf(row[q2.id].status) \in {"ready", "open", "recognition", "failed", "completed"}
      BY <2>1, Stages DEF Status, Terminal
    <2>4. Books!Edit(q2.id)
      BY <1>m, <1>1, <1>2, <2>1, <2>2, <2>3
      DEF Books!Edit, Books!Living, Books!Running, Books!Ended, TaskStages
    <2> QED BY <2>1, <2>4 DEF Books!Next
  <1>4. CASE ~ (q2 \in TaskRequest /\ q2.op \in {"update", "setStatus"})
    <2>1. EditedTasks' = {}
      BY <1>m, <1>4 DEF EditedBy
    <2> QED BY <1>m, <1>1, <1>2, <2>1, StagesStay, Stutters
  <1> QED BY <1>3, <1>4

\* Every step is one of the ledger's, or none.
LEMMA StepRefines ==
  ASSUME Serial, TypeOK, TypeOK', Alone, [Next]_vars
  PROVE  [Books!Next]_(Books!vars)
  <1> SUFFICES Books!Next \/ UNCHANGED Books!vars
    OBVIOUS
  <1>0. \A r \in Requests : Reads(req[r], quota) /\ Works(req[r], row)
    BY DEF Alone
  <1>1. ASSUME NEW r \in Requests, At(r, "idle"), Arrives(req'[r])
        PROVE  Books!Next \/ UNCHANGED Books!vars
    BY <1>1, ArrivesRefines DEF At
  <1>2. ASSUME row' = row, quota' = quota, \A r \in Requests : req'[r] = Idle
        PROVE  Books!Next
    <2>1. OnTask' = {}
      BY <1>2 DEF OnTask, At, Idle
    <2>2. EditedTasks' = {} /\ OwedPhases' = {}
      BY <2>1 DEF EditedTasks, OwedPhases
    <2> QED BY <1>2, <2>2, StagesStay, Releases
  <1>3. ASSUME NEW r \in Requests, Ends(req[r], req'[r])
        PROVE  Books!Next
    BY <1>2, <1>3 DEF Ends, Unmoved, Serial
  <1>4. ASSUME NEW r \in Requests, req[r] \in TaskRequest, Advances(req[r], req'[r])
        PROVE  Books!Next \/ UNCHANGED Books!vars
    BY <1>0, <1>4, AdvancesRefines
  <1>5. ASSUME NEW r \in Requests, Grants(req[r], req'[r])
        PROVE  Books!Next
    <2> DEFINE q == req[r]
    <2>1. /\ q \in QuotaEdit /\ req'[r] = Idle /\ row' = row
          /\ quota' = [quota EXCEPT ![q.who] = q.quota]
      BY <1>5 DEF Grants
    <2>2. EditedTasks = {} /\ EditedTasks' = {} /\ OwedPhases = {} /\ OwedPhases' = {}
      BY <2>1, OneMaps DEF EditedBy, OwedBy, Idle, QuotaEdit, TaskRequest
    <2> HIDE DEF q
    <2>3. q.who \in Clients /\ q.quota \in 1 .. MaxQuota
      BY <2>1 DEF QuotaEdit
    <2>4. TaskStages' = TaskStages
      BY <2>1, StagesStay
    <2>5. Books!Grant(q.who, q.quota)
      BY <2>1, <2>2, <2>4 DEF Books!Grant, TaskStages
    <2> QED BY <2>3, <2>5 DEF Books!Next
  <1>6. CASE UNCHANGED vars
    BY <1>6 DEF vars, Books!vars, Stage, EditedTasks, OwedPhases, OnTask, At
  <1>7. CASE Next
    <2>1. ASSUME Unmoved, req' = AllIdle PROVE Books!Next
      BY <1>2, <2>1 DEF Unmoved, AllIdle
    <2> QED BY <1>0, <1>1, <1>3, <1>4, <1>5, <1>7, <2>1, StepKinds
  <1> QED BY <1>6, <1>7

\* While requests do not overlap, the machine with its copies, hooks, nested saves,
\* failed statements and crashes is a ledger: each admission and each entry into
\* recognition uses a payment of its own, nothing completes but from recognition,
\* and nothing but a payment or an administrator moves a quota.
THEOREM LedgerImplemented == Serial => (Spec => ImplementsLedger)
  <1> SUFFICES ASSUME Serial PROVE Spec => ImplementsLedger
    OBVIOUS
  <1>1. Init => Books!Init
    <2> SUFFICES ASSUME Init PROVE Books!Init
      OBVIOUS
    <2>1. OnTask = {}
      BY DEF Init, OnTask, At, AllIdle, Idle
    <2>2. EditedTasks = {} /\ OwedPhases = {}
      BY <2>1 DEF EditedTasks, OwedPhases
    <2>3. [t \in Tasks |-> Stage(t)] = [t \in Tasks |-> "absent"]
      BY StageMaps, Stages DEF Init, Blank
    <2> QED BY <2>2, <2>3 DEF Init, Books!Init
  <1>2. TypeOK /\ TypeOK' /\ Alone /\ [Next]_vars => [Books!Next]_(Books!vars)
    BY StepRefines
  <1>3. Spec => []Alone
    BY AloneHolds
  <1> QED BY <1>1, <1>2, <1>3, TypeCorrect, PTL DEF Spec, ImplementsLedger, Books!Spec
=============================================================================
