--------------------------- MODULE MCTaskMachine ---------------------------
(* Small instances of TaskMachine: one client, whose quota admits one charge *)
(* or two.                                                                   *)
EXTENDS TaskMachine

CONSTANTS c1

MCOwner == [t \in Tasks |-> c1]
MCInitialQuota == [c \in Clients |-> 2]
LowQuota == [c \in Clients |-> 1]

\* Settable: every status, and the phases a user or administrator starts.
AllStatuses == Status
PhaseStatuses ==
  { "READY_FOR_PROCESSING", "IMAGES_PROCESSING", "RECOGNITION_PROCESSING" }

\* Operations: all, those of the workers with what leads to them, and these
\* with deletions.
AllOperations == OperationNames
WorkerOperations == Grpc \cup { "create", "setStatus" }
TaskOperations == WorkerOperations \cup { "delete" }
=============================================================================
