----------------------------- MODULE TaskStatus -----------------------------
(***************************************************************************)
(* The statuses of a data recognition task (proto/models.proto) and the    *)
(* groups the code tells apart.                                            *)
(***************************************************************************)

\* The enum Status, without its STATUS_ prefix. The column, the form of a task and
\* the body of a request take any number: "UNKNOWN" is one that the enum lacks.
Status ==
  { "UNKNOWN", "CREATED", "READY_FOR_PROCESSING",
    "IMAGES_PENDING", "IMAGES_PROCESSING", "IMAGES_COMPLETED",
    "IMAGES_FAILED_QUOTA", "IMAGES_FAILED_PROCESSING", "IMAGES_FAILED_TIMEOUT",
    "RECOGNITION_PENDING", "RECOGNITION_PROCESSING", "RECOGNITION_COMPLETED",
    "RECOGNITION_FAILED_QUOTA", "RECOGNITION_FAILED_PROCESSING",
    "RECOGNITION_FAILED_TIMEOUT", "PROCESSING_COMPLETED" }

\* types.IsTerminalState.
Terminal ==
  { "PROCESSING_COMPLETED",
    "IMAGES_FAILED_QUOTA", "IMAGES_FAILED_TIMEOUT", "IMAGES_FAILED_PROCESSING",
    "RECOGNITION_FAILED_TIMEOUT", "RECOGNITION_FAILED_PROCESSING",
    "RECOGNITION_FAILED_QUOTA" }

\* The statuses notifySubscribers publishes, one per worker queue.
Pending == { "IMAGES_PENDING", "RECOGNITION_PENDING" }

\* A task in one of these has passed the recognition quota check.
Recognised ==
  { "RECOGNITION_PENDING", "RECOGNITION_PROCESSING", "RECOGNITION_COMPLETED",
    "RECOGNITION_FAILED_PROCESSING", "RECOGNITION_FAILED_TIMEOUT",
    "PROCESSING_COMPLETED" }
=============================================================================
