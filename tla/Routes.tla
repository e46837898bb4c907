------------------------------- MODULE Routes -------------------------------
(***************************************************************************)
(* The operations of the two servers as their tables state them: the       *)
(* routes of the REST router, those of the router the image tests set up,  *)
(* the operations of the Swagger document, and the methods of the gRPC     *)
(* services with the list of those that need a token.                      *)
(*                                                                         *)
(* A path is the sequence of its segments, "api/v1" being one; a segment   *)
(* in Parameters stands for any. The route that serves the Swagger page    *)
(* is left out.                                                            *)
(***************************************************************************)
EXTENDS Naturals, Sequences

Parameters == {":id", ":task_id", ":image_id"}

Route(method, path, handler, protected) ==
  [ method |-> method, path |-> path, handler |-> handler, protected |-> protected ]

\* The request's path has a segment for each parameter.
Matches(path, requested) ==
  /\ Len(path) = Len(requested)
  /\ \A i \in DOMAIN path : path[i] \in Parameters \/ path[i] = requested[i]

\* c.Param: the empty string for a parameter the route does not have.
Param(path, requested, parameter) ==
  IF \E i \in DOMAIN path : path[i] = parameter
  THEN requested[CHOOSE i \in DOMAIN path : path[i] = parameter]
  ELSE ""

\* A template with segments in the place of its parameters.
Filled(path, values) ==
  [i \in DOMAIN path |-> IF path[i] \in Parameters THEN values[path[i]] ELSE path[i]]

-----------------------------------------------------------------------------
(* The routers *)

PublicRoutes ==
  { Route("POST", <<"api/v1", "auth", "login">>, "Login", FALSE),
    Route("POST", <<"api/v1", "auth", "register">>, "Register", FALSE) }

apiAuth ==
  { Route("GET", <<"api/v1", "account">>, "GetAccountInfo", FALSE),
    Route("POST", <<"api/v1", "recognition_tasks">>, "CreateDataRecognitionTask", FALSE),
    Route("GET", <<"api/v1", "recognition_tasks">>, "ListDataRecognitionTask", FALSE),
    Route("GET", <<"api/v1", "recognition_tasks", ":id">>, "GetDataRecognitionTask", FALSE),
    Route("PUT", <<"api/v1", "recognition_tasks", ":id">>, "UpdateDataRecognitionTask", FALSE),
    Route("DELETE", <<"api/v1", "recognition_tasks", ":id">>, "DeleteDataRecognitionTask", FALSE),
    Route("POST", <<"api/v1", "images", "upload">>, "UploadImage", FALSE),
    Route("GET", <<"api/v1", "images", ":id">>, "GetImage", FALSE) }

\* Use adds the middleware to the routes that follow it.
ProtectedRoutes == { [route EXCEPT !.protected = TRUE] : route \in apiAuth }

SetupRouter == PublicRoutes \cup ProtectedRoutes

\* The middleware of the tests sets claims whatever the request has.
setupImageTest ==
  { Route("POST", <<"recognition-tasks", ":task_id", "images">>, "UploadImage", FALSE),
    Route("GET", <<"recognition-tasks", ":task_id", "images", ":image_id">>, "GetImage", FALSE) }

-----------------------------------------------------------------------------
(* The Swagger document; secured operations require BearerAuth. *)

Operation(method, path, secured) == [ method |-> method, path |-> path, secured |-> secured ]

AccountPaths ==
  { Operation("GET", <<"api/v1", "account">>, TRUE),
    Operation("POST", <<"api/v1", "auth", "login">>, FALSE),
    Operation("POST", <<"api/v1", "auth", "register">>, FALSE) }

TaskPaths ==
  { Operation("GET", <<"api/v1", "recognition_tasks">>, TRUE),
    Operation("POST", <<"api/v1", "recognition_tasks">>, TRUE) }

TaskIdPaths ==
  { Operation("GET", <<"api/v1", "recognition_tasks", ":id">>, TRUE),
    Operation("PUT", <<"api/v1", "recognition_tasks", ":id">>, TRUE) }

TaskDeletePath == { Operation("DELETE", <<"api/v1", "recognition_tasks", ":id">>, TRUE) }

ImagePaths ==
  { Operation("POST", <<"recognition-tasks", ":task_id", "images", "upload">>, FALSE),
    Operation("GET", <<"recognition-tasks", ":task_id", "images", ":image_id">>, FALSE) }

DocumentedOperations ==
  AccountPaths \cup TaskPaths \cup TaskIdPaths \cup TaskDeletePath \cup ImagePaths

-----------------------------------------------------------------------------
(* The gRPC services *)

Methods(service, unary, streams) ==
  [ service : {service}, method : unary, stream : {FALSE} ]
    \cup [ service : {service}, method : streams, stream : {TRUE} ]

TaskService_ServiceDesc ==
  Methods("TaskService", {"ReserveTask", "ReportTaskStatus", "FinishTask", "FailTask"},
          {"Subscribe"})

ImageService_ServiceDesc == Methods("ImageService", {"UploadImage", "GetImage"}, {})

ImageProcessingService_ServiceDesc ==
  Methods("ImageProcessingService", {"ClaimTask", "CompleteTask"}, {"GetNextPendingTask"})

ImageRecognitionService_ServiceDesc ==
  Methods("ImageRecognitionService", {"ClaimTask", "ReportProgress", "CompleteTask"},
          {"GetNextPendingTask"})

ServiceDescs ==
  TaskService_ServiceDesc \cup ImageService_ServiceDesc
    \cup ImageProcessingService_ServiceDesc \cup ImageRecognitionService_ServiceDesc

\* Mutant: a method was renamed and the list was not.
protectedMethodsOutdated ==
  [ service : {"TaskService"},
    method : {"ReserveTask", "ReportTaskProgress", "FinishTask", "FailTask"} ]

protectedMethods ==
  [ service : {"TaskService"},
    method : {"ReserveTask", "ReportTaskStatus", "FinishTask", "FailTask"} ]
=============================================================================
