-------------------------------- MODULE Seed --------------------------------
(***************************************************************************)
(* The seed that the admin server runs before it serves: a default admin   *)
(* if there is none, and, if client 1 is missing, that client with a user, *)
(* a task and two uploaded images. Programs that share the database seed   *)
(* at the same time, fail anywhere and are started again. One action is    *)
(* one statement or upload. Nobody deletes client 1 meanwhile.             *)
(***************************************************************************)
EXTENDS Integers, Sequences

CONSTANTS
  Programs,   \* programs that run an admin server on one database
  Files,      \* number of files of static/test_data (2)
  MaxFaults   \* bound: failures and restarts

ASSUME SeedAssumption == Files \in Nat \ {0} /\ MaxFaults \in Nat

VARIABLES
  admins,     \* rows of table admins
  client,     \* whether client 1 exists
  users,      \* users of client 1
  tasks,      \* tasks of client 1: how many of the files each lists
  objects,    \* uploaded images, as pairs of a task and a file
  pc,         \* the next statement of each program
  list,       \* length of task.SourceImages in the memory of each program
  faults      \* failures and restarts so far

tables == <<admins, client, users, tasks>>
vars == <<tables, objects, pc, list, faults>>

Steps == { "count", "createAdmin", "first", "createClient", "createUser",
           "createTask", "upload", "saveTask", "serving", "failed" }

At(p, l) == pc[p] = l
Move(p, l) == pc' = [pc EXCEPT ![p] = l]

\* The demo task a program works on is the last one created.
Mine == Len(tasks)

-----------------------------------------------------------------------------
(* initAdminUser *)

CountAdmins(p) ==
  /\ At(p, "count")
  /\ Move(p, IF admins = 0 THEN "createAdmin" ELSE "first")
  /\ UNCHANGED <<tables, objects, list, faults>>

\* Mutant: a count that failed passes for an admin that exists.
CountFailsSkips(p) ==
  /\ At(p, "count")
  /\ faults < MaxFaults
  /\ faults' = faults + 1
  /\ Move(p, "first")
  /\ UNCHANGED <<tables, objects, list>>

\* The error of Count is not looked at, and count is still 0.
CountFails(p) ==
  /\ At(p, "count")
  /\ faults < MaxFaults
  /\ faults' = faults + 1
  /\ Move(p, "createAdmin")
  /\ UNCHANGED <<tables, objects, list>>

\* No column of the table is unique but its id.
CreateAdmin(p) ==
  /\ At(p, "createAdmin")
  /\ admins' = admins + 1
  /\ Move(p, "first")
  /\ UNCHANGED <<client, users, tasks, objects, list, faults>>

-----------------------------------------------------------------------------
(* seedClient *)

FirstClient(p) ==
  /\ At(p, "first")
  /\ Move(p, IF client THEN "serving" ELSE "createClient")
  /\ UNCHANGED <<tables, objects, list, faults>>

\* Any error of First passes for a client that is missing.
FirstFails(p) ==
  /\ At(p, "first")
  /\ faults < MaxFaults
  /\ faults' = faults + 1
  /\ Move(p, "createClient")
  /\ UNCHANGED <<tables, objects, list>>

\* Mutant: an existing client is left alone and the seed goes on.
CreateClientOrKeep(p) ==
  /\ At(p, "createClient")
  /\ client' = TRUE
  /\ Move(p, "createUser")
  /\ UNCHANGED <<admins, users, tasks, objects, list, faults>>

\* The primary key refuses a second client 1.
CreateClient(p) ==
  /\ At(p, "createClient")
  /\ client' = TRUE
  /\ Move(p, IF client THEN "failed" ELSE "createUser")
  /\ UNCHANGED <<admins, users, tasks, objects, list, faults>>

CreateUser(p) ==
  /\ At(p, "createUser")
  /\ users' = users + 1
  /\ Move(p, "createTask")
  /\ UNCHANGED <<admins, client, tasks, objects, list, faults>>

CreateTask(p) ==
  /\ At(p, "createTask")
  /\ tasks' = Append(tasks, 0)
  /\ list' = [list EXCEPT ![p] = 0]
  /\ Move(p, "upload")
  /\ UNCHANGED <<admins, client, users, objects, faults>>

\* Mutant: the loop goes on to the next file when an upload failed.
UploadMayFail(p) ==
  LET i == list[p] + 1 IN
  /\ At(p, "upload")
  /\ objects' \in { objects, objects \cup {<<Mine, i>>} }
  /\ list' = [list EXCEPT ![p] = i]
  /\ Move(p, IF i = Files THEN "saveTask" ELSE "upload")
  /\ UNCHANGED <<tables, faults>>

\* Mutant: the last file is listed twice.
UploadOnceMore(p) ==
  LET i == list[p] + 1 IN
  /\ At(p, "upload")
  /\ objects' = objects \cup {<<Mine, i>>}
  /\ list' = [list EXCEPT ![p] = i]
  /\ Move(p, IF i > Files THEN "saveTask" ELSE "upload")
  /\ UNCHANGED <<tables, faults>>

\* One round of the loop: the next file is stored, then listed.
UploadTaskImage(p) ==
  LET i == list[p] + 1 IN
  /\ At(p, "upload")
  /\ objects' = objects \cup {<<Mine, i>>}
  /\ list' = [list EXCEPT ![p] = i]
  /\ Move(p, IF i = Files THEN "saveTask" ELSE "upload")
  /\ UNCHANGED <<tables, faults>>

\* The file is stored, but its URL cannot be signed.
PresignFails(p) ==
  /\ At(p, "upload")
  /\ faults < MaxFaults
  /\ faults' = faults + 1
  /\ objects' = objects \cup {<<Mine, list[p] + 1>>}
  /\ Move(p, "failed")
  /\ UNCHANGED <<tables, list>>

SaveTask(p) ==
  /\ At(p, "saveTask")
  /\ tasks' = [tasks EXCEPT ![Mine] = list[p]]
  /\ Move(p, "serving")
  /\ UNCHANGED <<admins, client, users, objects, list, faults>>

\* Any other error is returned, and the admin server does not start.
StepFails(p) ==
  /\ pc[p] \in { "createAdmin", "createClient", "createUser", "createTask",
                 "upload", "saveTask" }
  /\ faults < MaxFaults
  /\ faults' = faults + 1
  /\ Move(p, "failed")
  /\ UNCHANGED <<tables, objects, list>>

\* A program is killed, or has failed, and is started again.
Restart(p) ==
  /\ faults < MaxFaults
  /\ faults' = faults + 1
  /\ Move(p, "count")
  /\ UNCHANGED <<tables, objects, list>>

-----------------------------------------------------------------------------
Init ==
  /\ admins = 0
  /\ client = FALSE
  /\ users = 0
  /\ tasks = << >>
  /\ objects = {}
  /\ pc = [p \in Programs |-> "count"]
  /\ list = [p \in Programs |-> 0]
  /\ faults = 0

Next ==
  \E p \in Programs :
    \/ CountAdmins(p)
    \/ CountFails(p)
    \/ CreateAdmin(p)
    \/ FirstClient(p)
    \/ FirstFails(p)
    \/ CreateClient(p)
    \/ CreateUser(p)
    \/ CreateTask(p)
    \/ UploadTaskImage(p)
    \/ PresignFails(p)
    \/ SaveTask(p)
    \/ StepFails(p)
    \/ Restart(p)

Spec == Init /\ [][Next]_vars

-----------------------------------------------------------------------------
(* Properties *)

\* Programs are at a statement of the seed, and list files that there are.
TypeOK ==
  /\ admins \in Nat
  /\ client \in BOOLEAN
  /\ users \in Nat
  /\ tasks \in Seq(0 .. Files)
  /\ objects \subseteq Nat \X (1 .. Files)
  /\ pc \in [Programs -> Steps]
  /\ list \in [Programs -> 0 .. Files]
  /\ faults \in 0 .. MaxFaults

Seeding(p) == pc[p] \in { "createUser", "createTask", "upload", "saveTask" }

\* However many programs seed, and however often they are killed, the primary
\* key of the client lets one of them on: there is never a second demo user or
\* task.
SeededOnce == users <= 1 /\ Len(tasks) <= 1

\* The admin server never serves a database without an admin to log in: errors
\* that are not looked at create one too many rather than none.
AdminBeforeServing == (\E p \in Programs : At(p, "serving")) => admins > 0

\* A task lists only images that are in the storage.
ListedStored == \A t \in 1 .. Len(tasks) : \A i \in 1 .. tasks[t] : <<t, i>> \in objects
=============================================================================
