------------------------------ MODULE SeedProofs ------------------------------
(* Proofs about Seed, for any number of programs and of files, and however   *)
(* often the programs fail.                                                  *)
EXTENDS Seed, SequenceTheorems, TLAPS

\* The insertion of client 1 is the lock of the seed: it opens once, and the
\* one program it lets on finds no user and no task but its own.
OneSeeder ==
  /\ client \/ (users = 0 /\ Len(tasks) = 0)
  /\ \A p \in Programs : Seeding(p) => client
  /\ \A p, q \in Programs : Seeding(p) /\ Seeding(q) => p = q

\* What the seeding program has created when it reaches a statement.
Progress ==
  \A p \in Programs :
    /\ At(p, "createUser") => users = 0
    /\ pc[p] \in {"createUser", "createTask"} => Len(tasks) = 0
    /\ pc[p] \in {"upload", "saveTask"} => Len(tasks) = 1

\* The images in the memory of the seeding program have been uploaded for its
\* task, and in the loop there is a file left.
Uploaded ==
  \A p \in Programs :
    /\ At(p, "upload") => list[p] < Files
    /\ pc[p] \in {"upload", "saveTask"} => \A i \in 1 .. list[p] : <<1, i>> \in objects

\* Whoever has left initAdminUser leaves an admin behind.
AdminAfterInit ==
  \A p \in Programs : pc[p] \notin {"count", "createAdmin", "failed"} => admins > 0

\* The inductive invariant.
IInv ==
  TypeOK /\ OneSeeder /\ SeededOnce /\ Progress /\ Uploaded /\ AdminAfterInit /\ ListedStored

-----------------------------------------------------------------------------
(* The invariant is inductive *)

\* Nothing is seeded before the first program starts.
LEMMA InitIInv == Init => IInv
  <1> SUFFICES ASSUME Init PROVE IInv
    OBVIOUS
  <1>1. Len(tasks) = 0 /\ tasks \in Seq(0 .. Files)
    BY EmptySeq DEF Init
  <1>2. \A p \in Programs : At(p, "count")
    BY DEF Init, At
  <1>3. TypeOK
    <2>1. pc \in [Programs -> Steps] /\ list \in [Programs -> 0 .. Files]
      BY SeedAssumption DEF Init, Steps
    <2>2. faults \in 0 .. MaxFaults /\ objects \subseteq Nat \X (1 .. Files)
      BY SeedAssumption DEF Init
    <2> QED BY <1>1, <2>1, <2>2 DEF Init, TypeOK
  <1>4. OneSeeder /\ SeededOnce /\ Progress /\ ListedStored
    BY <1>1, <1>2 DEF Init, OneSeeder, SeededOnce, Progress, ListedStored, Seeding, At
  <1>5. Uploaded /\ AdminAfterInit
    BY <1>2 DEF Uploaded, AdminAfterInit, At
  <1> QED BY <1>3, <1>4, <1>5 DEF IInv

\* A statement that reads, or that fails, takes its program forward or out of
\* the seed, never into it, and leaves the database alone.
LEMMA ReadsKeep ==
  ASSUME IInv, NEW p \in Programs,
         \/ CountAdmins(p) \/ CountFails(p) \/ FirstClient(p) \/ FirstFails(p)
         \/ StepFails(p) \/ Restart(p)
  PROVE  IInv'
  <1> USE DEF IInv, TypeOK, At, Move, Seeding, tables
  <1>1. UNCHANGED <<tables, objects, list>>
    BY DEF CountAdmins, CountFails, FirstClient, FirstFails, StepFails, Restart
  <1>2. PICK l \in {"count", "createAdmin", "first", "serving", "createClient", "failed"} :
          /\ pc' = [pc EXCEPT ![p] = l]
          /\ l \in {"first", "serving", "createClient"} => admins > 0
    BY DEF CountAdmins, CountFails, FirstClient, FirstFails, StepFails, Restart, AdminAfterInit
  <1>3. TypeOK'
    <2>1. faults' \in 0 .. MaxFaults
      BY SeedAssumption DEF CountAdmins, CountFails, FirstClient, FirstFails, StepFails, Restart
    <2>2. pc' \in [Programs -> Steps]
      BY <1>2 DEF Steps
    <2> QED BY <1>1, <2>1, <2>2
  <1>4. \A q \in Programs : pc'[q] = IF q = p THEN l ELSE pc[q]
    BY <1>2
  <1>5. OneSeeder'
    BY <1>1, <1>4 DEF OneSeeder
  <1>6. Progress' /\ SeededOnce'
    BY <1>1, <1>4 DEF Progress, SeededOnce
  <1>7. Uploaded' /\ ListedStored'
    BY <1>1, <1>4 DEF Uploaded, ListedStored
  <1>8. AdminAfterInit'
    BY <1>1, <1>2, <1>4 DEF AdminAfterInit
  <1> QED BY <1>3, <1>5, <1>6, <1>7, <1>8

\* One more admin.
LEMMA CreateAdminKeeps ==
  ASSUME IInv, NEW p \in Programs, CreateAdmin(p)
  PROVE  IInv'
  <1> USE DEF IInv, TypeOK, At, Move, Seeding, CreateAdmin
  <1>1. \A q \in Programs : pc'[q] = IF q = p THEN "first" ELSE pc[q]
    OBVIOUS
  <1>2. TypeOK' /\ AdminAfterInit'
    BY <1>1 DEF Steps, AdminAfterInit
  <1>3. OneSeeder' /\ SeededOnce' /\ Progress'
    BY <1>1 DEF OneSeeder, SeededOnce, Progress
  <1>4. Uploaded' /\ ListedStored'
    BY <1>1 DEF Uploaded, ListedStored
  <1> QED BY <1>2, <1>3, <1>4

\* The insertion of the client: whoever passes is the first.
LEMMA CreateClientKeeps ==
  ASSUME IInv, NEW p \in Programs, CreateClient(p)
  PROVE  IInv'
  <1> USE DEF IInv, TypeOK, At, Move, Seeding, CreateClient
  <1>1. \A q \in Programs :
          pc'[q] = IF q = p THEN (IF client THEN "failed" ELSE "createUser") ELSE pc[q]
    OBVIOUS
  <1>2. TypeOK' /\ AdminAfterInit'
    BY <1>1 DEF Steps, AdminAfterInit
  <1>3. OneSeeder' /\ SeededOnce'
    BY <1>1 DEF OneSeeder, SeededOnce
  <1>4. Progress'
    BY <1>1 DEF OneSeeder, Progress
  <1>5. Uploaded' /\ ListedStored'
    BY <1>1 DEF Uploaded, ListedStored
  <1> QED BY <1>2, <1>3, <1>4, <1>5

\* The user of the client.
LEMMA CreateUserKeeps ==
  ASSUME IInv, NEW p \in Programs, CreateUser(p)
  PROVE  IInv'
  <1> USE DEF IInv, TypeOK, At, Move, Seeding, CreateUser
  <1>1. \A q \in Programs : pc'[q] = IF q = p THEN "createTask" ELSE pc[q]
    OBVIOUS
  <1>2. users = 0 /\ users' = 1 /\ Len(tasks) = 0 /\ client
    BY DEF Progress, OneSeeder
  <1>3. TypeOK' /\ AdminAfterInit'
    BY <1>1 DEF Steps, AdminAfterInit
  <1>4. OneSeeder' /\ SeededOnce'
    BY <1>1, <1>2 DEF OneSeeder, SeededOnce
  <1>5. Progress'
    BY <1>1, <1>2 DEF OneSeeder, Progress
  <1>6. Uploaded' /\ ListedStored'
    BY <1>1 DEF Uploaded, ListedStored
  <1> QED BY <1>3, <1>4, <1>5, <1>6

\* The task of the user, with no image yet.
LEMMA CreateTaskKeeps ==
  ASSUME IInv, NEW p \in Programs, CreateTask(p)
  PROVE  IInv'
  <1> USE DEF IInv, TypeOK, At, Move, Seeding, CreateTask
  <1>1. \A q \in Programs : pc'[q] = IF q = p THEN "upload" ELSE pc[q]
    OBVIOUS
  <1>2. \A q \in Programs : list'[q] = IF q = p THEN 0 ELSE list[q]
    OBVIOUS
  <1>3. Len(tasks) = 0 /\ client
    BY DEF Progress, OneSeeder
  <1>4. 0 \in 0 .. Files /\ tasks' = Append(tasks, 0)
    BY SeedAssumption
  <1>5. tasks' \in Seq(0 .. Files) /\ Len(tasks') = 1 /\ tasks'[1] = 0
    BY <1>3, <1>4
  <1>6. TypeOK' /\ AdminAfterInit'
    BY <1>1, <1>4, <1>5 DEF Steps, AdminAfterInit
  <1>7. OneSeeder' /\ SeededOnce'
    BY <1>1, <1>3, <1>5 DEF OneSeeder, SeededOnce
  <1>8. Progress'
    BY <1>1, <1>5 DEF OneSeeder, Progress
  <1>9. Uploaded' /\ ListedStored'
    BY <1>1, <1>2, <1>5, SeedAssumption DEF OneSeeder, Uploaded, ListedStored
  <1> QED BY <1>6, <1>7, <1>8, <1>9

\* One round of the loop: the image is stored before it is listed.
LEMMA UploadKeeps ==
  ASSUME IInv, NEW p \in Programs, UploadTaskImage(p)
  PROVE  IInv'
  <1> USE DEF IInv, TypeOK, At, Move, Seeding, UploadTaskImage, tables
  <1> DEFINE i == list[p] + 1
  <1>1. \A q \in Programs :
          pc'[q] = IF q = p THEN (IF i = Files THEN "saveTask" ELSE "upload") ELSE pc[q]
    OBVIOUS
  <1>2. \A q \in Programs : list'[q] = IF q = p THEN i ELSE list[q]
    OBVIOUS
  <1>3. Mine = 1 /\ i \in 1 .. Files /\ objects' = objects \cup {<<1, i>>}
    <2>1. Mine = 1 /\ list[p] < Files
      BY DEF Progress, Uploaded, Mine
    <2>2. list[p] \in 0 .. Files
      OBVIOUS
    <2> QED BY <2>1, <2>2, SeedAssumption
  <1>4. TypeOK' /\ AdminAfterInit'
    BY <1>1, <1>3 DEF Steps, AdminAfterInit
  <1>5. OneSeeder' /\ SeededOnce'
    BY <1>1 DEF OneSeeder, SeededOnce
  <1>6. Progress'
    BY <1>1 DEF Progress
  <1>7. ListedStored'
    BY <1>3 DEF ListedStored
  <1>8. Uploaded'
    <2>1. \A j \in 1 .. i : j = i \/ j \in 1 .. list[p]
      BY <1>3
    <2>2. \A j \in 1 .. i : <<1, j>> \in objects'
      BY <1>3, <2>1 DEF Uploaded
    <2>3. ASSUME NEW q \in Programs, q # p
          PROVE  /\ pc'[q] = "upload" => list'[q] < Files
                 /\ pc'[q] \in {"upload", "saveTask"} =>
                      \A j \in 1 .. list'[q] : <<1, j>> \in objects'
      BY <2>3, <1>1, <1>2 DEF Uploaded
    <2>4. pc'[p] = "upload" => list'[p] < Files
      BY <1>1, <1>2, <1>3, SeedAssumption
    <2> QED BY <1>2, <2>2, <2>3, <2>4 DEF Uploaded
  <1> QED BY <1>4, <1>5, <1>6, <1>7, <1>8

\* An image that is stored and never listed.
LEMMA PresignKeeps ==
  ASSUME IInv, NEW p \in Programs, PresignFails(p)
  PROVE  IInv'
  <1> USE DEF IInv, TypeOK, At, Move, Seeding, PresignFails, tables
  <1>1. \A q \in Programs : pc'[q] = IF q = p THEN "failed" ELSE pc[q]
    OBVIOUS
  <1>2. Mine = 1 /\ list[p] + 1 \in 1 .. Files
    BY SeedAssumption DEF Progress, Uploaded, Mine
  <1>3. TypeOK' /\ AdminAfterInit'
    BY <1>1, <1>2, SeedAssumption DEF Steps, AdminAfterInit
  <1>4. OneSeeder' /\ SeededOnce' /\ Progress'
    BY <1>1 DEF OneSeeder, SeededOnce, Progress
  <1>5. Uploaded' /\ ListedStored'
    BY <1>1 DEF Uploaded, ListedStored
  <1> QED BY <1>3, <1>4, <1>5

\* Saving the only task keeps it the only one.
LEMMA SetOnly ==
  ASSUME NEW t \in Seq(0 .. Files), Len(t) = 1, NEW n \in 0 .. Files
  PROVE  /\ [t EXCEPT ![1] = n] \in Seq(0 .. Files)
         /\ Len([t EXCEPT ![1] = n]) = 1
         /\ [t EXCEPT ![1] = n][1] = n
  <1>1. 1 \in 1 .. Len(t)
    OBVIOUS
  <1>2. \A j \in 1 .. Len(t) : [t EXCEPT ![1] = n][j] = IF j = 1 THEN n ELSE t[j]
    BY <1>1, ExceptSeq
  <1> QED BY <1>1, <1>2, ExceptSeq

\* The save of the task with the images of the loop.
LEMMA SaveTaskKeeps ==
  ASSUME IInv, NEW p \in Programs, SaveTask(p)
  PROVE  IInv'
  <1> USE DEF IInv, TypeOK, At, Move, Seeding, SaveTask
  <1>1. \A q \in Programs : pc'[q] = IF q = p THEN "serving" ELSE pc[q]
    OBVIOUS
  <1>2. Mine = 1 /\ Len(tasks) = 1
    BY DEF Progress, Mine
  <1>3. tasks' \in Seq(0 .. Files) /\ Len(tasks') = 1 /\ tasks'[1] = list[p]
    <2>1. 1 \in 1 .. Len(tasks) /\ list[p] \in 0 .. Files /\ tasks \in Seq(0 .. Files)
      BY <1>2
    <2>2. tasks' = [tasks EXCEPT ![1] = list[p]]
      BY <1>2
    <2> HIDE DEF IInv, SaveTask, TypeOK
    <2> QED BY <1>2, <2>1, <2>2, SetOnly
  <1>4. TypeOK' /\ AdminAfterInit'
    BY <1>1, <1>3 DEF Steps, AdminAfterInit
  <1>5. OneSeeder' /\ SeededOnce' /\ Progress'
    BY <1>1, <1>2, <1>3 DEF OneSeeder, SeededOnce, Progress
  <1>6. Uploaded'
    BY <1>1 DEF Uploaded
  <1>7. ListedStored'
    <2>1. \A i \in 1 .. list[p] : <<1, i>> \in objects
      BY DEF Uploaded
    <2>2. \A t \in 1 .. 1 : t = 1
      OBVIOUS
    <2>3. objects' = objects
      OBVIOUS
    <2> HIDE DEF IInv, SaveTask, TypeOK
    <2> QED BY <1>3, <2>1, <2>2, <2>3 DEF ListedStored
  <1> QED BY <1>4, <1>5, <1>6, <1>7

\* Every step of every program keeps the invariant.
LEMMA Inductive == IInv /\ [Next]_vars => IInv'
  <1> SUFFICES ASSUME IInv, [Next]_vars PROVE IInv'
    OBVIOUS
  <1>1. CASE UNCHANGED vars
    BY <1>1 DEF vars, tables, IInv, TypeOK, OneSeeder, SeededOnce, Progress, Uploaded,
        AdminAfterInit, ListedStored, Seeding, At
  <1>2. CASE Next
    BY <1>2, ReadsKeep, CreateAdminKeeps, CreateClientKeeps, CreateUserKeeps,
       CreateTaskKeeps, UploadKeeps, PresignKeeps, SaveTaskKeeps
    DEF Next
  <1> QED BY <1>1, <1>2

-----------------------------------------------------------------------------
(* The theorems *)

\* Every state of the seed satisfies the inductive invariant.
THEOREM Invariance == Spec => []IInv
  BY InitIInv, Inductive, PTL DEF Spec

\* The seed stays within its types.
THEOREM TypeSafety == Spec => []TypeOK
  BY Invariance, PTL DEF IInv

\* However many programs seed a database at the same time, and however they
\* fail and are started again, there is one demo user and one demo task at most.
THEOREM NoSecondSeed == Spec => []SeededOnce
  BY Invariance, PTL DEF IInv

\* No admin server serves without an admin in the database.
THEOREM AdminIsThere == Spec => []AdminBeforeServing
  <1>1. IInv => AdminBeforeServing
    BY DEF IInv, AdminAfterInit, AdminBeforeServing, At
  <1> QED BY <1>1, Invariance, PTL

\* The images a task lists are in the storage.
THEOREM ImagesAreThere == Spec => []ListedStored
  BY Invariance, PTL DEF IInv
=============================================================================
