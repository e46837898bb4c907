-------------------------- MODULE TaskQueriesProofs --------------------------
(* Proofs about RowStore and TaskQueries, for any number of callers, rows and *)
(* operations, and any values, messages, field masks and pages.               *)
EXTENDS TaskQueries, FiniteSetTheorems, SequenceTheorems, TLAPS

Task == "DataRecognitionTask"

\* What a column may have.
Domain(f) == IF f = "ClientId" THEN Ids \cup {Zero} ELSE Scalars

TablesOK(tables) ==
  /\ DOMAIN tables = Entities
  /\ \A e \in Entities : tables[e] \in [Ids -> Rows[e] \cup {NoRow}]

-----------------------------------------------------------------------------
(* Rows, messages and objects *)

\* A row is what has the columns of its table, each with a value it may have.
LEMMA RowsHaveColumns ==
  ASSUME NEW e \in Entities
  PROVE  /\ \A row \in Rows[e] : row # NoRow /\ \A f \in Columns[e] : row[f] \in Domain(f)
         /\ \A g : (\A f \in Columns[e] : g[f] \in Domain(f))
                     => [f \in Columns[e] |-> g[f]] \in Rows[e]
  <1>1. CASE e = "Client"
    BY <1>1 DEF Rows, ClientORM, Columns, NoRow, Domain
  <1>2. CASE e = "ClientUser"
    BY <1>2 DEF Rows, ClientUserORM, Columns, NoRow, Domain
  <1>3. CASE e = "Admin"
    BY <1>3 DEF Rows, AdminORM, Columns, NoRow, Domain
  <1>4. CASE e = "DataRecognitionTask"
    BY <1>4 DEF Rows, DataRecognitionTaskORM, Columns, NoRow, Domain
  <1> QED BY <1>1, <1>2, <1>3, <1>4 DEF Entities

\* Conversions keep ids and values; a task loses its result.
LEMMA ObjectsAreTyped ==
  ASSUME NEW e \in Entities, NEW m \in Messages[e]
  PROVE  /\ ToORM(e, m).id = m.id /\ m.id \in Ids \cup {Zero}
         /\ \A f \in Columns[e] : ToORM(e, m)[f] \in Domain(f)
         /\ e \in BelongsToClient => ToORM(e, m).Client = m.Client /\ m.Client \in Clients
         /\ AfterToPBPanics(e, ToORM(e, m)) <=> e = Task
  <1> USE DEF Messages, ToORM, Columns, Domain, BelongsToClient, AfterToPBPanics, Task
  <1>1. CASE e = "Client"
    BY <1>1 DEF ClientToORM
  <1>2. CASE e = "ClientUser"
    BY <1>2 DEF ClientUserToORM
  <1>3. CASE e = "Admin"
    BY <1>3 DEF AdminToORM
  <1>4. CASE e = "DataRecognitionTask"
    BY <1>4 DEF DataRecognitionTaskToORM, Scalars
  <1> QED BY <1>1, <1>2, <1>3, <1>4 DEF Entities

\* A client that is associated is one that may be stored.
LEMMA AssociatedClients ==
  ASSUME NEW e \in Entities, NEW m \in Messages[e], NEW client \in Associated(e, ToORM(e, m))
  PROVE  /\ client \in Ids \cup {Zero}
         /\ e \notin BelongsToClient \/ m.Client = Zero => client = Zero
  <1>1. CASE e \notin BelongsToClient
    BY <1>1 DEF Associated
  <1>2. CASE e \in BelongsToClient
    <2>1. ToORM(e, m).Client = m.Client /\ m.Client \in Clients
      BY <1>2, ObjectsAreTyped
    <2> QED BY <1>2, <2>1 DEF Associated, FreeIds, Clients, Unsaved, Zero
  <1> QED BY <1>1, <1>2

\* What a query fetches is the row.
LEMMA FetchedRow ==
  ASSUME NEW e \in Entities, NEW id
  PROVE  /\ \A f \in Columns[e] : Fetched(e, id)[f] = rows[e][id][f]
         /\ Fetched(e, id).id = id
         /\ e \in BelongsToClient => Fetched(e, id).Client = Zero
  BY DEF Fetched, Columns, Entities, BelongsToClient
\* A patched message is a message: it has the id of the row, the row's columns
\* where the mask names no other, and no client unless the mask names one.
LEMMA PatchedMessage ==
  ASSUME NEW e \in Entities, NEW id \in Ids, rows[e][id] \in Rows[e],
         NEW patcher \in Messages[e], NEW mask \in SUBSET Fields[e],
         NEW m, m = DefaultApplyFieldMask(e, ToPB(e, Fetched(e, id)), patcher, mask)
  PROVE  /\ m \in Messages[e]
         /\ m.id = id
         /\ \A f \in Columns[e] \ Named(mask) :
              \/ ToORM(e, m)[f] = rows[e][id][f]
              \/ e = Task /\ f \in {"ClientId", "RecognitionResult"}
         /\ e = "ClientUser" /\ mask \cap {"Client", "Client.Id", "Client.Name"} = {}
              => m.Client = Zero
  <1>0. /\ \A f \in Columns[e] : /\ Fetched(e, id)[f] = rows[e][id][f]
                                 /\ Fetched(e, id)[f] \in Domain(f)
        /\ Fetched(e, id).id = id
        /\ e \in BelongsToClient => Fetched(e, id).Client = Zero
    BY FetchedRow, RowsHaveColumns
  <1> DEFINE o == Fetched(e, id)
  <1> HIDE DEF o
  <1>1. CASE e = "Client"
    <2>1. /\ o.Name \in Scalars /\ o.Name = rows[e][id].Name
          /\ o.Quota \in Scalars /\ o.Quota = rows[e][id].Quota /\ o.id = id
      BY <1>0, <1>1 DEF o, Columns, Domain
    <2>2. /\ patcher.Name \in Scalars /\ patcher.Quota \in Scalars
      BY <1>1 DEF Messages
    <2>3. m = [ id |-> id, Name |-> IF "Name" \in mask THEN patcher.Name ELSE o.Name,
                Quota |-> IF "Quota" \in mask THEN patcher.Quota ELSE o.Quota ]
      BY <1>1, <2>1 DEF o, Fields, ToPB, ClientToPB, DefaultApplyFieldMask,
         DefaultApplyFieldMaskClient
    <2>4. m \in Messages[e] /\ m.id = id
      BY <1>1, <2>1, <2>2, <2>3 DEF Messages
    <2>5. \A f \in Columns[e] \ mask : ToORM(e, m)[f] = rows[e][id][f]
      BY <1>1, <2>1, <2>3 DEF ToORM, ClientToORM, Columns
    <2> QED BY <1>1, <2>4, <2>5 DEF Named
  <1>2. CASE e = "Admin"
    <2>1. /\ o.Email \in Scalars /\ o.Email = rows[e][id].Email
          /\ o.Password \in Scalars /\ o.Password = rows[e][id].Password /\ o.id = id
      BY <1>0, <1>2 DEF o, Columns, Domain
    <2>2. /\ patcher.Email \in Scalars /\ patcher.Password \in Scalars
      BY <1>2 DEF Messages
    <2>3. m = [ id |-> id, Email |-> IF "Email" \in mask THEN patcher.Email ELSE o.Email,
                Password |-> IF "Password" \in mask THEN patcher.Password ELSE o.Password ]
      BY <1>2, <2>1 DEF o, Fields, ToPB, AdminToPB, DefaultApplyFieldMask,
         DefaultApplyFieldMaskAdmin
    <2>4. m \in Messages[e] /\ m.id = id
      BY <1>2, <2>1, <2>2, <2>3 DEF Messages
    <2>5. \A f \in Columns[e] \ mask : ToORM(e, m)[f] = rows[e][id][f]
      BY <1>2, <2>1, <2>3 DEF ToORM, AdminToORM, Columns
    <2> QED BY <1>2, <2>4, <2>5 DEF Named
  <1>3. CASE e = "ClientUser"
    <2>1. /\ o.Email \in Scalars /\ o.Email = rows[e][id].Email
          /\ o.ClientId \in Ids \cup {Zero} /\ o.ClientId = rows[e][id].ClientId
          /\ o.Client = Zero /\ o.id = id
      BY <1>0, <1>3 DEF o, Columns, Domain, BelongsToClient
    <2>2. /\ patcher.Email \in Scalars /\ patcher.ClientId \in Ids \cup {Zero}
          /\ patcher.Client \in Clients
      BY <1>3 DEF Messages
    <2>3. MaskedClient(patcher, mask) \in Clients /\ Zero \in Clients
      BY <2>2 DEF MaskedClient, Clients
    <2>4. m = [ id |-> id, Email |-> IF "Email" \in mask THEN patcher.Email ELSE o.Email,
                ClientId |-> IF "ClientId" \in mask THEN patcher.ClientId ELSE o.ClientId,
                Client |-> IF "Client" \in mask THEN patcher.Client
                           ELSE IF mask \cap {"Client.Id", "Client.Name"} # {}
                                THEN MaskedClient(patcher, mask) ELSE Zero ]
      BY <1>3, <2>1 DEF o, Fields, ToPB, ClientUserToPB, DefaultApplyFieldMask,
         DefaultApplyFieldMaskClientUser, NestedMask
    <2>5. m \in Messages[e] /\ m.id = id
      <3>1. m.Email \in Scalars /\ m.ClientId \in Ids \cup {Zero} /\ m.Client \in Clients
        BY <2>1, <2>2, <2>3, <2>4
      <3> QED BY <1>3, <2>4, <3>1 DEF Messages
    <2>6. \A f \in Columns[e] \ mask : ToORM(e, m)[f] = rows[e][id][f]
      BY <1>3, <2>1, <2>4 DEF ToORM, ClientUserToORM, Columns
    <2>7. mask \cap {"Client", "Client.Id", "Client.Name"} = {} => m.Client = Zero
      BY <2>4
    <2> QED BY <1>3, <2>5, <2>6, <2>7 DEF Named
  <1>4. CASE e = "DataRecognitionTask"
    <2>1. /\ o.Status \in Scalars /\ o.Status = rows[e][id].Status
          /\ o.RecognitionResult \in Scalars /\ o.Client = Zero /\ o.id = id
      BY <1>0, <1>4 DEF o, Columns, Domain, BelongsToClient
    <2>2. /\ patcher.Status \in Scalars /\ patcher.RecognitionResult \in Scalars
          /\ patcher.Client \in Clients
      BY <1>4 DEF Messages
    <2>3. MaskedClient(patcher, mask) \in Clients /\ Zero \in Clients
      BY <2>2 DEF MaskedClient, Clients
    <2>4. m = [ id |-> id, Status |-> IF "Status" \in mask THEN patcher.Status ELSE o.Status,
                Client |-> IF "Client" \in mask THEN patcher.Client
                           ELSE IF mask \cap {"Client.Id", "Client.Name"} # {}
                                THEN MaskedClient(patcher, mask) ELSE Zero,
                RecognitionResult |-> IF "RecognitionResult" \in mask
                                      THEN patcher.RecognitionResult ELSE o.RecognitionResult ]
      BY <1>4, <2>1 DEF o, Fields, ToPB, DataRecognitionTaskToPB, DefaultApplyFieldMask,
         DefaultApplyFieldMaskDataRecognitionTask, NestedMask
    <2>5. m \in Messages[e] /\ m.id = id
      <3>1. m.Status \in Scalars /\ m.RecognitionResult \in Scalars /\ m.Client \in Clients
        BY <2>1, <2>2, <2>3, <2>4
      <3> QED BY <1>4, <2>4, <3>1 DEF Messages
    <2>6. "Status" \notin mask => ToORM(e, m).Status = rows[e][id].Status
      BY <1>4, <2>1, <2>4 DEF ToORM, DataRecognitionTaskToORM
    <2> QED BY <1>4, <2>5, <2>6 DEF Named, Columns, Task
  <1> QED BY <1>1, <1>2, <1>3, <1>4 DEF Entities

-----------------------------------------------------------------------------
(* Tables *)

\* The tables once an object is stored are tables, and have its row.
LEMMA StoredTables ==
  ASSUME TablesOK(rows), NEW e \in Entities, NEW orm, \A f \in Columns[e] : orm[f] \in Domain(f),
         NEW id \in Ids, NEW client \in Ids \cup {Zero}
  PROVE  /\ TablesOK(Stored(e, orm, id, client))
         /\ Stored(e, orm, id, client)[e][id] # NoRow
         /\ \A f \in Columns[e] :
              Stored(e, orm, id, client)[e][id][f] =
                IF f = "ClientId" /\ client # Zero THEN client ELSE orm[f]
  <1> DEFINE tables == IF client = Zero \/ Exists("Client", client) THEN rows
                       ELSE [rows EXCEPT !.Client[client] = [ Name |-> Zero, Quota |-> Zero ]]
             row == [f \in Columns[e] |->
                      IF f = "ClientId" /\ client # Zero THEN client ELSE orm[f]]
  <1>1. Stored(e, orm, id, client) = [tables EXCEPT ![e][id] = row]
    BY DEF Stored
  <1>2. TablesOK(tables)
    <2>1. CASE tables = rows
      BY <2>1
    <2>2. CASE /\ client # Zero
               /\ tables = [rows EXCEPT !.Client[client] = [ Name |-> Zero, Quota |-> Zero ]]
      <3>1. [ Name |-> Zero, Quota |-> Zero ] \in Rows.Client /\ "Client" \in Entities
        BY DEF Rows, ClientORM, Scalars, Entities
      <3> QED BY <2>2, <3>1 DEF TablesOK
    <2> QED BY <2>1, <2>2
  <1>3. row \in Rows[e] /\ row # NoRow
    <2>1. \A f \in Columns[e] :
            (IF f = "ClientId" /\ client # Zero THEN client ELSE orm[f]) \in Domain(f)
      BY DEF Domain
    <2>2. \A f \in Columns[e] : row[f] \in Domain(f)
      BY <2>1
    <2>3. row = [f \in Columns[e] |-> row[f]]
      OBVIOUS
    <2> HIDE DEF row
    <2> QED BY <2>2, <2>3, RowsHaveColumns
  <1>4. \A f \in Columns[e] : row[f] = IF f = "ClientId" /\ client # Zero THEN client ELSE orm[f]
    OBVIOUS
  <1> HIDE DEF tables, row
  <1>5. TablesOK([tables EXCEPT ![e][id] = row])
    BY <1>2, <1>3 DEF TablesOK
  <1>6. [tables EXCEPT ![e][id] = row][e][id] = row
    BY <1>2 DEF TablesOK
  <1> QED BY <1>1, <1>3, <1>4, <1>5, <1>6

\* So are the tables once rows are deleted.
LEMMA TablesWithout ==
  ASSUME TablesOK(rows), NEW e \in Entities, NEW ids
  PROVE  TablesOK(Without(e, ids))
  BY DEF TablesOK, Without
-----------------------------------------------------------------------------
(* The inductive invariant *)

\* What a patch that has read its row knows, in tables with their versions: its
\* message has the row's columns for as long as nobody writes the row.
Remembers(u, tables, versions) ==
  /\ u.message.id \in Ids
  /\ u.read <= versions[u.entity][u.message.id]
  /\ versions[u.entity][u.message.id] = u.read =>
       \A f \in Columns[u.entity] \ Named(u.mask) :
         \/ ToORM(u.entity, u.message)[f] = tables[u.entity][u.message.id][f]
         \/ u.entity = Task /\ f \in {"ClientId", "RecognitionResult"}
  /\ u.entity = "ClientUser" /\ u.mask \cap {"Client", "Client.Id", "Client.Name"} = {}
       => u.message.Client = Zero

\* An update in progress has written only what its kind may have written, and a
\* single patch has nothing left to read once it has read its row.
Working(u, tables, versions) ==
  /\ DOMAIN u = {"kind", "entity", "phase", "message", "mask", "read", "rest", "wrote"}
  /\ u.kind \in {"StrictUpdate", "Patch", "PatchSet"}
  /\ "row" \in u.wrote => u.kind = "PatchSet"
  /\ "users" \in u.wrote => u.entity = "Client"
  /\ u.phase = "read" =>
       u.rest # <<>> /\ u.kind # "StrictUpdate" /\ (u.kind = "Patch" => Len(u.rest) = 1)
  /\ u.phase # "read" /\ u.kind # "PatchSet" => u.rest = <<>>
  /\ u.phase = "clear" => u.entity = "Client"
  /\ u.phase # "read" /\ u.kind # "StrictUpdate" => Remembers(u, tables, versions)

\* What a caller is doing: nothing, or such an update.
Doing(u, tables, versions) ==
  \/ u = Idle
  \/ UpdateOK(u) /\ Working(u, tables, versions)

Operations == \A c \in Callers : Doing(op[c], rows, version)

\* A task that nobody wrote has its client and its result.
Unwritten ==
  \A id \in Ids :
    version[Task][id] = 0 /\ rows[Task][id] # NoRow =>
      rows[Task][id].ClientId # Zero /\ rows[Task][id].RecognitionResult # Zero

\* The count of the query in progress is right until the tables change.
Asked ==
  /\ disturbed \in BOOLEAN
  /\ \/ query = Idle
     \/ /\ query.page \in Int /\ query.pageSize \in Int
        /\ ~ disturbed => query.count = Cardinality(Matching(query))

\* The inductive invariant: an error of an operation in progress has yet changed
\* nothing but what it may, and a page of the list knows its total.
IInv ==
  OutcomesTell /\ Operations /\ Unwritten /\ Asked /\ PageAgreesWithTotal

-----------------------------------------------------------------------------
(* Steps of the store *)

\* Versions count the changes of rows.
Writes ==
  /\ TablesOK(rows')
  /\ version' \in [Entities -> [Ids -> Nat]]
  /\ \A e \in Entities, id \in Ids :
       /\ version[e][id] <= version'[e][id]
       /\ version'[e][id] = version[e][id] => rows'[e][id] = rows[e][id]

\* How c's operation may end: idle again, or with an update in progress.
Leaves(c) ==
  \E u :
    /\ op' = [op EXCEPT ![c] = u]
    /\ Doing(u, rows', version')

\* What c's caller may be told.
Told(r) ==
  /\ r \in [ kind : Kinds, entity : Entities, outcome : {"ok", "error", "panic"},
             wrote : SUBSET {"row", "users"} ]
  /\ r.outcome = "error" =>
       /\ "row" \in r.wrote => r.kind = "PatchSet"
       /\ "users" \in r.wrote =>
            r.entity = "Client" /\ r.kind \in {"StrictUpdate", "Patch", "PatchSet"}
  /\ r.outcome = "panic" => \E id \in Ids : version'[Task][id] > 0

Tells(c) == last' = last \/ \E r : last' = [last EXCEPT ![c] = r] /\ Told(r)

Counts == begun' \in 0 .. MaxOperations /\ faults' \in 0 .. MaxFaults

StoreStep(c) == Writes /\ Leaves(c) /\ Tells(c) /\ Counts

\* The two ways in which statements leave the tables.
LEMMA WritesRows ==
  ASSUME TypeOK, KeepRows \/ \E tables : TablesOK(tables) /\ SetRows(tables)
  PROVE  Writes
  <1>1. CASE KeepRows
    BY <1>1 DEF TypeOK, KeepRows, Writes, TablesOK
  <1>2. CASE \E tables : TablesOK(tables) /\ SetRows(tables)
    <2>1. PICK tables : TablesOK(tables) /\ SetRows(tables)
      BY <1>2
    <2>2. \A e \in Entities, id \in Ids :
            /\ version[e][id] \in Nat
            /\ version'[e][id] = version[e][id] + IF tables[e][id] = rows[e][id] THEN 0 ELSE 1
      BY <2>1 DEF SetRows, TypeOK
    <2>3. version' \in [Entities -> [Ids -> Nat]]
      BY <2>1, <2>2 DEF SetRows
    <2>4. rows' = tables
      BY <2>1 DEF SetRows
    <2> QED BY <2>1, <2>2, <2>3, <2>4 DEF Writes
  <1> QED BY <1>1, <1>2

\* A write does not make an update forget: it shows in the version.
LEMMA WorkingStays ==
  ASSUME TypeOK, Writes, NEW u, UpdateOK(u), Working(u, rows, version)
  PROVE  Working(u, rows', version')
  <1>1. ASSUME Remembers(u, rows, version) PROVE Remembers(u, rows', version')
    <2> DEFINE v == version[u.entity][u.message.id]
               w == version'[u.entity][u.message.id]
    <2>1. /\ u.entity \in Entities /\ u.message.id \in Ids /\ u.read \in Nat
          /\ u.read <= v
      BY <1>1 DEF UpdateOK, Remembers
    <2>2. v \in Nat /\ w \in Nat /\ v <= w
          /\ (w = v => rows'[u.entity][u.message.id] = rows[u.entity][u.message.id])
      BY <2>1 DEF TypeOK, Writes
    <2> HIDE DEF v, w
    <2>3. u.read <= w /\ (w = u.read => v = u.read /\ w = v)
      BY <2>1, <2>2
    <2> QED BY <1>1, <2>2, <2>3 DEF Remembers, v, w
  <1> QED BY <1>1 DEF Working

\* Steps of the store keep the invariant.
LEMMA StoreStepKeeps ==
  ASSUME IInv, NEW c \in Callers, StoreStep(c), UNCHANGED <<query, answer>>,
         disturbed' = (disturbed \/ rows' # rows)
  PROVE  IInv'
  <1>0. TypeOK /\ Writes /\ Leaves(c) /\ Tells(c) /\ Counts
    BY DEF IInv, OutcomesTell, StoreStep
  <1>1. \A b \in Callers : Doing(op'[b], rows', version')
    <2>1. PICK u : op' = [op EXCEPT ![c] = u] /\ Doing(u, rows', version')
      BY <1>0 DEF Leaves
    <2>2. ASSUME NEW b \in Callers
          PROVE  Doing(op'[b], rows', version')
      <3>1. CASE b = c
        BY <1>0, <2>1, <3>1 DEF TypeOK
      <3>2. CASE b # c
        <4>1. op'[b] = op[b]
          BY <1>0, <2>1, <3>2 DEF TypeOK
        <4>2. Doing(op[b], rows, version)
          BY DEF IInv, Operations
        <4> QED BY <1>0, <4>1, <4>2, WorkingStays DEF Doing
      <3> QED BY <3>1, <3>2
    <2> QED BY <2>2
  <1>2. DOMAIN op' = Callers
    BY <1>0 DEF TypeOK, Leaves
  <1>3. /\ last' \in [Callers -> [ kind : Kinds, entity : Entities,
                                   outcome : {"ok", "error", "panic"},
                                   wrote : SUBSET {"row", "users"} ]]
        /\ \A b \in Callers : last'[b] = last[b] \/ Told(last'[b])
    <2>1. CASE last' = last
      BY <1>0, <2>1 DEF TypeOK
    <2>2. CASE \E r : last' = [last EXCEPT ![c] = r] /\ Told(r)
      BY <1>0, <2>2 DEF TypeOK, Told
    <2> QED BY <1>0, <2>1, <2>2 DEF Tells
  <1>4. TypeOK'
    <2>1. \A b \in Callers : op'[b] = Idle \/ UpdateOK(op'[b])
      BY <1>1 DEF Doing
    <2> QED BY <1>0, <1>2, <1>3, <2>1 DEF TypeOK, Writes, Counts, TablesOK, UpdateOK
  <1>5. ErrorsChangeNothing'
    BY <1>3 DEF IInv, OutcomesTell, ErrorsChangeNothing, Told
  <1>6. \A id \in Ids : version[Task][id] \in Nat /\ version'[Task][id] \in Nat
                        /\ version[Task][id] <= version'[Task][id]
    BY <1>0 DEF Writes, TypeOK, Task, Entities
  <1>7. PanicsFollowWrites'
    <2>1. ASSUME (\E id \in Ids : version[Task][id] > 0) \/ \E id \in Ids : version'[Task][id] > 0
          PROVE  \E id \in Ids : version'[Task][id] > 0
      BY <1>6, <2>1
    <2>2. ASSUME answer'.outcome = "panic" \/ \E b \in Callers : last'[b].outcome = "panic"
          PROVE  \E id \in Ids : version'[Task][id] > 0
      BY <1>3, <2>1, <2>2 DEF IInv, OutcomesTell, PanicsFollowWrites, Told, Task
    <2> QED BY <2>2 DEF PanicsFollowWrites, Task
  <1>8. Unwritten'
    <2>1. \A id \in Ids : version'[Task][id] = 0 =>
            version[Task][id] = 0 /\ rows'[Task][id] = rows[Task][id]
      <3>1. \A id \in Ids : version'[Task][id] = 0 => version[Task][id] = 0
        BY <1>6
      <3> QED BY <1>0, <3>1 DEF Writes, Task, Entities
    <2> QED BY <2>1 DEF IInv, Unwritten
  <1>9. Asked'
    <2>1. CASE rows' = rows
      BY <2>1 DEF IInv, Asked, Matching, TasksOf, Exists
    <2>2. CASE rows' # rows
      BY <2>2 DEF IInv, Asked
    <2> QED BY <2>1, <2>2
  <1>10. PageAgreesWithTotal'
    BY DEF IInv, PageAgreesWithTotal
  <1> QED BY <1>1, <1>4, <1>5, <1>7, <1>8, <1>9, <1>10 DEF IInv, OutcomesTell, Operations
\* A reply leaves its caller idle.
LEMMA RepliesLeave ==
  ASSUME NEW c \in Callers, NEW kind \in Kinds, NEW e \in Entities,
         NEW outcome \in {"ok", "error", "panic"}, NEW wrote \in SUBSET {"row", "users"},
         Reply(c, kind, e, outcome, wrote),
         outcome = "error" =>
           /\ "row" \in wrote => kind = "PatchSet"
           /\ "users" \in wrote => e = "Client" /\ kind \in {"StrictUpdate", "Patch", "PatchSet"},
         outcome = "panic" => \E id \in Ids : version'[Task][id] > 0
  PROVE  Leaves(c) /\ Tells(c)
  <1> DEFINE r == [ kind |-> kind, entity |-> e, outcome |-> outcome, wrote |-> wrote ]
  <1>1. op' = [op EXCEPT ![c] = Idle] /\ last' = [last EXCEPT ![c] = r]
    BY DEF Reply
  <1>2. Told(r)
    BY DEF Told
  <1>3. Doing(Idle, rows', version')
    BY DEF Doing
  <1> QED BY <1>1, <1>2, <1>3 DEF Leaves, Tells

\* What is fetched panics only if it is a task that somebody wrote.
LEMMA PanicsAreWritten ==
  ASSUME IInv, Writes, NEW e \in Entities, NEW id \in Ids, Exists(e, id),
         AfterToPBPanics(e, Fetched(e, id))
  PROVE  \E i \in Ids : version'[Task][i] > 0
  <1>1. e = Task /\ Fetched(e, id).RecognitionResult = Zero
    BY DEF AfterToPBPanics, Task
  <1>2. rows[Task][id].RecognitionResult = Zero
    BY <1>1, FetchedRow DEF Columns, Task
  <1>3. version[Task][id] # 0
    BY <1>1, <1>2 DEF IInv, Unwritten, Exists
  <1>4. version[Task][id] \in Nat /\ version'[Task][id] \in Nat
        /\ version[Task][id] <= version'[Task][id]
    BY DEF IInv, OutcomesTell, TypeOK, Writes, Task, Entities
  <1> QED BY <1>3, <1>4

\* A task that is stored is written, for it loses its result.
LEMMA StoredTaskIsWritten ==
  ASSUME IInv, NEW orm, \A f \in Columns[Task] : orm[f] \in Domain(f),
         AfterToPBPanics(Task, orm), NEW id \in Ids, NEW client \in Ids \cup {Zero},
         SetRows(Stored(Task, orm, id, client))
  PROVE  \E i \in Ids : version'[Task][i] > 0
  <1> DEFINE row == Stored(Task, orm, id, client)[Task][id]
  <1>0. Task \in Entities /\ TablesOK(rows)
    BY DEF Task, Entities, IInv, OutcomesTell, TypeOK, TablesOK
  <1>1. row # NoRow /\ row.RecognitionResult = Zero
    <2>1. "RecognitionResult" \in Columns[Task] /\ orm.RecognitionResult = Zero
      BY DEF Columns, Task, AfterToPBPanics
    <2> QED BY <1>0, <2>1, StoredTables
  <1> HIDE DEF row
  <1>2. version[Task][id] \in Nat
    BY <1>0 DEF IInv, OutcomesTell, TypeOK
  <1>3. version[Task][id] = 0 => row # rows[Task][id]
    BY <1>1 DEF IInv, Unwritten
  <1>4. version'[Task][id] = version[Task][id] + IF row = rows[Task][id] THEN 0 ELSE 1
    BY <1>0 DEF SetRows, row
  <1>5. version'[Task][id] > 0
    BY <1>2, <1>3, <1>4
  <1> QED BY <1>5

\* What operations begin with and what they leave of the counters.
LEMMA BeginCounts ==
  ASSUME IInv, NEW c, Begin(c)
  PROVE  Counts
  BY RowStoreAssumption DEF IInv, OutcomesTell, TypeOK, Begin, Counts

\* Create.
LEMMA CreateStep ==
  ASSUME IInv, NEW c \in Callers, NEW e \in Entities, NEW m \in Messages[e],
         DefaultCreate(c, e, m)
  PROVE  StoreStep(c)
  <1> DEFINE orm == ToORM(e, m)
  <1>0. TypeOK /\ TablesOK(rows) /\ Counts
    BY BeginCounts DEF IInv, OutcomesTell, TypeOK, TablesOK, DefaultCreate
  <1>1. /\ \A f \in Columns[e] : orm[f] \in Domain(f)
        /\ AfterToPBPanics(e, orm) <=> e = Task
        /\ m.id \in Ids \cup {Zero}
    BY ObjectsAreTyped
  <1>2. PICK id \in (IF m.id = Zero THEN FreeIds(e) ELSE {m.id}), client \in Associated(e, orm) :
          \/ KeepRows /\ Reply(c, "Create", e, "error", {})
          \/ /\ SetRows(Stored(e, orm, id, client))
             /\ Reply(c, "Create", e, Converted(e, orm), {"row"})
    BY DEF DefaultCreate
  <1>3. id \in Ids /\ client \in Ids \cup {Zero}
    BY <1>1, <1>2, AssociatedClients DEF FreeIds
  <1> HIDE DEF orm
  <1>4. CASE KeepRows /\ Reply(c, "Create", e, "error", {})
    <2>1. Writes
      BY <1>0, <1>4, WritesRows
    <2>2. Leaves(c) /\ Tells(c)
      BY <1>4, RepliesLeave DEF Kinds
    <2> QED BY <1>0, <2>1, <2>2 DEF StoreStep
  <1>5. CASE /\ SetRows(Stored(e, orm, id, client))
             /\ Reply(c, "Create", e, Converted(e, orm), {"row"})
    <2>1. Writes
      BY <1>0, <1>1, <1>3, <1>5, StoredTables, WritesRows
    <2>2. Converted(e, orm) \in {"ok", "panic"} /\ (Converted(e, orm) = "panic" <=> e = Task)
      BY <1>1 DEF Converted
    <2>3. Converted(e, orm) = "panic" => \E i \in Ids : version'[Task][i] > 0
      BY <1>1, <1>3, <1>5, <2>2, StoredTaskIsWritten
    <2>4. Leaves(c) /\ Tells(c)
      BY <1>5, <2>2, <2>3, RepliesLeave DEF Kinds
    <2> QED BY <1>0, <2>1, <2>4 DEF StoreStep
  <1> QED BY <1>2, <1>4, <1>5

\* Read and List.
LEMMA ReadStep ==
  ASSUME IInv, NEW c \in Callers, NEW e \in Entities,
         (\E m \in Messages[e] : DefaultRead(c, e, m)) \/ DefaultList(c, e)
  PROVE  StoreStep(c)
  <1>0. TypeOK /\ Counts /\ KeepRows
    BY BeginCounts DEF IInv, OutcomesTell, DefaultRead, DefaultList
  <1>1. Writes
    BY <1>0, WritesRows
  <1>2. PICK kind \in {"Read", "List"}, outcome \in {"ok", "error", "panic"} :
          /\ Reply(c, kind, e, outcome, {})
          /\ outcome = "panic" =>
               \E id \in Ids : Exists(e, id) /\ AfterToPBPanics(e, Fetched(e, id))
    <2>1. ASSUME NEW m \in Messages[e], DefaultRead(c, e, m)
          PROVE  \E kind \in {"Read", "List"}, outcome \in {"ok", "error", "panic"} :
                   /\ Reply(c, kind, e, outcome, {})
                   /\ outcome = "panic" =>
                        \E id \in Ids : Exists(e, id) /\ AfterToPBPanics(e, Fetched(e, id))
      <3>1. m.id \in Ids \cup {Zero}
        BY ObjectsAreTyped
      <3>2. PICK outcome \in {"ok", "error", "panic"} :
              /\ Reply(c, "Read", e, outcome, {})
              /\ outcome = "panic" =>
                   /\ m.id # Zero /\ Matches(e, m.id, ToORM(e, m))
                   /\ AfterToPBPanics(e, Fetched(e, m.id))
        BY <2>1 DEF DefaultRead, Converted
      <3>3. Matches(e, m.id, ToORM(e, m)) => Exists(e, m.id)
        BY DEF Matches
      <3> QED BY <3>1, <3>2, <3>3
    <2>2. CASE DefaultList(c, e)
      BY <2>2 DEF DefaultList
    <2> QED BY <2>1, <2>2
  <1>3. outcome = "panic" => \E id \in Ids : version'[Task][id] > 0
    BY <1>1, <1>2, PanicsAreWritten
  <1>4. Leaves(c) /\ Tells(c)
    BY <1>2, <1>3, RepliesLeave DEF Kinds
  <1> QED BY <1>0, <1>1, <1>4 DEF StoreStep

\* Delete and DeleteSet.
LEMMA DeleteStep ==
  ASSUME IInv, NEW c \in Callers, NEW e \in Entities, NEW m, NEW keys,
         DefaultDelete(c, e, m) \/ DefaultDeleteSet(c, e, keys)
  PROVE  StoreStep(c)
  <1>0. TypeOK /\ TablesOK(rows) /\ Counts
    BY BeginCounts DEF IInv, OutcomesTell, TypeOK, TablesOK, DefaultDelete, DefaultDeleteSet
  <1>1. PICK kind \in {"Delete", "DeleteSet"} :
          \/ KeepRows /\ Reply(c, kind, e, "error", {})
          \/ \E ids : Delete(c, kind, e, ids)
    BY DEF DefaultDelete, DefaultDeleteSet
  <1>2. \/ KeepRows /\ Reply(c, kind, e, "error", {})
        \/ \E ids : \E wrote \in SUBSET {"row", "users"} :
             SetRows(Without(e, ids)) /\ Reply(c, kind, e, "ok", wrote)
    BY <1>1 DEF Delete
  <1>3. Writes
    BY <1>0, <1>2, TablesWithout, WritesRows
  <1>4. Leaves(c) /\ Tells(c)
    BY <1>2, RepliesLeave DEF Kinds
  <1> QED BY <1>0, <1>3, <1>4 DEF StoreStep
-----------------------------------------------------------------------------
(* Updates *)

\* The record of an update is one that a caller may be doing.
LEMMA UpdatesAreDoing ==
  ASSUME NEW kind \in {"StrictUpdate", "Patch", "PatchSet"}, NEW e \in Entities,
         NEW phase \in {"read", "clear", "save"}, NEW m \in Messages[e],
         NEW mask \in SUBSET Fields[e], NEW read \in Nat, NEW rest \in Seq(Patches(e)),
         NEW wrote \in SUBSET {"row", "users"},
         "row" \in wrote => kind = "PatchSet",
         "users" \in wrote => e = "Client",
         phase = "read" =>
           rest # <<>> /\ kind # "StrictUpdate" /\ (kind = "Patch" => Len(rest) = 1),
         phase # "read" /\ kind # "PatchSet" => rest = <<>>,
         phase = "clear" => e = "Client",
         NEW tables, NEW versions,
         phase # "read" /\ kind # "StrictUpdate" =>
           Remembers(Update(kind, e, phase, m, mask, read, rest, wrote), tables, versions)
  PROVE  Doing(Update(kind, e, phase, m, mask, read, rest, wrote), tables, versions)
  <1> DEFINE u == Update(kind, e, phase, m, mask, read, rest, wrote)
  <1>1. /\ u.kind = kind /\ u.entity = e /\ u.phase = phase /\ u.message = m /\ u.mask = mask
        /\ u.read = read /\ u.rest = rest /\ u.wrote = wrote
        /\ DOMAIN u = {"kind", "entity", "phase", "message", "mask", "read", "rest", "wrote"}
    BY DEF Update
  <1> HIDE DEF u
  <1>2. UpdateOK(u)
    BY <1>1 DEF UpdateOK, Kinds
  <1>3. Working(u, tables, versions)
    BY <1>1 DEF Working, u
  <1> QED BY <1>2, <1>3 DEF Doing, u

\* StrictUpdate.
LEMMA StrictUpdateStep ==
  ASSUME IInv, NEW c \in Callers, NEW e \in Entities, NEW m \in Messages[e],
         DefaultStrictUpdate(c, e, m)
  PROVE  StoreStep(c)
  <1>0. TypeOK /\ Counts /\ KeepRows
    BY BeginCounts DEF IInv, OutcomesTell, DefaultStrictUpdate
  <1>1. Writes
    BY <1>0, WritesRows
  <1>2. CASE Reply(c, "StrictUpdate", e, "error", {})
    <2>1. Leaves(c) /\ Tells(c)
      BY <1>2, RepliesLeave DEF Kinds
    <2> QED BY <1>0, <1>1, <2>1 DEF StoreStep
  <1>3. CASE /\ op' = [op EXCEPT ![c] =
                 Update("StrictUpdate", e, SavePhase(e), m, {}, 0, <<>>, {})]
             /\ UNCHANGED last
    <2>1. <<>> \in Seq(Patches(e))
      BY EmptySeq
    <2>2. SavePhase(e) \in {"clear", "save"} /\ (SavePhase(e) = "clear" => e = "Client")
      BY DEF SavePhase
    <2>3. Doing(Update("StrictUpdate", e, SavePhase(e), m, {}, 0, <<>>, {}), rows', version')
      BY <2>1, <2>2, UpdatesAreDoing
    <2> QED BY <1>0, <1>1, <1>3, <2>3 DEF StoreStep, Leaves, Tells
  <1> QED BY <1>2, <1>3 DEF DefaultStrictUpdate

\* Patch and PatchSet read a row first.
LEMMA PatchesStart ==
  ASSUME NEW c \in Callers, NEW kind \in {"Patch", "PatchSet"}, NEW e \in Entities,
         NEW patches \in Seq(Patches(e)), patches # <<>>, kind = "Patch" => Len(patches) = 1,
         StartPatches(c, kind, e, patches)
  PROVE  Leaves(c) /\ Tells(c)
  <1>1. patches[1].message \in Messages[e]
    <2>1. Len(patches) \in Nat \ {0}
      BY EmptySeq
    <2>2. patches[1] \in Patches(e)
      BY <2>1, ElementOfSeq
    <2> QED BY <2>2, RowStoreAssumption DEF Patches
  <1>2. Doing(Update(kind, e, "read", patches[1].message, {}, 0, patches, {}), rows', version')
    BY <1>1, UpdatesAreDoing
  <1> QED BY <1>2 DEF StartPatches, Leaves, Tells

\* Patch.
LEMMA PatchStep ==
  ASSUME IInv, NEW c \in Callers, NEW e \in Entities, NEW m \in Inputs[e], NEW mask \in Masks[e],
         DefaultPatch(c, e, m, mask)
  PROVE  StoreStep(c)
  <1>0. TypeOK /\ Counts /\ KeepRows
    BY BeginCounts DEF IInv, OutcomesTell, DefaultPatch
  <1>1. Writes
    BY <1>0, WritesRows
  <1> DEFINE patch == [ message |-> m, mask |-> mask ]
  <1>2. patch \in Patches(e)
    BY DEF Patches
  <1>3. StartPatches(c, "Patch", e, <<patch>>)
    BY DEF DefaultPatch
  <1> HIDE DEF patch
  <1>4. <<patch>> \in Seq(Patches(e)) /\ Len(<<patch>>) = 1 /\ <<patch>> # <<>>
    BY <1>2
  <1>5. Leaves(c) /\ Tells(c)
    BY <1>3, <1>4, PatchesStart
  <1> QED BY <1>0, <1>1, <1>5 DEF StoreStep

\* PatchSet.
LEMMA PatchSetStep ==
  ASSUME IInv, NEW c \in Callers, NEW e \in Entities,
         NEW objects \in Seq(Inputs[e]), objects # <<>>, NEW updateMasks \in Seq(Masks[e]),
         DefaultPatchSet(c, e, objects, updateMasks)
  PROVE  StoreStep(c)
  <1>0. TypeOK /\ Counts /\ KeepRows
    BY BeginCounts DEF IInv, OutcomesTell, DefaultPatchSet
  <1>1. Writes
    BY <1>0, WritesRows
  <1>2. CASE Len(objects) # Len(updateMasks)
    <2>1. Reply(c, "PatchSet", e, "error", {})
      BY <1>2 DEF DefaultPatchSet
    <2>2. Leaves(c) /\ Tells(c)
      BY <2>1, RepliesLeave DEF Kinds
    <2> QED BY <1>0, <1>1, <2>2 DEF StoreStep
  <1>3. CASE Len(objects) = Len(updateMasks)
    <2> DEFINE patches == [i \in DOMAIN objects |->
                            [ message |-> objects[i], mask |-> updateMasks[i] ]]
    <2>1. StartPatches(c, "PatchSet", e, patches)
      BY <1>3 DEF DefaultPatchSet
    <2>2. DOMAIN objects = 1 .. Len(objects) /\ Len(objects) \in Nat \ {0}
      BY EmptySeq
    <2>3. \A i \in 1 .. Len(objects) :
            [ message |-> objects[i], mask |-> updateMasks[i] ] \in Patches(e)
      <3>1. \A i \in 1 .. Len(objects) : objects[i] \in Inputs[e] /\ updateMasks[i] \in Masks[e]
        BY <1>3, ElementOfSeq
      <3> QED BY <3>1 DEF Patches
    <2>4. patches \in Seq(Patches(e)) /\ Len(patches) = Len(objects)
      BY <2>2, <2>3, IsASeq
    <2> HIDE DEF patches
    <2>5. patches # <<>>
      BY <2>2, <2>4
    <2>6. Leaves(c) /\ Tells(c)
      BY <2>1, <2>4, <2>5, PatchesStart
    <2> QED BY <1>0, <1>1, <2>6 DEF StoreStep
  <1> QED BY <1>2, <1>3

\* What there is to know of the update in progress.
LEMMA InProgress ==
  ASSUME IInv, NEW c \in Callers, op[c] # Idle
  PROVE  /\ UpdateOK(op[c]) /\ Working(op[c], rows, version)
         /\ op[c].kind \in Kinds /\ op[c].entity \in Entities
         /\ op[c].message \in Messages[op[c].entity]
         /\ op[c].wrote \in SUBSET {"row", "users"}
         /\ "row" \in op[c].wrote => op[c].kind = "PatchSet"
         /\ "users" \in op[c].wrote =>
              op[c].entity = "Client" /\ op[c].kind \in {"StrictUpdate", "Patch", "PatchSet"}
  <1>1. Doing(op[c], rows, version)
    BY DEF IInv, Operations
  <1> QED BY <1>1 DEF Doing, UpdateOK, Working

\* A phase is one of an update, and its counters are as they were.
LEMMA PhaseCounts ==
  ASSUME IInv, NEW c \in Callers, NEW phase \in {"read", "clear", "save"}, Continue(c, phase)
  PROVE  op[c] # Idle /\ op[c].phase = phase /\ Counts
  BY DEF IInv, OutcomesTell, TypeOK, Continue, Counts, Idle

\* A statement that fails.
LEMMA FailStep ==
  ASSUME IInv, NEW c \in Callers, Fail(c)
  PROVE  StoreStep(c)
  <1>0. TypeOK /\ KeepRows /\ Counts
    BY RowStoreAssumption DEF IInv, OutcomesTell, TypeOK, Fail, Counts, KeepRows
  <1>1. Writes
    BY <1>0, WritesRows
  <1>2. Leaves(c) /\ Tells(c)
    <2>1. op[c] # Idle /\ Reply(c, op[c].kind, op[c].entity, "error", op[c].wrote)
      BY DEF Fail
    <2> QED BY <2>1, InProgress, RepliesLeave
  <1> QED BY <1>0, <1>1, <1>2 DEF StoreStep
\* An update of a client deletes its users, then saves.
LEMMA ClearUsersStep ==
  ASSUME IInv, NEW c \in Callers, ClearUsers(c)
  PROVE  StoreStep(c)
  <1> DEFINE u == op[c]
             users == { i \in Ids : /\ Exists("ClientUser", i)
                                    /\ rows.ClientUser[i].ClientId = op[c].message.id }
             wrote == IF users = {} THEN u.wrote ELSE u.wrote \cup {"users"}
             saving == [ u EXCEPT !.phase = "save", !.wrote = wrote ]
  <1>0. TypeOK /\ TablesOK(rows) /\ Counts /\ op[c] # Idle /\ op[c].phase = "clear"
    BY PhaseCounts DEF IInv, OutcomesTell, TypeOK, TablesOK, ClearUsers
  <1>1. SetRows(Without("ClientUser", users)) /\ UNCHANGED last
        /\ op' = [op EXCEPT ![c].phase = "save",
                            ![c].wrote = IF users = {} THEN @ ELSE @ \cup {"users"}]
    BY DEF ClearUsers
  <1>2. Writes
    <2>1. TablesOK(Without("ClientUser", users))
      BY <1>0, TablesWithout DEF Entities
    <2> QED BY <1>0, <1>1, <2>1, WritesRows
  <1> HIDE DEF users
  <1>3. UpdateOK(u) /\ Working(u, rows', version') /\ u.entity = "Client"
    BY <1>0, <1>2, InProgress, WorkingStays DEF Working
  <1>4. op' = [op EXCEPT ![c] = saving]
    <2>1. DOMAIN op = Callers
      BY <1>0 DEF TypeOK
    <2>2. DOMAIN u = {"kind", "entity", "phase", "message", "mask", "read", "rest", "wrote"}
      BY <1>3 DEF Working
    <2> QED BY <1>1, <2>1, <2>2
  <1>5. /\ saving.kind = u.kind /\ saving.entity = u.entity /\ saving.phase = "save"
        /\ saving.message = u.message /\ saving.mask = u.mask /\ saving.read = u.read
        /\ saving.rest = u.rest /\ saving.wrote = wrote /\ DOMAIN saving = DOMAIN u
    BY <1>3 DEF Working
  <1>6. /\ wrote \in SUBSET {"row", "users"}
        /\ "row" \in wrote => u.kind = "PatchSet"
    BY <1>3 DEF UpdateOK, Working
  <1> HIDE DEF u, wrote, saving
  <1>7. Doing(saving, rows', version')
    <2>1. UpdateOK(saving)
      BY <1>3, <1>5, <1>6 DEF UpdateOK
    <2>2. u.kind # "StrictUpdate" => Remembers(saving, rows', version')
      <3>1. u.phase = "clear"
        BY <1>0 DEF u
      <3> QED BY <1>3, <1>5, <3>1 DEF Working, Remembers
    <2>3. Working(saving, rows', version')
      <3>1. u.phase = "clear"
        BY <1>0 DEF u
      <3> QED BY <1>3, <1>5, <1>6, <2>2, <3>1 DEF Working
    <2> QED BY <2>1, <2>3 DEF Doing
  <1> QED BY <1>0, <1>1, <1>2, <1>4, <1>7 DEF StoreStep, Leaves, Tells

\* Save.
LEMMA SaveStep ==
  ASSUME IInv, NEW c \in Callers, Save(c)
  PROVE  StoreStep(c)
  <1> DEFINE u == op[c]
             e == op[c].entity
             orm == ToORM(e, op[c].message)
             wrote == u.wrote \cup {"row"}
  <1>0. TypeOK /\ TablesOK(rows) /\ Counts /\ op[c] # Idle /\ u.phase = "save"
    BY PhaseCounts DEF IInv, OutcomesTell, TypeOK, TablesOK, Save
  <1>1. /\ UpdateOK(u) /\ Working(u, rows, version)
        /\ e \in Entities /\ u.message \in Messages[e] /\ u.kind \in Kinds
        /\ u.wrote \in SUBSET {"row", "users"}
    BY <1>0, InProgress
  <1>2. /\ \A f \in Columns[e] : orm[f] \in Domain(f)
        /\ AfterToPBPanics(e, orm) <=> e = Task
        /\ orm.id \in Ids \cup {Zero}
    BY <1>1, ObjectsAreTyped
  <1>3. PICK id \in (IF orm.id = Zero THEN FreeIds(e) ELSE {orm.id}), client \in Associated(e, orm) :
          \/ KeepRows /\ Reply(c, u.kind, e, "error", u.wrote)
          \/ /\ SetRows(Stored(e, orm, id, client))
             /\ \/ Reply(c, u.kind, e, Converted(e, orm), wrote)
                \/ /\ u.rest # <<>>
                   /\ op' = [op EXCEPT ![c].phase = "read", ![c].wrote = wrote]
                   /\ UNCHANGED last
    BY DEF Save
  <1>4. id \in Ids /\ client \in Ids \cup {Zero}
    BY <1>1, <1>2, <1>3, AssociatedClients DEF FreeIds
  <1>5. CASE KeepRows /\ Reply(c, u.kind, e, "error", u.wrote)
    <2>1. Writes
      BY <1>0, <1>5, WritesRows
    <2>2. Leaves(c) /\ Tells(c)
      BY <1>0, <1>5, InProgress, RepliesLeave
    <2> QED BY <1>0, <2>1, <2>2 DEF StoreStep
  <1>6. CASE SetRows(Stored(e, orm, id, client)) /\ Reply(c, u.kind, e, Converted(e, orm), wrote)
    <2> HIDE DEF orm
    <2>1. Writes
      BY <1>0, <1>1, <1>2, <1>4, <1>6, StoredTables, WritesRows
    <2>2. Converted(e, orm) \in {"ok", "panic"} /\ (Converted(e, orm) = "panic" <=> e = Task)
      BY <1>2 DEF Converted
    <2>3. Converted(e, orm) = "panic" => \E i \in Ids : version'[Task][i] > 0
      BY <1>2, <1>4, <1>6, <2>2, StoredTaskIsWritten
    <2>4. wrote \in SUBSET {"row", "users"}
      BY <1>1
    <2> HIDE DEF wrote, u, e
    <2>5. Leaves(c) /\ Tells(c)
      BY <1>1, <1>6, <2>2, <2>3, <2>4, RepliesLeave
    <2> QED BY <1>0, <2>1, <2>5 DEF StoreStep
  <1>7. CASE /\ SetRows(Stored(e, orm, id, client))
             /\ u.rest # <<>>
             /\ op' = [op EXCEPT ![c].phase = "read", ![c].wrote = wrote]
             /\ UNCHANGED last
    <2> DEFINE reading == [ u EXCEPT !.phase = "read", !.wrote = wrote ]
    <2> HIDE DEF orm
    <2>1. Writes
      BY <1>0, <1>1, <1>2, <1>4, <1>7, StoredTables, WritesRows
    <2>2. op' = [op EXCEPT ![c] = reading]
      <3>1. DOMAIN op = Callers
        BY <1>0 DEF TypeOK
      <3>2. DOMAIN u = {"kind", "entity", "phase", "message", "mask", "read", "rest", "wrote"}
        BY <1>1 DEF Working
      <3> QED BY <1>7, <3>1, <3>2
    <2>3. /\ reading.kind = u.kind /\ reading.entity = u.entity /\ reading.phase = "read"
          /\ reading.message = u.message /\ reading.mask = u.mask /\ reading.read = u.read
          /\ reading.rest = u.rest /\ reading.wrote = wrote /\ DOMAIN reading = DOMAIN u
      BY <1>1 DEF Working
    <2>4. u.kind = "PatchSet"
      BY <1>0, <1>1, <1>7 DEF Working
    <2>5. wrote \in SUBSET {"row", "users"} /\ ("users" \in wrote => u.entity = "Client")
      BY <1>1 DEF Working
    <2> HIDE DEF reading, wrote, u
    <2>6. Doing(reading, rows', version')
      <3>1. UpdateOK(reading)
        BY <1>1, <2>3, <2>5 DEF UpdateOK
      <3>2. Working(reading, rows', version')
        BY <1>1, <1>7, <2>3, <2>4, <2>5 DEF Working
      <3> QED BY <3>1, <3>2 DEF Doing
    <2> QED BY <1>0, <1>7, <2>1, <2>2, <2>6 DEF StoreStep, Leaves, Tells
  <1> QED BY <1>3, <1>5, <1>6, <1>7

\* A patch reads the row it is for.
LEMMA PatchReadStep ==
  ASSUME IInv, NEW c \in Callers, PatchRead(c)
  PROVE  StoreStep(c)
  <1> DEFINE u == op[c]
             e == op[c].entity
             patch == Head(op[c].rest)
             id == patch.message.id
             m == DefaultApplyFieldMask(e, ToPB(e, Fetched(e, id)), patch.message, patch.mask)
             next == Update(u.kind, e, SavePhase(e), m, patch.mask, version[e][id],
                            Tail(u.rest), u.wrote)
  <1>0. TypeOK /\ KeepRows /\ Counts /\ op[c] # Idle /\ u.phase = "read"
    BY PhaseCounts DEF IInv, OutcomesTell, PatchRead
  <1>1. Writes /\ rows' = rows /\ version' = version
    BY <1>0, WritesRows DEF KeepRows
  <1>2. /\ UpdateOK(u) /\ Working(u, rows, version)
        /\ e \in Entities /\ u.kind \in Kinds /\ u.wrote \in SUBSET {"row", "users"}
        /\ u.rest \in Seq(Patches(e)) /\ u.rest # <<>> /\ u.kind \in {"Patch", "PatchSet"}
        /\ u.kind = "Patch" => Len(u.rest) = 1
    BY <1>0, InProgress DEF UpdateOK, Working
  <1>3. /\ patch.message \in Messages[e] /\ patch.mask \in SUBSET Fields[e]
        /\ id \in Ids \cup {Zero}
        /\ Tail(u.rest) \in Seq(Patches(e)) /\ (u.kind = "Patch" => Tail(u.rest) = <<>>)
    <2>1. patch \in Patches(e) /\ Tail(u.rest) \in Seq(Patches(e))
          /\ Len(Tail(u.rest)) = Len(u.rest) - 1
      BY <1>2, HeadTailProperties
    <2>2. patch.message \in Messages[e] /\ patch.mask \in SUBSET Fields[e]
      <3> HIDE DEF patch
      <3> QED BY <1>2, <2>1, RowStoreAssumption DEF Patches
    <2>3. id \in Ids \cup {Zero}
      BY <1>2, <2>2, ObjectsAreTyped
    <2>4. ASSUME u.kind = "Patch" PROVE Tail(u.rest) = <<>>
      <3>1. Len(Tail(u.rest)) = 0
        BY <1>2, <2>1, <2>4
      <3>2. Tail(u.rest) # <<>> => Len(Tail(u.rest)) \in Nat \ {0}
        BY <2>1, EmptySeq
      <3> QED BY <3>1, <3>2
    <2> QED BY <2>1, <2>2, <2>3, <2>4
  <1>4. \/ Reply(c, u.kind, e, "error", u.wrote)
        \/ /\ id # Zero /\ Exists(e, id)
           /\ \/ Reply(c, u.kind, e, "panic", u.wrote) /\ AfterToPBPanics(e, Fetched(e, id))
              \/ op' = [op EXCEPT ![c] = next] /\ UNCHANGED last
    BY DEF PatchRead
  <1> HIDE DEF patch, m
  <1>5. CASE Reply(c, u.kind, e, "error", u.wrote)
    <2>1. Leaves(c) /\ Tells(c)
      BY <1>0, <1>5, InProgress, RepliesLeave
    <2> QED BY <1>0, <1>1, <2>1 DEF StoreStep
  <1>6. CASE /\ id # Zero /\ Exists(e, id) /\ AfterToPBPanics(e, Fetched(e, id))
             /\ Reply(c, u.kind, e, "panic", u.wrote)
    <2>1. \E i \in Ids : version'[Task][i] > 0
      BY <1>1, <1>2, <1>3, <1>6, PanicsAreWritten
    <2>2. Leaves(c) /\ Tells(c)
      BY <1>2, <1>6, <2>1, RepliesLeave
    <2> QED BY <1>0, <1>1, <2>2 DEF StoreStep
  <1>7. CASE /\ id # Zero /\ Exists(e, id)
             /\ op' = [op EXCEPT ![c] = next] /\ UNCHANGED last
    <2>1. id \in Ids /\ rows[e][id] \in Rows[e] /\ version[e][id] \in Nat
      <3>1. id \in Ids
        BY <1>3, <1>7
      <3> HIDE DEF id
      <3> QED BY <1>0, <1>2, <1>7, <3>1 DEF TypeOK, Exists
    <2>2. /\ m \in Messages[e] /\ m.id = id
          /\ \A f \in Columns[e] \ Named(patch.mask) :
               \/ ToORM(e, m)[f] = rows[e][id][f]
               \/ e = Task /\ f \in {"ClientId", "RecognitionResult"}
          /\ e = "ClientUser" /\ patch.mask \cap {"Client", "Client.Id", "Client.Name"} = {}
               => m.Client = Zero
      <3>1. patch.message \in Messages[e] /\ patch.mask \in SUBSET Fields[e]
        BY <1>3
      <3>2. m = DefaultApplyFieldMask(e, ToPB(e, Fetched(e, id)), patch.message, patch.mask)
        BY DEF m
      <3> HIDE DEF patch, m, id
      <3> QED BY <1>2, <2>1, <3>1, <3>2, PatchedMessage
    <2>3. Remembers(next, rows', version')
      <3>1. /\ next.entity = e /\ next.message = m /\ next.mask = patch.mask
            /\ next.read = version[e][id]
        BY DEF Update
      <3> HIDE DEF next, id
      <3> QED BY <1>1, <2>1, <2>2, <3>1 DEF Remembers
    <2>4. SavePhase(e) \in {"clear", "save"} /\ (SavePhase(e) = "clear" => e = "Client")
      BY DEF SavePhase
    <2>5. /\ "row" \in u.wrote => u.kind = "PatchSet"
          /\ "users" \in u.wrote => e = "Client"
      BY <1>2 DEF Working
    <2> HIDE DEF u, e, id
    <2>6. Doing(next, rows', version')
      <3>1. /\ u.kind \in {"StrictUpdate", "Patch", "PatchSet"}
            /\ e \in Entities /\ m \in Messages[e] /\ patch.mask \in SUBSET Fields[e]
            /\ version[e][id] \in Nat /\ Tail(u.rest) \in Seq(Patches(e))
            /\ u.wrote \in SUBSET {"row", "users"}
        BY <1>2, <1>3, <2>1, <2>2
      <3>2. /\ SavePhase(e) \in {"read", "clear", "save"} /\ SavePhase(e) # "read"
            /\ u.kind # "PatchSet" => Tail(u.rest) = <<>>
        BY <1>2, <1>3, <2>4
      <3> HIDE DEF m, patch
      <3> QED BY <2>3, <2>4, <2>5, <3>1, <3>2, UpdatesAreDoing
    <2> QED BY <1>0, <1>1, <1>7, <2>6 DEF StoreStep, Leaves, Tells
  <1> QED BY <1>4, <1>5, <1>6, <1>7
-----------------------------------------------------------------------------
(* Requests *)

\* Sequences of one element and of two.
LEMMA ShortSequences ==
  ASSUME NEW S, NEW x \in S, NEW y \in S
  PROVE  <<x>> \in Seq(S) /\ <<x, y>> \in Seq(S) /\ <<x, y>> # <<>>
  OBVIOUS

\* Operations begin with an idle caller.
LEMMA OperationsStep ==
  ASSUME IInv, NEW c \in Callers,
         \/ ClientOperations(c)
         \/ ClientUserOperations(c)
         \/ AdminOperations(c)
         \/ TaskOperations(c)
  PROVE  StoreStep(c) /\ op[c] = Idle
  <1>1. ASSUME NEW e \in Entities,
               \/ \E m \in Inputs[e] :
                    \/ DefaultCreate(c, e, m) \/ DefaultRead(c, e, m) \/ DefaultDelete(c, e, m)
                    \/ DefaultStrictUpdate(c, e, m)
                    \/ \E mask \in Masks[e] :
                         \/ DefaultPatch(c, e, m, mask)
                         \/ \E n \in Inputs[e], masks \in { <<mask>>, <<mask, mask>> } :
                              DefaultPatchSet(c, e, <<m, n>>, masks)
               \/ \E keys : DefaultDeleteSet(c, e, keys)
               \/ DefaultList(c, e)
        PROVE  StoreStep(c) /\ op[c] = Idle
    <2>1. Inputs[e] \subseteq Messages[e]
      BY RowStoreAssumption
    <2>2. ASSUME NEW m \in Inputs[e],
                 \/ DefaultCreate(c, e, m) \/ DefaultRead(c, e, m) \/ DefaultDelete(c, e, m)
                 \/ DefaultStrictUpdate(c, e, m)
          PROVE  StoreStep(c) /\ op[c] = Idle
      BY <2>1, <2>2, CreateStep, ReadStep, DeleteStep, StrictUpdateStep
         DEF DefaultCreate, DefaultRead, DefaultDelete, DefaultStrictUpdate, Begin
    <2>3. ASSUME NEW m \in Inputs[e], NEW mask \in Masks[e], DefaultPatch(c, e, m, mask)
          PROVE  StoreStep(c) /\ op[c] = Idle
      BY <2>3, PatchStep DEF DefaultPatch, Begin
    <2>4. ASSUME NEW m \in Inputs[e], NEW n \in Inputs[e], NEW mask \in Masks[e],
                 NEW masks \in { <<mask>>, <<mask, mask>> },
                 DefaultPatchSet(c, e, <<m, n>>, masks)
          PROVE  StoreStep(c) /\ op[c] = Idle
      <3>1. <<m, n>> \in Seq(Inputs[e]) /\ <<m, n>> # <<>>
        BY ShortSequences
      <3>2. <<mask>> \in Seq(Masks[e]) /\ <<mask, mask>> \in Seq(Masks[e])
        BY ShortSequences
      <3>3. masks \in Seq(Masks[e])
        BY <2>4, <3>2
      <3> QED BY <2>4, <3>1, <3>3, PatchSetStep DEF DefaultPatchSet, Begin
    <2>5. ASSUME NEW keys, DefaultDeleteSet(c, e, keys) PROVE StoreStep(c) /\ op[c] = Idle
      BY <2>5, DeleteStep DEF DefaultDeleteSet, Begin
    <2>6. ASSUME DefaultList(c, e) PROVE StoreStep(c) /\ op[c] = Idle
      BY <2>6, ReadStep DEF DefaultList, Begin
    <2> QED BY <1>1, <2>2, <2>3, <2>4, <2>5, <2>6
  <1>2. CASE ClientOperations(c)
    <2>1. "Client" \in Entities
      BY DEF Entities
    <2> QED BY <1>1, <1>2, <2>1 DEF ClientOperations, DefaultCreateClient, DefaultReadClient,
       DefaultDeleteClient, DefaultStrictUpdateClient, DefaultPatchClient, DefaultPatchSetClient,
       DefaultDeleteClientSet, DefaultListClient
  <1>3. CASE ClientUserOperations(c)
    <2>1. "ClientUser" \in Entities
      BY DEF Entities
    <2> QED BY <1>1, <1>3, <2>1 DEF ClientUserOperations, DefaultCreateClientUser,
       DefaultReadClientUser, DefaultDeleteClientUser, DefaultStrictUpdateClientUser,
       DefaultPatchClientUser, DefaultPatchSetClientUser, DefaultDeleteClientUserSet,
       DefaultListClientUser
  <1>4. CASE AdminOperations(c)
    <2>1. "Admin" \in Entities
      BY DEF Entities
    <2> QED BY <1>1, <1>4, <2>1 DEF AdminOperations, DefaultCreateAdmin, DefaultReadAdmin,
       DefaultDeleteAdmin, DefaultStrictUpdateAdmin, DefaultPatchAdmin, DefaultPatchSetAdmin,
       DefaultDeleteAdminSet, DefaultListAdmin
  <1>5. CASE TaskOperations(c)
    <2>1. "DataRecognitionTask" \in Entities
      BY DEF Entities
    <2> QED BY <1>1, <1>5, <2>1 DEF TaskOperations, DefaultCreateDataRecognitionTask,
       DefaultReadDataRecognitionTask, DefaultDeleteDataRecognitionTask,
       DefaultStrictUpdateDataRecognitionTask, DefaultPatchDataRecognitionTask,
       DefaultPatchSetDataRecognitionTask, DefaultDeleteDataRecognitionTaskSet,
       DefaultListDataRecognitionTask
  <1> QED BY <1>2, <1>3, <1>4, <1>5

\* Statements.
LEMMA StatementsStep ==
  ASSUME IInv, NEW c \in Callers, Statement(c)
  PROVE  StoreStep(c)
  BY PatchReadStep, ClearUsersStep, SaveStep, FailStep DEF Statement

\* All steps of the store.
LEMMA StoreNextSteps ==
  ASSUME IInv, StoreNext
  PROVE  \E c \in Callers : StoreStep(c)
  BY OperationsStep, StatementsStep DEF StoreNext

\* The tasks that a query counts are finitely many.
LEMMA MatchingCounts ==
  ASSUME NEW q
  PROVE  Cardinality(Matching(q)) \in Nat
  <1>1. IsFiniteSet(Ids)
    BY RowStoreAssumption, FS_Interval DEF Ids
  <1>2. Matching(q) \subseteq Ids
    BY DEF Matching, TasksOf
  <1>3. IsFiniteSet(Matching(q))
    BY <1>1, <1>2, FS_Subset
  <1> QED BY <1>3, FS_CardinalityType

\* OFFSET and LIMIT leave of n rows those after the offset, up to the limit.
LEMMA PageLengths ==
  ASSUME NEW q, q.page \in Int, q.pageSize \in Int, q.page >= 1, q.pageSize >= 0, NEW n \in Nat
  PROVE  LET before == { i \in 1 .. n : i <= (q.page - 1) * q.pageSize }
             through == { i \in 1 .. n : i <= q.page * q.pageSize }
         IN  PageLength(q, n) = Cardinality(through \ before)
  <1> DEFINE from == (q.page - 1) * q.pageSize
             to == q.page * q.pageSize
             size == q.pageSize
             left == IF from <= 0 THEN n ELSE IF from >= n THEN 0 ELSE n - from
             last_ == Smaller(n, to)
  <1>1. from \in Nat /\ to \in Nat /\ to = from + size
    <2>1. \A p \in Int, s \in Int : p >= 1 /\ s >= 0 =>
            (p - 1) * s \in Int /\ (p - 1) * s >= 0 /\ p * s = (p - 1) * s + s
      OBVIOUS
    <2> QED BY <2>1
  <1>2. PageLength(q, n) = Smaller(left, size)
    <2>1. left \in Nat
      BY <1>1
    <2> QED BY <1>1, <2>1 DEF PageLength, Offset
  <1> HIDE DEF from, to
  <1>3. { i \in 1 .. n : i <= to } \ { i \in 1 .. n : i <= from } = from + 1 .. last_
    BY <1>1 DEF Smaller
  <1>4. Cardinality(from + 1 .. last_) = IF from + 1 > last_ THEN 0 ELSE last_ - (from + 1) + 1
    <2>1. from + 1 \in Int /\ last_ \in Int
      BY <1>1 DEF Smaller
    <2> QED BY <2>1, FS_Interval
  <1>5. Smaller(left, size) = IF from + 1 > last_ THEN 0 ELSE last_ - (from + 1) + 1
    BY <1>1 DEF Smaller
  <1> QED BY <1>2, <1>3, <1>4, <1>5 DEF from, to
\* A request begins: the list counts.
LEMMA QueryRequestKeeps ==
  ASSUME IInv, QueryRequest
  PROVE  IInv'
  <1>0. begun' \in 0 .. MaxOperations /\ UNCHANGED <<rows, op, faults, version, last>>
    <2>1. begun < MaxOperations /\ begun' = begun + 1
          /\ UNCHANGED <<rows, op, faults, version, last>>
      <3>1. ASSUME NEW client, NEW status, NEW page, NEW pageSize,
                   ListDataRecognitionTask(client, status, page, pageSize)
            PROVE  begun < MaxOperations /\ begun' = begun + 1
                   /\ UNCHANGED <<rows, op, faults, version, last>>
        BY <3>1 DEF ListDataRecognitionTask, Begins
      <3>2. ASSUME NEW client, NEW id, GetDataRecognitionTask(client, id)
            PROVE  begun < MaxOperations /\ begun' = begun + 1
                   /\ UNCHANGED <<rows, op, faults, version, last>>
        BY <3>2 DEF GetDataRecognitionTask
      <3> QED BY <3>1, <3>2 DEF QueryRequest
    <2> QED BY <2>1, RowStoreAssumption DEF IInv, OutcomesTell, TypeOK
  <1>1. TypeOK' /\ ErrorsChangeNothing' /\ Operations' /\ Unwritten'
    BY <1>0 DEF IInv, OutcomesTell, TypeOK, ErrorsChangeNothing, Operations, Unwritten
  <1>2. ASSUME NEW client \in Ids, NEW status \in Scalars, NEW page \in Pages,
               NEW pageSize \in PageSizes, ListDataRecognitionTask(client, status, page, pageSize)
        PROVE  IInv'
    <2> DEFINE about == [ client |-> client, status |-> status ]
               q == [ phase |-> "find", client |-> client, status |-> status, page |-> page,
                      pageSize |-> pageSize, count |-> Cardinality(Matching(about)) ]
    <2>1. query' = q /\ disturbed' = FALSE /\ UNCHANGED answer
      BY <1>2 DEF ListDataRecognitionTask, Begins
    <2>2. Matching(q) = Matching(about) /\ q.page = page /\ q.pageSize = pageSize
          /\ q.count = Cardinality(Matching(about))
      BY DEF Matching, TasksOf
    <2> HIDE DEF q, about
    <2>3. Matching(query)' = Matching(q)
      BY <1>0, <2>1 DEF Matching, TasksOf, Exists
    <2>4. Asked'
      BY <2>1, <2>2, <2>3, TaskQueriesAssumption DEF Asked
    <2>5. PanicsFollowWrites' /\ PageAgreesWithTotal'
      BY <1>0, <2>1 DEF IInv, OutcomesTell, PanicsFollowWrites, PageAgreesWithTotal
    <2> QED BY <1>1, <2>4, <2>5 DEF IInv, OutcomesTell
  <1>3. ASSUME NEW client \in Ids, NEW id \in Ids, GetDataRecognitionTask(client, id)
        PROVE  IInv'
    <2>1. /\ UNCHANGED <<query, disturbed>>
          /\ answer'.outcome \in {"not found", "forbidden", "panic", "task"}
          /\ answer'.outcome = "panic" =>
               /\ rows[Task][id] # NoRow
               /\ rows[Task][id].ClientId = Zero \/ rows[Task][id].RecognitionResult = Zero
      BY <1>3 DEF GetDataRecognitionTask, Exists, Task
    <2>2. answer'.outcome = "panic" => version[Task][id] > 0
      <3>1. version[Task][id] \in Nat
        BY DEF IInv, OutcomesTell, TypeOK, Task, Entities
      <3> QED BY <2>1, <3>1 DEF IInv, Unwritten
    <2>3. PanicsFollowWrites'
      BY <1>0, <2>2 DEF IInv, OutcomesTell, PanicsFollowWrites, Task
    <2>4. Asked' /\ PageAgreesWithTotal'
      BY <1>0, <2>1 DEF IInv, Asked, Matching, TasksOf, Exists, PageAgreesWithTotal
    <2> QED BY <1>1, <2>3, <2>4 DEF IInv, OutcomesTell
  <1> QED BY <1>2, <1>3 DEF QueryRequest

\* The list finds its page.
LEMMA ListFindKeeps ==
  ASSUME IInv, ListFind
  PROVE  IInv'
  <1>0. UNCHANGED <<rows, op, begun, faults, version, last, disturbed>> /\ query' = Idle
        /\ query # Idle
    BY DEF ListFind, Answers, storeVars, Idle
  <1>1. TypeOK' /\ ErrorsChangeNothing' /\ Operations' /\ Unwritten' /\ Asked'
    BY <1>0 DEF IInv, OutcomesTell, TypeOK, ErrorsChangeNothing, Operations, Unwritten, Asked
  <1>2. PICK results \in SUBSET Matching(query), outcome \in {"panic", "page"} :
          /\ Cardinality(results) = PageLength(query, Cardinality(Matching(query)))
          /\ answer' = [ results |-> results, query |-> query, disturbed |-> disturbed,
                         outcome |-> outcome ]
          /\ outcome = "panic" => \E id \in results : AfterToPBPanics(Task, Fetched(Task, id))
    BY DEF ListFind, Answers, Task
  <1>3. PanicsFollowWrites'
    <2>1. ASSUME NEW id \in results, AfterToPBPanics(Task, Fetched(Task, id))
          PROVE  \E i \in Ids : version[Task][i] > 0
      <3>1. id \in Ids /\ Exists(Task, id) /\ Task \in Entities
        BY <1>2 DEF Matching, TasksOf, Task, Entities
      <3>2. Writes
        BY <1>0, WritesRows DEF KeepRows, IInv, OutcomesTell
      <3> QED BY <1>0, <2>1, <3>1, <3>2, PanicsAreWritten
    <2>2. outcome = "panic" => \E i \in Ids : version[Task][i] > 0
      BY <1>2, <2>1
    <2>3. answer'.outcome = "panic" => outcome = "panic"
      BY <1>2
    <2> QED BY <1>0, <2>2, <2>3 DEF IInv, OutcomesTell, PanicsFollowWrites, Task
  <1>4. PageAgreesWithTotal'
    <2>1. /\ answer'.query = query /\ answer'.results = results
          /\ answer'.disturbed = disturbed
      BY <1>2
    <2>2. /\ query.page \in Int /\ query.pageSize \in Int
          /\ ~ disturbed => query.count = Cardinality(Matching(query))
      BY <1>0 DEF IInv, Asked
    <2>3. Cardinality(Matching(query)) \in Nat
      BY MatchingCounts
    <2> DEFINE before == { n \in 1 .. query.count : n <= (query.page - 1) * query.pageSize }
               through == { n \in 1 .. query.count : n <= query.page * query.pageSize }
    <2>4. ~ disturbed /\ query.page >= 1 /\ query.pageSize >= 0 =>
            Cardinality(results) = Cardinality(through \ before)
      BY <1>2, <2>2, <2>3, PageLengths
    <2> QED BY <2>1, <2>4 DEF PageAgreesWithTotal
  <1> QED BY <1>1, <1>3, <1>4 DEF IInv, OutcomesTell

\* Initially nobody has written anything.
LEMMA InitIInv == Init => IInv
  <1> SUFFICES ASSUME Init PROVE IInv
    OBVIOUS
  <1>1. PICK v \in Values :
          rows = [ Client |-> [id \in Ids |-> IF id = 1 THEN [ Name |-> v, Quota |-> v ] ELSE NoRow],
                   ClientUser |->
                     [id \in Ids |-> IF id = 1 THEN [ Email |-> v, ClientId |-> 1 ] ELSE NoRow],
                   Admin |->
                     [id \in Ids |-> IF id = 1 THEN [ Email |-> v, Password |-> v ] ELSE NoRow],
                   DataRecognitionTask |-> [id \in Ids |->
                     IF id = 1 THEN [ Status |-> v, ClientId |-> 1, RecognitionResult |-> v ]
                     ELSE NoRow] ]
    BY DEF Init, StoreInit
  <1>2. v \in Nat \ {Zero} /\ v \in Scalars /\ 1 \in Ids
    BY RowStoreAssumption DEF Scalars, Ids
  <1>3. /\ op = [c \in Callers |-> Idle] /\ begun = 0 /\ faults = 0
        /\ version = [e \in Entities |-> [id \in Ids |-> 0]]
        /\ last = [c \in Callers |->
             [ kind |-> "none", entity |-> "Client", outcome |-> "ok", wrote |-> {} ]]
        /\ query = Idle /\ answer = NoAnswer /\ disturbed = FALSE
    BY DEF Init, StoreInit
  <1>4. DOMAIN rows = Entities /\ \A e \in Entities : rows[e] \in [Ids -> Rows[e] \cup {NoRow}]
    <2>1. /\ [ Name |-> v, Quota |-> v ] \in ClientORM
          /\ [ Email |-> v, ClientId |-> 1 ] \in ClientUserORM
          /\ [ Email |-> v, Password |-> v ] \in AdminORM
          /\ [ Status |-> v, ClientId |-> 1, RecognitionResult |-> v ] \in DataRecognitionTaskORM
      BY <1>2 DEF ClientORM, ClientUserORM, AdminORM, DataRecognitionTaskORM
    <2>2. /\ DOMAIN rows = Entities
          /\ rows.Client \in [Ids -> ClientORM \cup {NoRow}]
          /\ rows.ClientUser \in [Ids -> ClientUserORM \cup {NoRow}]
          /\ rows.Admin \in [Ids -> AdminORM \cup {NoRow}]
          /\ rows.DataRecognitionTask \in [Ids -> DataRecognitionTaskORM \cup {NoRow}]
      BY <1>1, <2>1 DEF Entities
    <2> QED BY <2>2 DEF Entities, Rows
  <1>5. TypeOK
    BY <1>3, <1>4, RowStoreAssumption DEF TypeOK, Kinds, Entities
  <1>6. ErrorsChangeNothing /\ PanicsFollowWrites
    BY <1>3 DEF ErrorsChangeNothing, PanicsFollowWrites, NoAnswer
  <1>7. Operations
    BY <1>3 DEF Operations, Doing
  <1>8. Unwritten
    <2>1. \A id \in Ids : rows[Task][id] =
            IF id = 1 THEN [ Status |-> v, ClientId |-> 1, RecognitionResult |-> v ] ELSE NoRow
      BY <1>1 DEF Task
    <2>2. v # Zero /\ 1 # Zero
      BY <1>2 DEF Zero
    <2> QED BY <2>1, <2>2 DEF Unwritten
  <1>9. Asked /\ PageAgreesWithTotal
    BY <1>3 DEF Asked, PageAgreesWithTotal, NoAnswer
  <1> QED BY <1>5, <1>6, <1>7, <1>8, <1>9 DEF IInv, OutcomesTell

\* Every step keeps the invariant.
LEMMA Inductive == IInv /\ [Next]_vars => IInv'
  <1> SUFFICES ASSUME IInv, [Next]_vars PROVE IInv'
    OBVIOUS
  <1>1. CASE UNCHANGED vars
    BY <1>1 DEF vars, storeVars, IInv, OutcomesTell, TypeOK, ErrorsChangeNothing,
       PanicsFollowWrites, Operations, Unwritten, Asked, Matching, TasksOf, Exists,
       PageAgreesWithTotal
  <1>2. CASE QueryRequest
    BY <1>2, QueryRequestKeeps
  <1>3. CASE ListFind
    BY <1>3, ListFindKeeps
  <1>4. CASE StoreNext /\ disturbed' = (disturbed \/ rows' # rows) /\ UNCHANGED <<query, answer>>
    BY <1>4, StoreNextSteps, StoreStepKeeps
  <1> QED BY <1>1, <1>2, <1>3, <1>4 DEF Next

-----------------------------------------------------------------------------
(* The properties *)

\* The inductive invariant holds in every state.
THEOREM Invariance == Spec => []IInv
  BY InitIInv, Inductive, PTL DEF Spec

\* How an operation ends tells what it wrote.
THEOREM OutcomesDoTell == Spec => []OutcomesTell
  <1>1. IInv => OutcomesTell
    BY DEF IInv
  <1> QED BY <1>1, Invariance, PTL

\* Pages add up to the total, unless the tables change between the statements.
THEOREM PagesAddUp == Spec => []PageAgreesWithTotal
  <1>1. IInv => PageAgreesWithTotal
    BY DEF IInv
  <1> QED BY <1>1, Invariance, PTL

\* Who is about to save may save or fail, and nobody else changes that.
LEMMA SavingSteps ==
  ASSUME IInv, Next, NEW c \in Callers, op[c].phase = "save", op'[c] # op[c]
  PROVE  Save(c) \/ Fail(c)
  <1>1. DOMAIN op = Callers /\ op[c] # Idle
    BY DEF IInv, OutcomesTell, TypeOK, Idle
  <1>2. StoreNext
    <2>1. QueryRequest => UNCHANGED op
      BY DEF QueryRequest, ListDataRecognitionTask, Begins, GetDataRecognitionTask
    <2>2. ListFind => UNCHANGED op
      BY DEF ListFind, Answers, storeVars
    <2> QED BY <2>1, <2>2 DEF Next
  <1>3. PICK b \in Callers :
          \/ ClientOperations(b) \/ ClientUserOperations(b)
          \/ AdminOperations(b) \/ TaskOperations(b)
          \/ Statement(b)
    BY <1>2 DEF StoreNext
  <1>4. StoreStep(b) /\ (Statement(b) \/ op[b] = Idle)
    BY <1>3, OperationsStep, StatementsStep
  <1>5. b = c
    BY <1>1, <1>4 DEF StoreStep, Leaves
  <1> QED BY <1>1, <1>4, <1>5 DEF Statement, PatchRead, ClearUsers, Continue

\* A patch that nobody disturbs keeps every column that its mask does not name.
THEOREM PatchesKeep == Spec => PatchKeeps
  <1>1. ASSUME IInv, Next, NEW c \in Callers, Undisturbed(c), op'[c] # op[c],
               NEW f \in Columns[op[c].entity] \ Named(op[c].mask)
        PROVE  \/ rows'[op[c].entity][op[c].message.id][f] = rows[op[c].entity][op[c].message.id][f]
               \/ op[c].entity = "DataRecognitionTask" /\ f \in {"ClientId", "RecognitionResult"}
    <2> DEFINE e == op[c].entity
               m == op[c].message
               orm == ToORM(e, m)
    <2>0. /\ op[c] # Idle /\ TablesOK(rows)
          /\ op[c].kind \in {"Patch", "PatchSet"} /\ op[c].phase = "save"
          /\ version[e][m.id] = op[c].read
      BY <1>1 DEF Undisturbed, Idle, IInv, OutcomesTell, TypeOK, TablesOK
    <2>1. /\ e \in Entities /\ m \in Messages[e] /\ m.id \in Ids
          /\ \/ orm[f] = rows[e][m.id][f]
             \/ e = Task /\ f \in {"ClientId", "RecognitionResult"}
          /\ e = "ClientUser" /\ op[c].mask \cap {"Client", "Client.Id", "Client.Name"} = {}
               => m.Client = Zero
      <3>1. Remembers(op[c], rows, version) /\ e \in Entities /\ m \in Messages[e]
        BY <1>1, <2>0, InProgress DEF Working
      <3> QED BY <1>1, <2>0, <3>1 DEF Remembers
    <2>2. CASE rows' = rows
      <3>1. CASE e = Task /\ f \in {"ClientId", "RecognitionResult"}
        BY <3>1 DEF Task
      <3>2. CASE rows'[e][m.id][f] = rows[e][m.id][f]
        BY <3>2
      <3> QED BY <2>2, <3>2
    <2>3. CASE rows' # rows
      <3>1. Save(c)
        BY <1>1, <2>0, <2>3, SavingSteps DEF Fail
      <3>2. orm.id = m.id /\ m.id # Zero /\ \A g \in Columns[e] : orm[g] \in Domain(g)
        BY <2>1, ObjectsAreTyped DEF Ids, Zero
      <3>3. PICK client \in Associated(e, orm) : SetRows(Stored(e, orm, m.id, client))
        BY <2>3, <3>1, <3>2 DEF Save, KeepRows
      <3>4. client \in Ids \cup {Zero}
            /\ (e \notin BelongsToClient \/ m.Client = Zero => client = Zero)
        BY <2>1, AssociatedClients
      <3> HIDE DEF orm, e, m
      <3>5. rows'[e][m.id][f] = IF f = "ClientId" /\ client # Zero THEN client ELSE orm[f]
        BY <1>1, <2>0, <2>1, <3>2, <3>3, <3>4, StoredTables DEF SetRows, e
      <3>6. f = "ClientId" /\ client # Zero => e = Task
        <4>1. f = "ClientId" /\ e = "ClientUser" =>
                op[c].mask \cap {"Client", "Client.Id", "Client.Name"} = {}
          BY <1>1 DEF Named
        <4> QED BY <2>1, <3>4, <4>1 DEF BelongsToClient, Task
      <3> QED BY <2>1, <3>5, <3>6 DEF Task, e, m
    <2> QED BY <2>2, <2>3
  <1>2. IInv /\ [Next]_vars => [KeepsOtherColumns]_storeVars
    BY <1>1 DEF KeepsOtherColumns, vars, storeVars
  <1> QED BY <1>2, Invariance, PTL DEF Spec, PatchKeeps
=============================================================================
