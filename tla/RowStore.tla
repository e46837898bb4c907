------------------------------ MODULE RowStore ------------------------------
(***************************************************************************)
(* The generated persistence functions of models.pb.gorm.go: conversions   *)
(* between messages, ORM objects and rows, and the Default* operations on  *)
(* clients, client users, admins and tasks.                                *)
(*                                                                         *)
(* The columns of a table are abstracted to two that any value may take    *)
(* (one for users and tasks) and those that matter to other tables or to a *)
(* conversion: ClientId and RecognitionResult. The handle that callers     *)
(* pass has no task hooks. Each statement is atomic; callers interleave    *)
(* between statements. Arguments are not nil.                              *)
(***************************************************************************)
EXTENDS Integers, Sequences

CONSTANTS
  Callers,       \* goroutines that call the functions
  MaxId,         \* bound: rows of a table
  Values,        \* values of a column, besides the zero value
  Inputs,        \* messages that callers pass, of each entity
  Masks,         \* field masks that callers pass, of each entity
  MaxOperations, \* bound: operations begun
  MaxFaults      \* bound: statements that fail

Entities == {"Client", "ClientUser", "Admin", "DataRecognitionTask"}
Ids == 1 .. MaxId

Zero == 0     \* the zero value of a column; no id; no client
Unsaved == -1 \* a client message without an id

Clients == Ids \cup {Zero, Unsaved}
Scalars == Values \cup {Zero}

\* The messages of each entity.
Messages ==
  [ Client |-> [ id : Ids \cup {Zero}, Name : Scalars, Quota : Scalars ],
    ClientUser |->
      [ id : Ids \cup {Zero}, Email : Scalars, ClientId : Ids \cup {Zero}, Client : Clients ],
    Admin |-> [ id : Ids \cup {Zero}, Email : Scalars, Password : Scalars ],
    DataRecognitionTask |->
      [ id : Ids \cup {Zero}, Status : Scalars, Client : Clients,
        RecognitionResult : Scalars ] ]

Fields ==
  [ Client |-> {"Name", "Quota"},
    ClientUser |-> {"Email", "ClientId", "Client", "Client.Id", "Client.Name"},
    Admin |-> {"Email", "Password"},
    DataRecognitionTask |->
      {"Status", "Client", "Client.Id", "Client.Name", "RecognitionResult"} ]

ASSUME RowStoreAssumption ==
  /\ MaxId \in Nat \ {0}
  /\ Values \subseteq Nat \ {Zero}
  /\ \A e \in Entities : Inputs[e] \subseteq Messages[e] /\ Masks[e] \subseteq SUBSET Fields[e]
  /\ MaxOperations \in Nat
  /\ MaxFaults \in Nat

VARIABLES
  rows,    \* the four tables: a row or NoRow for each id
  op,      \* what each caller is doing
  begun,   \* operations begun
  faults,  \* statements that failed
  version, \* history: writes of each row
  last     \* history: how the last operation of each caller went

storeVars == <<rows, op, begun, faults, version, last>>

-----------------------------------------------------------------------------
(* Tables *)

ClientORM == [ Name : Scalars, Quota : Scalars ]
ClientUserORM == [ Email : Scalars, ClientId : Ids \cup {Zero} ]
AdminORM == [ Email : Scalars, Password : Scalars ]
DataRecognitionTaskORM ==
  [ Status : Scalars, ClientId : Ids \cup {Zero}, RecognitionResult : Scalars ]

Rows ==
  [ Client |-> ClientORM, ClientUser |-> ClientUserORM, Admin |-> AdminORM,
    DataRecognitionTask |-> DataRecognitionTaskORM ]

Columns ==
  [ Client |-> {"Name", "Quota"}, ClientUser |-> {"Email", "ClientId"},
    Admin |-> {"Email", "Password"},
    DataRecognitionTask |-> {"Status", "ClientId", "RecognitionResult"} ]

NoRow == [ none |-> TRUE ]
Exists(e, id) == rows[e][id] # NoRow

BelongsToClient == {"ClientUser", "DataRecognitionTask"}

\* Whether a row of another table has the client as a foreign key.
Referred(tables, id) ==
  \E e \in BelongsToClient, r \in Ids :
    tables[e][r] # NoRow /\ tables[e][r].ClientId = id

ForeignKeysHold(tables) ==
  \A id \in Ids : Referred(tables, id) => tables.Client[id] # NoRow

-----------------------------------------------------------------------------
(* Conversions. An ORM object has the columns of the row and the client     *)
(* associated with it; Omit("Users") leaves the users of a client out.      *)

ClientToORM(m) == [ id |-> m.id, Name |-> m.Name, Quota |-> m.Quota ]

ClientToPB(orm) == [ id |-> orm.id, Name |-> orm.Name, Quota |-> orm.Quota ]

\* Mutant: the message's client id is forgotten.
ClientUserToORMWithoutClient(m) ==
  [ id |-> m.id, Email |-> m.Email, ClientId |-> Zero, Client |-> m.Client ]

ClientUserToORM(m) ==
  [ id |-> m.id, Email |-> m.Email, ClientId |-> m.ClientId, Client |-> m.Client ]

ClientUserToPB(orm) ==
  [ id |-> orm.id, Email |-> orm.Email, ClientId |-> orm.ClientId, Client |-> orm.Client ]

AdminToORM(m) == [ id |-> m.id, Email |-> m.Email, Password |-> m.Password ]

AdminToPB(orm) == [ id |-> orm.id, Email |-> orm.Email, Password |-> orm.Password ]

\* The message has no client id, and its results are not converted.
DataRecognitionTaskToORM(m) ==
  [ id |-> m.id, Status |-> m.Status, ClientId |-> Zero, Client |-> m.Client,
    RecognitionResult |-> Zero ]

DataRecognitionTaskToPB(orm) ==
  [ id |-> orm.id, Status |-> orm.Status, Client |-> orm.Client,
    RecognitionResult |-> orm.RecognitionResult ]

\* AfterToPB dereferences the result.
AfterToPBPanics(e, orm) == e = "DataRecognitionTask" /\ orm.RecognitionResult = Zero

ToORM(e, m) ==
  CASE e = "Client" -> ClientToORM(m)
    [] e = "ClientUser" -> ClientUserToORM(m)
    [] e = "Admin" -> AdminToORM(m)
    [] e = "DataRecognitionTask" -> DataRecognitionTaskToORM(m)

ToPB(e, orm) ==
  CASE e = "Client" -> ClientToPB(orm)
    [] e = "ClientUser" -> ClientUserToPB(orm)
    [] e = "Admin" -> AdminToPB(orm)
    [] e = "DataRecognitionTask" -> DataRecognitionTaskToPB(orm)

\* The object a query fills from a row: associations are not loaded.
Fetched(e, id) ==
  [ f \in Columns[e] \cup {"id"} \cup (IF e \in BelongsToClient THEN {"Client"} ELSE {}) |->
      IF f = "id" THEN id ELSE IF f = "Client" THEN Zero ELSE rows[e][id][f] ]

\* Where(&ormObj): the columns that are not zero.
Matches(e, id, orm) ==
  /\ Exists(e, id)
  /\ orm.id \in {Zero, id}
  /\ \A f \in Columns[e] : orm[f] \in {Zero, rows[e][id][f]}

-----------------------------------------------------------------------------
(* Field masks *)

\* Client: the client message a nested mask leaves in a message that had none.
MaskedClient(patcher, mask) ==
  IF patcher.Client = Zero THEN Zero
  ELSE IF "Client.Id" \in mask THEN patcher.Client ELSE Unsaved

DefaultApplyFieldMaskClient(patchee, patcher, mask) ==
  [f \in DOMAIN patchee |-> IF f \in mask THEN patcher[f] ELSE patchee[f]]

DefaultApplyFieldMaskAdmin(patchee, patcher, mask) ==
  [f \in DOMAIN patchee |-> IF f \in mask THEN patcher[f] ELSE patchee[f]]

NestedMask(patchee, patcher, mask) ==
  [f \in DOMAIN patchee |->
    IF f \in mask THEN patcher[f]
    ELSE IF f = "Client" /\ mask \cap {"Client.Id", "Client.Name"} # {}
         THEN MaskedClient(patcher, mask)
         ELSE patchee[f]]

DefaultApplyFieldMaskClientUser(patchee, patcher, mask) ==
  NestedMask(patchee, patcher, mask)

DefaultApplyFieldMaskDataRecognitionTask(patchee, patcher, mask) ==
  NestedMask(patchee, patcher, mask)

DefaultApplyFieldMask(e, patchee, patcher, mask) ==
  CASE e = "Client" -> DefaultApplyFieldMaskClient(patchee, patcher, mask)
    [] e = "ClientUser" -> DefaultApplyFieldMaskClientUser(patchee, patcher, mask)
    [] e = "Admin" -> DefaultApplyFieldMaskAdmin(patchee, patcher, mask)
    [] e = "DataRecognitionTask" ->
         DefaultApplyFieldMaskDataRecognitionTask(patchee, patcher, mask)

-----------------------------------------------------------------------------
(* Statements *)

Idle == [ phase |-> "idle" ]

Begin(c) ==
  /\ op[c] = Idle
  /\ begun < MaxOperations
  /\ begun' = begun + 1
  /\ UNCHANGED faults

Continue(c, phase) ==
  /\ op[c].phase = phase
  /\ UNCHANGED <<begun, faults>>

\* wrote: what the operation changed, the row or the users of a client.
Reply(c, kind, e, outcome, wrote) ==
  /\ op' = [op EXCEPT ![c] = Idle]
  /\ last' = [last EXCEPT ![c] =
       [ kind |-> kind, entity |-> e, outcome |-> outcome, wrote |-> wrote ]]

SetRows(tables) ==
  /\ rows' = tables
  /\ version' = [e \in Entities |-> [id \in Ids |->
       version[e][id] + IF tables[e][id] = rows[e][id] THEN 0 ELSE 1]]

KeepRows == UNCHANGED <<rows, version>>

FreeIds(e) == { id \in Ids : ~ Exists(e, id) }

\* The ids that the client associated with an object may get; Zero if none is.
Associated(e, orm) ==
  IF e \notin BelongsToClient THEN {Zero}
  ELSE IF orm.Client = Unsaved THEN FreeIds("Client") ELSE {orm.Client}

\* The tables once orm is stored under id: the associated client is inserted if
\* it is not there, and its id overrides the object's client id.
Stored(e, orm, id, client) ==
  LET tables == IF client = Zero \/ Exists("Client", client) THEN rows
                ELSE [rows EXCEPT !.Client[client] = [ Name |-> Zero, Quota |-> Zero ]]
      row == [f \in Columns[e] |->
               IF f = "ClientId" /\ client # Zero THEN client ELSE orm[f]]
  IN [tables EXCEPT ![e][id] = row]

Converted(e, orm) == IF AfterToPBPanics(e, orm) THEN "panic" ELSE "ok"

DefaultCreate(c, e, m) ==
  LET orm == ToORM(e, m) IN
  /\ Begin(c)
  /\ \E id \in (IF m.id = Zero THEN FreeIds(e) ELSE {m.id}), client \in Associated(e, orm) :
       LET tables == Stored(e, orm, id, client) IN
       IF Exists(e, id) \/ ~ ForeignKeysHold(tables)
       THEN KeepRows /\ Reply(c, "Create", e, "error", {})
       ELSE SetRows(tables) /\ Reply(c, "Create", e, Converted(e, orm), {"row"})

DefaultRead(c, e, m) ==
  /\ Begin(c)
  /\ KeepRows
  /\ Reply(c, "Read", e,
       IF m.id = Zero \/ ~ Matches(e, m.id, ToORM(e, m)) THEN "error"
       ELSE Converted(e, Fetched(e, m.id)),
       {})

\* The tables once the rows of e with these ids are deleted.
Without(e, ids) == [rows EXCEPT ![e] = [id \in Ids |-> IF id \in ids THEN NoRow ELSE @[id]]]

Delete(c, kind, e, ids) ==
  LET tables == Without(e, ids) IN
  IF ForeignKeysHold(tables)
  THEN /\ SetRows(tables)
       /\ Reply(c, kind, e, "ok", IF tables = rows THEN {} ELSE {"row"})
  ELSE KeepRows /\ Reply(c, kind, e, "error", {})

DefaultDelete(c, e, m) ==
  /\ Begin(c)
  /\ IF m.id = Zero THEN KeepRows /\ Reply(c, "Delete", e, "error", {})
     ELSE Delete(c, "Delete", e, IF Matches(e, m.id, ToORM(e, m)) THEN {m.id} ELSE {})

\* Mutant: each row is deleted as its key is read.
DefaultDeleteSetOneByOne(c, e, keys) ==
  /\ Begin(c)
  /\ IF \A k \in keys : k # Zero THEN Delete(c, "DeleteSet", e, keys)
     ELSE /\ SetRows(Without(e, keys))
          /\ Reply(c, "DeleteSet", e, "error", IF Without(e, keys) = rows THEN {} ELSE {"row"})

DefaultDeleteSet(c, e, keys) ==
  /\ Begin(c)
  /\ IF Zero \in keys THEN KeepRows /\ Reply(c, "DeleteSet", e, "error", {})
     ELSE Delete(c, "DeleteSet", e, keys)

DefaultList(c, e) ==
  /\ Begin(c)
  /\ KeepRows
  /\ Reply(c, "List", e,
       IF \E id \in Ids : Exists(e, id) /\ AfterToPBPanics(e, Fetched(e, id))
       THEN "panic" ELSE "ok",
       {})

\* What is left to do of an update: the object to save, the messages to patch
\* after it, and the version of the row that the patch read.
Update(kind, e, phase, m, mask, read, rest, wrote) ==
  [ kind |-> kind, entity |-> e, phase |-> phase, message |-> m, mask |-> mask,
    read |-> read, rest |-> rest, wrote |-> wrote ]

\* The row is not locked: gorm ignores the query option. Only clients have
\* children to clear.
SavePhase(e) == IF e = "Client" THEN "clear" ELSE "save"

DefaultStrictUpdate(c, e, m) ==
  /\ Begin(c)
  /\ KeepRows
  /\ IF e = "Client" /\ m.id = Zero THEN Reply(c, "StrictUpdate", e, "error", {})
     ELSE /\ op' = [op EXCEPT ![c] =
               Update("StrictUpdate", e, SavePhase(e), m, {}, 0, <<>>, {})]
          /\ UNCHANGED last

ClearUsers(c) ==
  LET users == { u \in Ids : /\ Exists("ClientUser", u)
                             /\ rows.ClientUser[u].ClientId = op[c].message.id } IN
  /\ Continue(c, "clear")
  /\ SetRows(Without("ClientUser", users))
  /\ op' = [op EXCEPT ![c].phase = "save",
                      ![c].wrote = IF users = {} THEN @ ELSE @ \cup {"users"}]
  /\ UNCHANGED last

\* Save updates the row or inserts it, a new one if it has no id.
Save(c) ==
  LET e == op[c].entity
      orm == ToORM(e, op[c].message) IN
  /\ Continue(c, "save")
  /\ \E id \in (IF orm.id = Zero THEN FreeIds(e) ELSE {orm.id}), client \in Associated(e, orm) :
       LET tables == Stored(e, orm, id, client)
           wrote == op[c].wrote \cup {"row"} IN
       IF ~ ForeignKeysHold(tables)
       THEN KeepRows /\ Reply(c, op[c].kind, e, "error", op[c].wrote)
       ELSE /\ SetRows(tables)
            /\ IF AfterToPBPanics(e, orm) \/ op[c].rest = <<>>
               THEN Reply(c, op[c].kind, e, Converted(e, orm), wrote)
               ELSE /\ op' = [op EXCEPT ![c].phase = "read", ![c].wrote = wrote]
                    /\ UNCHANGED last

StartPatches(c, kind, e, patches) ==
  /\ op' = [op EXCEPT ![c] = Update(kind, e, "read", patches[1].message, {}, 0, patches, {})]
  /\ UNCHANGED last

DefaultPatch(c, e, m, mask) ==
  /\ Begin(c)
  /\ KeepRows
  /\ StartPatches(c, "Patch", e, << [ message |-> m, mask |-> mask ] >>)

\* The first patch that fails ends the set; those before it stay.
DefaultPatchSet(c, e, objects, updateMasks) ==
  /\ Begin(c)
  /\ KeepRows
  /\ IF Len(objects) # Len(updateMasks) THEN Reply(c, "PatchSet", e, "error", {})
     ELSE StartPatches(c, "PatchSet", e,
            [i \in DOMAIN objects |-> [ message |-> objects[i], mask |-> updateMasks[i] ]])

PatchRead(c) ==
  LET e == op[c].entity
      patch == Head(op[c].rest)
      id == patch.message.id IN
  /\ Continue(c, "read")
  /\ KeepRows
  /\ IF id = Zero \/ ~ Exists(e, id) THEN Reply(c, op[c].kind, e, "error", op[c].wrote)
     ELSE IF AfterToPBPanics(e, Fetched(e, id))
     THEN Reply(c, op[c].kind, e, "panic", op[c].wrote)
     ELSE LET m == DefaultApplyFieldMask(e, ToPB(e, Fetched(e, id)), patch.message, patch.mask) IN
          /\ op' = [op EXCEPT ![c] =
               Update(op[c].kind, e, SavePhase(e), m, patch.mask, version[e][id],
                      Tail(op[c].rest), op[c].wrote)]
          /\ UNCHANGED last

\* A statement fails; those before it stay, for there is no transaction.
Fail(c) ==
  /\ op[c] # Idle
  /\ faults < MaxFaults
  /\ faults' = faults + 1
  /\ Reply(c, op[c].kind, op[c].entity, "error", op[c].wrote)
  /\ UNCHANGED <<rows, begun, version>>

-----------------------------------------------------------------------------
(* The operations of each entity *)

DefaultCreateClient(c, m) == DefaultCreate(c, "Client", m)
DefaultReadClient(c, m) == DefaultRead(c, "Client", m)
DefaultDeleteClient(c, m) == DefaultDelete(c, "Client", m)
DefaultDeleteClientSet(c, keys) == DefaultDeleteSet(c, "Client", keys)
DefaultStrictUpdateClient(c, m) == DefaultStrictUpdate(c, "Client", m)
DefaultPatchClient(c, m, mask) == DefaultPatch(c, "Client", m, mask)
DefaultPatchSetClient(c, ms, masks) == DefaultPatchSet(c, "Client", ms, masks)
DefaultListClient(c) == DefaultList(c, "Client")

DefaultCreateClientUser(c, m) == DefaultCreate(c, "ClientUser", m)
DefaultReadClientUser(c, m) == DefaultRead(c, "ClientUser", m)
DefaultDeleteClientUser(c, m) == DefaultDelete(c, "ClientUser", m)
DefaultDeleteClientUserSet(c, keys) == DefaultDeleteSet(c, "ClientUser", keys)
DefaultStrictUpdateClientUser(c, m) == DefaultStrictUpdate(c, "ClientUser", m)
DefaultPatchClientUser(c, m, mask) == DefaultPatch(c, "ClientUser", m, mask)
DefaultPatchSetClientUser(c, ms, masks) == DefaultPatchSet(c, "ClientUser", ms, masks)
DefaultListClientUser(c) == DefaultList(c, "ClientUser")

DefaultCreateAdmin(c, m) == DefaultCreate(c, "Admin", m)
DefaultReadAdmin(c, m) == DefaultRead(c, "Admin", m)
DefaultDeleteAdmin(c, m) == DefaultDelete(c, "Admin", m)
DefaultDeleteAdminSet(c, keys) == DefaultDeleteSet(c, "Admin", keys)
DefaultStrictUpdateAdmin(c, m) == DefaultStrictUpdate(c, "Admin", m)
DefaultPatchAdmin(c, m, mask) == DefaultPatch(c, "Admin", m, mask)
DefaultPatchSetAdmin(c, ms, masks) == DefaultPatchSet(c, "Admin", ms, masks)
DefaultListAdmin(c) == DefaultList(c, "Admin")

DefaultCreateDataRecognitionTask(c, m) == DefaultCreate(c, "DataRecognitionTask", m)
DefaultReadDataRecognitionTask(c, m) == DefaultRead(c, "DataRecognitionTask", m)
DefaultDeleteDataRecognitionTask(c, m) == DefaultDelete(c, "DataRecognitionTask", m)
DefaultDeleteDataRecognitionTaskSet(c, keys) == DefaultDeleteSet(c, "DataRecognitionTask", keys)
DefaultStrictUpdateDataRecognitionTask(c, m) ==
  DefaultStrictUpdate(c, "DataRecognitionTask", m)
DefaultPatchDataRecognitionTask(c, m, mask) == DefaultPatch(c, "DataRecognitionTask", m, mask)
DefaultPatchSetDataRecognitionTask(c, ms, masks) ==
  DefaultPatchSet(c, "DataRecognitionTask", ms, masks)
DefaultListDataRecognitionTask(c) == DefaultList(c, "DataRecognitionTask")

ClientOperations(c) ==
  \/ \E m \in Inputs.Client :
       \/ DefaultCreateClient(c, m)
       \/ DefaultReadClient(c, m)
       \/ DefaultDeleteClient(c, m)
       \/ DefaultStrictUpdateClient(c, m)
       \/ \E mask \in Masks.Client :
            \/ DefaultPatchClient(c, m, mask)
            \/ \E n \in Inputs.Client, masks \in { <<mask>>, <<mask, mask>> } :
                 DefaultPatchSetClient(c, <<m, n>>, masks)
  \/ \E keys \in SUBSET (Ids \cup {Zero}) : DefaultDeleteClientSet(c, keys)
  \/ DefaultListClient(c)

ClientUserOperations(c) ==
  \/ \E m \in Inputs.ClientUser :
       \/ DefaultCreateClientUser(c, m)
       \/ DefaultReadClientUser(c, m)
       \/ DefaultDeleteClientUser(c, m)
       \/ DefaultStrictUpdateClientUser(c, m)
       \/ \E mask \in Masks.ClientUser :
            \/ DefaultPatchClientUser(c, m, mask)
            \/ \E n \in Inputs.ClientUser, masks \in { <<mask>>, <<mask, mask>> } :
                 DefaultPatchSetClientUser(c, <<m, n>>, masks)
  \/ \E keys \in SUBSET (Ids \cup {Zero}) : DefaultDeleteClientUserSet(c, keys)
  \/ DefaultListClientUser(c)

AdminOperations(c) ==
  \/ \E m \in Inputs.Admin :
       \/ DefaultCreateAdmin(c, m)
       \/ DefaultReadAdmin(c, m)
       \/ DefaultDeleteAdmin(c, m)
       \/ DefaultStrictUpdateAdmin(c, m)
       \/ \E mask \in Masks.Admin :
            \/ DefaultPatchAdmin(c, m, mask)
            \/ \E n \in Inputs.Admin, masks \in { <<mask>>, <<mask, mask>> } :
                 DefaultPatchSetAdmin(c, <<m, n>>, masks)
  \/ \E keys \in SUBSET (Ids \cup {Zero}) : DefaultDeleteAdminSet(c, keys)
  \/ DefaultListAdmin(c)

TaskOperations(c) ==
  \/ \E m \in Inputs.DataRecognitionTask :
       \/ DefaultCreateDataRecognitionTask(c, m)
       \/ DefaultReadDataRecognitionTask(c, m)
       \/ DefaultDeleteDataRecognitionTask(c, m)
       \/ DefaultStrictUpdateDataRecognitionTask(c, m)
       \/ \E mask \in Masks.DataRecognitionTask :
            \/ DefaultPatchDataRecognitionTask(c, m, mask)
            \/ \E n \in Inputs.DataRecognitionTask, masks \in { <<mask>>, <<mask, mask>> } :
                 DefaultPatchSetDataRecognitionTask(c, <<m, n>>, masks)
  \/ \E keys \in SUBSET (Ids \cup {Zero}) : DefaultDeleteDataRecognitionTaskSet(c, keys)
  \/ DefaultListDataRecognitionTask(c)

Statement(c) ==
  \/ PatchRead(c)
  \/ ClearUsers(c)
  \/ Save(c)
  \/ Fail(c)

\* A client with a user and a task, which has a result, and an administrator.
StoreInit ==
  /\ \E v \in Values :
       LET only(row) == [id \in Ids |-> IF id = 1 THEN row ELSE NoRow] IN
       rows = [ Client |-> only([ Name |-> v, Quota |-> v ]),
                ClientUser |-> only([ Email |-> v, ClientId |-> 1 ]),
                Admin |-> only([ Email |-> v, Password |-> v ]),
                DataRecognitionTask |->
                  only([ Status |-> v, ClientId |-> 1, RecognitionResult |-> v ]) ]
  /\ op = [c \in Callers |-> Idle]
  /\ begun = 0
  /\ faults = 0
  /\ version = [e \in Entities |-> [id \in Ids |-> 0]]
  /\ last = [c \in Callers |->
       [ kind |-> "none", entity |-> "Client", outcome |-> "ok", wrote |-> {} ]]

StoreNext ==
  \E c \in Callers :
    \/ ClientOperations(c)
    \/ ClientUserOperations(c)
    \/ AdminOperations(c)
    \/ TaskOperations(c)
    \/ Statement(c)

-----------------------------------------------------------------------------
(* Properties *)

Kinds == {"none", "Create", "Read", "Delete", "DeleteSet", "StrictUpdate", "Patch",
          "PatchSet", "List"}

Patches(e) == [ message : Inputs[e], mask : Masks[e] ]

UpdateOK(u) ==
  /\ u.kind \in Kinds
  /\ u.entity \in Entities
  /\ u.phase \in {"read", "clear", "save"}
  /\ u.message \in Messages[u.entity]
  /\ u.mask \subseteq Fields[u.entity]
  /\ u.read \in Nat
  /\ u.rest \in Seq(Patches(u.entity))
  /\ u.wrote \subseteq {"row", "users"}

TypeOK ==
  /\ DOMAIN rows = Entities
  /\ \A e \in Entities : rows[e] \in [Ids -> Rows[e] \cup {NoRow}]
  /\ DOMAIN op = Callers
  /\ \A c \in Callers : op[c] = Idle \/ UpdateOK(op[c])
  /\ begun \in 0 .. MaxOperations
  /\ faults \in 0 .. MaxFaults
  /\ version \in [Entities -> [Ids -> Nat]]
  /\ last \in [Callers -> [ kind : Kinds, entity : Entities,
                            outcome : {"ok", "error", "panic"},
                            wrote : SUBSET {"row", "users"} ]]

\* An operation that reports an error has left the tables as they were, wherever
\* it failed, with two exceptions: the patches of a set before the one that
\* failed, and the users of a client, which an update deletes before it saves.
ErrorsChangeNothing ==
  \A c \in Callers :
    last[c].outcome = "error" =>
      /\ "row" \in last[c].wrote => last[c].kind = "PatchSet"
      /\ "users" \in last[c].wrote =>
           /\ last[c].entity = "Client"
           /\ last[c].kind \in {"StrictUpdate", "Patch", "PatchSet"}

\* The columns that a mask names.
Named(mask) ==
  mask \cup (IF mask \cap {"Client", "Client.Id", "Client.Name"} = {} THEN {} ELSE {"ClientId"})

\* A patch is about to save, and nobody wrote its row since it was read.
Undisturbed(c) ==
  /\ op[c].phase = "save"
  /\ op[c].kind \in {"Patch", "PatchSet"}
  /\ version[op[c].entity][op[c].message.id] = op[c].read

\* A patch keeps the columns its mask does not name, unless another caller wrote
\* the row after the patch read it: then it takes that write back. A task loses
\* its client and its result whatever the mask.
KeepsOtherColumns ==
  \A c \in Callers : Undisturbed(c) /\ op'[c] # op[c] =>
    LET e == op[c].entity
        id == op[c].message.id IN
    \A f \in Columns[e] \ Named(op[c].mask) :
      \/ rows'[e][id][f] = rows[e][id][f]
      \/ e = "DataRecognitionTask" /\ f \in {"ClientId", "RecognitionResult"}

\* A patch that nobody disturbs keeps every column that its mask does not name.
PatchKeeps == [][KeepsOtherColumns]_storeVars
=============================================================================
