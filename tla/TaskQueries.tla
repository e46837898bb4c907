---------------------------- MODULE TaskQueries ----------------------------
(***************************************************************************)
(* The read side of the REST API over the tables of RowStore: a task by    *)
(* its id, and a client's tasks page by page. The list is two statements,  *)
(* without a transaction and without an order, while callers of the store  *)
(* change the tables.                                                      *)
(***************************************************************************)
EXTENDS RowStore, FiniteSets

CONSTANTS
  Pages,    \* page numbers that requests ask for
  PageSizes \* page sizes that requests ask for

ASSUME TaskQueriesAssumption == Pages \subseteq Int /\ PageSizes \subseteq Int

VARIABLES
  query,    \* the request in progress, or Idle
  answer,   \* history: what the last request got
  disturbed \* history: tables changed since the request in progress began

vars == <<storeVars, query, answer, disturbed>>

TasksOf(client) ==
  { id \in Ids : /\ Exists("DataRecognitionTask", id)
                 /\ rows.DataRecognitionTask[id].ClientId = client }

\* The statement's Join keeps tasks whose client exists, which the foreign key ensures.
Matching(q) ==
  { id \in TasksOf(q.client) :
      q.status \in {Zero, rows.DataRecognitionTask[id].Status} }

\* Mutant: pages are counted from zero.
OffsetFromZero(q) == q.page * q.pageSize

Offset(q) == (q.page - 1) * q.pageSize

Smaller(a, b) == IF a <= b THEN a ELSE b

\* Rows that OFFSET and LIMIT leave of n: gorm leaves out an offset that is not
\* positive and a limit that is negative.
PageLength(q, n) ==
  LET left == IF Offset(q) <= 0 THEN n ELSE IF Offset(q) >= n THEN 0 ELSE n - Offset(q)
  IN IF q.pageSize < 0 THEN left ELSE Smaller(left, q.pageSize)

Begins(q) ==
  /\ query = Idle
  /\ begun < MaxOperations
  /\ begun' = begun + 1
  /\ query' = q
  /\ disturbed' = FALSE
  /\ UNCHANGED <<rows, op, faults, version, last, answer>>

Answers(a) ==
  /\ answer' = a
  /\ query' = Idle
  /\ UNCHANGED <<storeVars, disturbed>>

NoAnswer == [ outcome |-> "none" ]

ListDataRecognitionTask(client, status, page, pageSize) ==
  Begins([ phase |-> "find", client |-> client, status |-> status, page |-> page,
           pageSize |-> pageSize,
           count |-> Cardinality(Matching([ client |-> client, status |-> status ])) ])

\* Any rows in any order; one without a result panics.
ListFind ==
  /\ query.phase = "find"
  /\ \E results \in SUBSET Matching(query) :
       /\ Cardinality(results) = PageLength(query, Cardinality(Matching(query)))
       /\ Answers([ results |-> results, query |-> query, disturbed |-> disturbed,
            outcome |->
              IF \E id \in results : AfterToPBPanics("DataRecognitionTask",
                                                     Fetched("DataRecognitionTask", id))
              THEN "panic" ELSE "page" ])

\* Whether the task is of the client is looked at on the row that is converted;
\* a task without a client panics there.
GetDataRecognitionTask(client, id) ==
  /\ query = Idle
  /\ begun < MaxOperations
  /\ begun' = begun + 1
  /\ UNCHANGED <<rows, op, faults, version, last, query, disturbed>>
  /\ LET exists == Exists("DataRecognitionTask", id)
         row == rows.DataRecognitionTask[id] IN
     answer' = [ outcome |->
       CASE ~ exists -> "not found"
         [] exists /\ row.ClientId \notin {Zero, client} -> "forbidden"
         [] exists /\ (row.ClientId = Zero \/ row.RecognitionResult = Zero) -> "panic"
         [] OTHER -> "task" ]

QueryRequest ==
  \/ \E client \in Ids, status \in Scalars, page \in Pages, pageSize \in PageSizes :
       ListDataRecognitionTask(client, status, page, pageSize)
  \/ \E client \in Ids, id \in Ids : GetDataRecognitionTask(client, id)

Init == StoreInit /\ query = Idle /\ answer = NoAnswer /\ disturbed = FALSE

Next ==
  \/ QueryRequest
  \/ ListFind
  \/ /\ StoreNext
     /\ disturbed' = (disturbed \/ rows' # rows)
     /\ UNCHANGED <<query, answer>>

Spec == Init /\ [][Next]_vars

-----------------------------------------------------------------------------
(* Properties *)

\* A page holds as many tasks as its total promises, unless the tables change
\* between the two statements that make it: pages add up to the total.
PageAgreesWithTotal ==
  answer.outcome = "page" /\ ~ answer.disturbed =>
    LET q == answer.query
        before == { n \in 1 .. q.count : n <= (q.page - 1) * q.pageSize }
        through == { n \in 1 .. q.count : n <= q.page * q.pageSize } IN
    q.page >= 1 /\ q.pageSize >= 0 =>
      Cardinality(answer.results) = Cardinality(through \ before)

\* As long as no operation of the store has written a task, every task that has
\* a result is read, listed and answered without a panic.
PanicsFollowWrites ==
  (answer.outcome = "panic" \/ \E c \in Callers : last[c].outcome = "panic") =>
    \E id \in Ids : version.DataRecognitionTask[id] > 0

\* How an operation ends tells what it wrote: an error, nothing but for the
\* exceptions named; a panic, a task written without its result.
OutcomesTell == TypeOK /\ ErrorsChangeNothing /\ PanicsFollowWrites
=============================================================================
