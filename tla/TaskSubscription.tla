-------------------------- MODULE TaskSubscription --------------------------
(***************************************************************************)
(* How pending tasks reach the workers: the subscribers of the state       *)
(* machine, a map guarded by a sync.RWMutex, and TaskService.Subscribe,    *)
(* which registers a channel, sends the tasks that are pending already and *)
(* then whatever the channel brings.                                       *)
(*                                                                         *)
(* A publisher is a goroutine in Process: it has saved a task (TaskMachine *)
(* says which) and calls notifySubscribers. One action is a lock           *)
(* operation, a database statement, or one channel operation.              *)
(***************************************************************************)
EXTENDS Integers, Sequences, TaskStatus

CONSTANTS
  Tasks,        \* task ids
  Publishers,   \* goroutines that save tasks and notify
  Streams,      \* calls of Subscribe, each with its uuid
  NoOne,        \* no goroutine
  Capacity,     \* bound: the size of a channel (100 in the code)
  MaxRequests   \* bound: requests that save a task

ASSUME SubscriptionAssumption ==
  /\ NoOne \notin Streams
  /\ Capacity \in Nat \ {0}
  /\ MaxRequests \in Nat

VARIABLES
  status,       \* the status column: IMAGES_PENDING, RECOGNITION_PENDING or OTHER
  pub,          \* what each publisher is doing
  stream,       \* what each Subscribe is doing
  subscribers,  \* the keys of sm.subscribers
  open,         \* streams whose channel is made and not closed
  chan,         \* the buffer of each channel
  readers,      \* publishers that hold mu.RLock
  writer,       \* the stream that holds mu.Lock or is next to hold it
  requests,     \* requests that saved, or will save, a task
  sent,         \* history: tasks each stream sent since they were last saved
  dropped       \* history: tasks each full channel missed since they were last saved

database == <<status, requests>>
lock == <<readers, writer>>
vars == <<status, pub, stream, subscribers, open, chan, readers, writer,
          requests, sent, dropped>>

Queues == { "QUEUE_IMAGE_PROCESSING", "QUEUE_DATA_RECOGNITION" }

\* The status whose tasks a queue gets.
Published == [ QUEUE_IMAGE_PROCESSING |-> "IMAGES_PENDING",
               QUEUE_DATA_RECOGNITION |-> "RECOGNITION_PENDING" ]

Statuses == Pending \cup { "OTHER" }

\* left: the subscribers the range loop has not visited; early: the task is
\* still to be saved with this status.
Publisher == [ pc : { "rlock", "notify", "save" }, task : Tasks,
               status : Pending, left : SUBSET Streams, early : BOOLEAN ]

Idle == [ pc |-> "idle" ]

\* list: tasks to send before the next receive.
Stream == [ pc : { "new", "lock", "query", "sending", "listening",
                   "leaving", "unlock", "done" },
            queue : Queues, list : SUBSET Tasks ]

In(q) == { q[i] : i \in 1 .. Len(q) }

-----------------------------------------------------------------------------
(* Publishers *)

\* A request gets to its save.
Request(p) ==
  /\ pub[p].pc = "idle"
  /\ requests < MaxRequests
  /\ requests' = requests + 1

\* A saved task has yet to reach the streams again.
Saved(t, s) ==
  /\ status' = [status EXCEPT ![t] = s]
  /\ sent' = [x \in Streams |-> sent[x] \ {t}]
  /\ dropped' = [x \in Streams |-> dropped[x] \ {t}]

\* Mutant: the hook notifies whatever the status.
SaveTaskAlwaysNotifies(p, t, s) ==
  /\ Request(p)
  /\ Saved(t, s)
  /\ pub' = [pub EXCEPT ![p] = [ pc |-> "rlock", task |-> t, status |-> s,
                                 left |-> {}, early |-> FALSE ]]
  /\ UNCHANGED <<stream, subscribers, open, chan, lock>>

\* A request saves a task; the hook of a pending one notifies.
SaveTask(p, t, s) ==
  /\ Request(p)
  /\ Saved(t, s)
  /\ pub' = [pub EXCEPT ![p] =
               IF s \in Pending
               THEN [ pc |-> "rlock", task |-> t, status |-> s, left |-> {},
                      early |-> FALSE ]
               ELSE Idle]
  /\ UNCHANGED <<stream, subscribers, open, chan, lock>>

\* handleImagesCompleted notifies before it saves.
AnnounceEarly(p, t) ==
  /\ Request(p)
  /\ pub' = [pub EXCEPT ![p] =
               [ pc |-> "rlock", task |-> t, status |-> "RECOGNITION_PENDING",
                 left |-> {}, early |-> TRUE ]]
  /\ UNCHANGED <<stream, subscribers, open, chan, lock, status, sent, dropped>>

\* Mutant: the save that follows an early notification does not notify again.
SaveAnnouncedQuietly(p) ==
  /\ pub[p].pc = "save"
  /\ Saved(pub[p].task, pub[p].status)
  /\ pub' = [pub EXCEPT ![p] = Idle]
  /\ UNCHANGED <<stream, subscribers, open, chan, lock, requests>>

SaveAnnounced(p) ==
  /\ pub[p].pc = "save"
  /\ Saved(pub[p].task, pub[p].status)
  /\ pub' = [pub EXCEPT ![p].pc = "rlock", ![p].early = FALSE]
  /\ UNCHANGED <<stream, subscribers, open, chan, lock, requests>>

\* A writer that waits keeps new readers out.
RLock(p) ==
  /\ pub[p].pc = "rlock"
  /\ writer = NoOne
  /\ readers' = readers \cup {p}
  /\ pub' = [pub EXCEPT ![p].pc = "notify", ![p].left = subscribers]
  /\ UNCHANGED <<stream, subscribers, open, chan, writer, database, sent, dropped>>

\* One round of the range loop, whose order is random: a non-blocking send.
notifySubscribers(p, s) ==
  /\ pub[p].pc = "notify"
  /\ s \in pub[p].left
  /\ pub' = [pub EXCEPT ![p].left = @ \ {s}]
  /\ \/ /\ Published[stream[s].queue] = pub[p].status
        /\ Len(chan[s]) < Capacity
        /\ chan' = [chan EXCEPT ![s] = Append(@, pub[p].task)]
        /\ UNCHANGED dropped
     \/ /\ Published[stream[s].queue] = pub[p].status
        /\ Len(chan[s]) >= Capacity
        /\ dropped' = [dropped EXCEPT ![s] = @ \cup {pub[p].task}]
        /\ UNCHANGED chan
     \/ /\ Published[stream[s].queue] # pub[p].status
        /\ UNCHANGED <<chan, dropped>>
  /\ UNCHANGED <<stream, subscribers, open, lock, database, sent>>

\* Mutant: the unlock is not deferred, and an early notification forgets it.
RUnlockForgotten(p) ==
  /\ pub[p].pc = "notify"
  /\ pub[p].left = {}
  /\ readers' = IF pub[p].early THEN readers ELSE readers \ {p}
  /\ pub' = [pub EXCEPT ![p] = IF pub[p].early THEN [pub[p] EXCEPT !.pc = "save"]
                               ELSE Idle]
  /\ UNCHANGED <<stream, subscribers, open, chan, writer, database, sent, dropped>>

RUnlock(p) ==
  /\ pub[p].pc = "notify"
  /\ pub[p].left = {}
  /\ readers' = readers \ {p}
  /\ pub' = [pub EXCEPT ![p] = IF pub[p].early THEN [pub[p] EXCEPT !.pc = "save"]
                               ELSE Idle]
  /\ UNCHANGED <<stream, subscribers, open, chan, writer, database, sent, dropped>>

-----------------------------------------------------------------------------
(* TaskService.Subscribe *)

\* mu.Lock: the stream becomes the writer that waits for the readers.
Lock(s) ==
  /\ writer = NoOne
  /\ writer' = s
  /\ UNCHANGED <<pub, subscribers, open, chan, readers, database, sent, dropped>>

StartSubscribe(s, q) ==
  /\ stream[s].pc = "new"
  /\ Lock(s)
  /\ stream' = [stream EXCEPT ![s].pc = "lock", ![s].queue = q]

\* The first query runs with the channel registered.
Subscribe(s) ==
  /\ stream[s].pc = "lock"
  /\ readers = {}
  /\ subscribers' = subscribers \cup {s}
  /\ open' = open \cup {s}
  /\ writer' = NoOne
  /\ stream' = [stream EXCEPT ![s].pc = "query"]
  /\ UNCHANGED <<pub, chan, readers, database, sent, dropped>>

Existing(q) == { t \in Tasks : status[t] = Published[q] }

\* Mutant: a worker is sent only what becomes pending after it subscribed.
QuerySkipsTasks(s) ==
  /\ stream[s].pc = "query"
  /\ stream' = [stream EXCEPT ![s].pc = "listening"]
  /\ UNCHANGED <<pub, subscribers, open, chan, lock, database, sent, dropped>>

QueryExisting(s) ==
  /\ stream[s].pc = "query"
  /\ LET existing == Existing(stream[s].queue) IN
     stream' = [stream EXCEPT ![s].pc = IF existing = {} THEN "listening" ELSE "sending",
                              ![s].list = existing]
  /\ UNCHANGED <<pub, subscribers, open, chan, lock, database, sent, dropped>>

\* stream.Send, in the order the query returned the tasks.
Send(s) ==
  /\ stream[s].pc = "sending"
  /\ \E t \in stream[s].list :
       /\ sent' = [sent EXCEPT ![s] = @ \cup {t}]
       /\ stream' = [stream EXCEPT ![s].list = @ \ {t},
                                   ![s].pc = IF stream[s].list = {t} THEN "listening"
                                             ELSE "sending"]
  /\ UNCHANGED <<pub, subscribers, open, chan, lock, database, dropped>>

Receive(s) ==
  /\ stream[s].pc = "listening"
  /\ chan[s] # << >>
  /\ stream' = [stream EXCEPT ![s].pc = "sending", ![s].list = {Head(chan[s])}]
  /\ chan' = [chan EXCEPT ![s] = Tail(@)]
  /\ UNCHANGED <<pub, subscribers, open, lock, database, sent, dropped>>

\* Mutant: a failed query returns before the deferred Unsubscribe is set up.
ReturnsAtOnce(s) ==
  /\ stream[s].pc \in { "query", "sending", "listening" }
  /\ stream' = [stream EXCEPT ![s].pc = IF stream[s].pc = "query" THEN "done" ELSE "leaving",
                              ![s].list = {}]
  /\ UNCHANGED <<pub, subscribers, open, chan, lock, database, sent, dropped>>

\* The query or a send fails, or the worker goes away: the deferred Unsubscribe
\* is next.
Returns(s) ==
  /\ stream[s].pc \in { "query", "sending", "listening" }
  /\ stream' = [stream EXCEPT ![s].pc = "leaving", ![s].list = {}]
  /\ UNCHANGED <<pub, subscribers, open, chan, lock, database, sent, dropped>>

StartUnsubscribe(s) ==
  /\ stream[s].pc = "leaving"
  /\ Lock(s)
  /\ stream' = [stream EXCEPT ![s].pc = "unlock"]

\* Mutant: Unsubscribe takes the lock for reading.
UnsubscribeShared(s) ==
  /\ stream[s].pc = "unlock"
  /\ subscribers' = subscribers \ {s}
  /\ open' = open \ {s}
  /\ writer' = NoOne
  /\ stream' = [stream EXCEPT ![s].pc = "done"]
  /\ UNCHANGED <<pub, chan, readers, database, sent, dropped>>

Unsubscribe(s) ==
  /\ stream[s].pc = "unlock"
  /\ readers = {}
  /\ subscribers' = subscribers \ {s}
  /\ open' = open \ {s}
  /\ writer' = NoOne
  /\ stream' = [stream EXCEPT ![s].pc = "done"]
  /\ UNCHANGED <<pub, chan, readers, database, sent, dropped>>

-----------------------------------------------------------------------------
Init ==
  /\ status = [t \in Tasks |-> "OTHER"]
  /\ pub = [p \in Publishers |-> Idle]
  /\ stream = [s \in Streams |-> [ pc |-> "new", queue |-> "QUEUE_IMAGE_PROCESSING",
                                   list |-> {} ]]
  /\ subscribers = {}
  /\ open = {}
  /\ chan = [s \in Streams |-> << >>]
  /\ readers = {}
  /\ writer = NoOne
  /\ requests = 0
  /\ sent = [s \in Streams |-> {}]
  /\ dropped = [s \in Streams |-> {}]

Publish(p) ==
  \/ SaveAnnounced(p)
  \/ RLock(p)
  \/ \E s \in Streams : notifySubscribers(p, s)
  \/ RUnlock(p)

\* What a stream does without its worker.
Serve(s) ==
  \/ Subscribe(s)
  \/ QueryExisting(s)
  \/ StartUnsubscribe(s)
  \/ Unsubscribe(s)

Next ==
  \/ \E p \in Publishers :
       \/ \E t \in Tasks : AnnounceEarly(p, t) \/ \E s \in Statuses : SaveTask(p, t, s)
       \/ Publish(p)
  \/ \E s \in Streams :
       \/ \E q \in Queues : StartSubscribe(s, q)
       \/ Serve(s)
       \/ Send(s)
       \/ Receive(s)
       \/ Returns(s)

Spec == Init /\ [][Next]_vars

\* Goroutines make progress; nothing is assumed of the workers, which may
\* never take what is sent to them.
FairSpec ==
  /\ Spec
  /\ \A p \in Publishers : WF_vars(Publish(p))
  /\ \A s \in Streams : WF_vars(Serve(s))

-----------------------------------------------------------------------------
(* Properties *)

\* Goroutines are where their code can be and hold what it can hold.
TypeOK ==
  /\ status \in [Tasks -> Statuses]
  /\ pub \in [Publishers -> Publisher \cup {Idle}]
  /\ stream \in [Streams -> Stream]
  /\ subscribers \subseteq Streams
  /\ open \subseteq Streams
  /\ chan \in [Streams -> Seq(Tasks)]
  /\ readers \subseteq Publishers
  /\ writer \in Streams \cup {NoOne}
  /\ requests \in Nat
  /\ sent \in [Streams -> SUBSET Tasks]
  /\ dropped \in [Streams -> SUBSET Tasks]

\* notifySubscribers never sends on a channel that Unsubscribe has closed,
\* which would panic: no stream closes its channel under a range loop.
SendsOnOpen ==
  \A p \in Publishers : pub[p].pc = "notify" => pub[p].left \subseteq open

\* Streams that end, however they end, leave no entry in the map.
SubscribersServed ==
  \A s \in subscribers : stream[s].pc \notin { "new", "lock", "done" }

Wants(s, t) == status[t] = Published[stream[s].queue]
Serving(s) == stream[s].pc \in { "sending", "listening" }

\* A publisher still has to notify the stream of the task.
Coming(p, s, t) ==
  /\ pub[p].pc \in { "rlock", "notify" }
  /\ pub[p].task = t
  /\ pub[p].status = status[t]
  /\ pub[p].pc = "notify" => s \in pub[p].left

\* No pending task falls between the first query of a stream and its channel: a
\* worker has been sent it, or it is on its way, or the full channel missed it.
NoneMissed ==
  \A s \in Streams, t \in Tasks : Serving(s) /\ Wants(s, t) =>
    \/ t \in sent[s] \cup dropped[s] \cup stream[s].list \cup In(chan[s])
    \/ \E p \in Publishers : Coming(p, s, t)

\* A worker that does not take its tasks holds up no request: every notification
\* ends, whatever the streams do.
NotifyEnds == \A p \in Publishers : []<>(pub[p].pc = "idle")

\* A stream whose worker is gone gets the lock and leaves the map: it does not stay
\* in its deferred Unsubscribe.
StreamsLeave == \A s \in Streams : []<>(stream[s].pc \notin { "leaving", "unlock" })

\* Neither waits for ever for the other, nor for a worker that stopped receiving.
NobodyWaits == NotifyEnds /\ StreamsLeave

\* The worker of a stream takes what is sent to it.
Works(s) == WF_vars(Send(s)) /\ WF_vars(Receive(s))

\* A worker that takes what is sent gets every pending task of its queue, unless
\* the task is saved otherwise first or its channel was full.
PendingDelivered ==
  \A s \in Streams, t \in Tasks :
    Works(s) =>
      []<>(Serving(s) /\ Wants(s, t) => t \in sent[s] \cup dropped[s])
=============================================================================
