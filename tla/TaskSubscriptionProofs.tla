----------------------- MODULE TaskSubscriptionProofs -----------------------
(* Proofs about TaskSubscription, for all values of its constants: any       *)
(* number of tasks, publishers and streams, any capacity of the channels.    *)
EXTENDS TaskSubscription, TLAPS

Registered == { "query", "sending", "listening", "leaving", "unlock" }

\* The lock at work: a stream is in the map exactly while its code says so, its
\* channel is open exactly as long, and a publisher that ranges over the map
\* holds the lock and visits entries that are still there.
Locking ==
  /\ \A s \in Streams : s \in subscribers <=> stream[s].pc \in Registered
  /\ open = subscribers
  /\ \A p \in Publishers : pub[p].pc = "notify" => p \in readers
  /\ \A p \in Publishers : pub[p].pc = "notify" => pub[p].left \subseteq subscribers

\* A stream that waits for its channel has sent what it took before.
ListenersDone == \A s \in Streams : stream[s].pc = "listening" => stream[s].list = {}

\* The inductive invariant.
IInv == TypeOK /\ Locking /\ ListenersDone /\ NoneMissed

-----------------------------------------------------------------------------
(* Sequences as sets *)

\* A queue that grows holds what it held and the new element.
LEMMA InAppend ==
  ASSUME NEW q \in Seq(Tasks), NEW x \in Tasks
  PROVE  /\ Append(q, x) \in Seq(Tasks)
         /\ In(Append(q, x)) = In(q) \cup {x}
  <1>1. Append(q, x) \in Seq(Tasks) /\ Len(Append(q, x)) = Len(q) + 1
    OBVIOUS
  <1>2. \A i \in 1 .. Len(q) : Append(q, x)[i] = q[i]
    OBVIOUS
  <1>3. Append(q, x)[Len(q) + 1] = x
    OBVIOUS
  <1>4. Len(q) \in Nat
    OBVIOUS
  <1>5. 1 .. Len(q) + 1 = (1 .. Len(q)) \cup {Len(q) + 1}
    BY <1>4
  <1> QED BY <1>1, <1>2, <1>3, <1>5 DEF In

\* Taking the head of a queue loses nothing but the head.
LEMMA InTail ==
  ASSUME NEW q \in Seq(Tasks), q # << >>
  PROVE  /\ Head(q) \in Tasks
         /\ Tail(q) \in Seq(Tasks)
         /\ In(q) = In(Tail(q)) \cup {Head(q)}
  <1>1. Head(q) \in Tasks /\ Tail(q) \in Seq(Tasks) /\ Head(q) = q[1]
    OBVIOUS
  <1>2. Len(q) \in Nat /\ Len(q) > 0 /\ Len(Tail(q)) = Len(q) - 1
    OBVIOUS
  <1>3. \A i \in 1 .. Len(q) - 1 : Tail(q)[i] = q[i + 1]
    OBVIOUS
  <1>4. \A i \in 1 .. Len(q) : i = 1 \/ (i - 1 \in 1 .. Len(q) - 1 /\ (i - 1) + 1 = i)
    BY <1>2
  <1>5. In(q) \subseteq In(Tail(q)) \cup {Head(q)}
    <2> SUFFICES ASSUME NEW i \in 1 .. Len(q)
                 PROVE  q[i] \in In(Tail(q)) \cup {Head(q)}
      BY DEF In
    <2>1. CASE i = 1 BY <2>1, <1>1
    <2>2. CASE i # 1
      <3>1. i - 1 \in 1 .. Len(Tail(q)) /\ Tail(q)[i - 1] = q[i]
        BY <2>2, <1>2, <1>3, <1>4
      <3> QED BY <3>1 DEF In
    <2> QED BY <2>1, <2>2
  <1>6. In(Tail(q)) \subseteq In(q)
    <2> SUFFICES ASSUME NEW i \in 1 .. Len(Tail(q))
                 PROVE  Tail(q)[i] \in In(q)
      BY DEF In
    <2>1. i + 1 \in 1 .. Len(q) /\ Tail(q)[i] = q[i + 1] BY <1>2, <1>3
    <2> QED BY <2>1 DEF In
  <1>7. Head(q) \in In(q)
    <2>1. 1 \in 1 .. Len(q) BY <1>2
    <2> QED BY <2>1, <1>1 DEF In
  <1> QED BY <1>1, <1>5, <1>6, <1>7

-----------------------------------------------------------------------------
(* Types *)

\* A goroutine in a notification has every field of Publisher.
LEMMA Busy ==
  ASSUME TypeOK, NEW p \in Publishers, pub[p].pc # "idle"
  PROVE  pub[p] \in Publisher
  BY DEF TypeOK, Idle

\* The steps of publishers keep the types.
LEMMA PublisherTypes ==
  ASSUME TypeOK, NEW p \in Publishers,
         \/ \E t \in Tasks : AnnounceEarly(p, t) \/ \E s \in Statuses : SaveTask(p, t, s)
         \/ Publish(p)
  PROVE  TypeOK'
  <1>1. ASSUME NEW t \in Tasks, AnnounceEarly(p, t) PROVE TypeOK'
    BY <1>1, SubscriptionAssumption DEF AnnounceEarly, Request, TypeOK, Publisher, Pending, lock
  <1>2. ASSUME NEW t \in Tasks, NEW s \in Statuses, SaveTask(p, t, s) PROVE TypeOK'
    BY <1>2 DEF SaveTask, Request, Saved, TypeOK, Publisher, Idle, Pending, lock
  <1>3. CASE SaveAnnounced(p)
    <2>1. pub[p] \in Publisher BY <1>3, Busy DEF SaveAnnounced
    <2>2. pub[p].task \in Tasks /\ pub[p].status \in Statuses
      BY <2>1 DEF Publisher, Statuses
    <2>3. [pub[p] EXCEPT !.pc = "rlock", !.early = FALSE] \in Publisher
      BY <2>1 DEF Publisher
    <2>4. pub' \in [Publishers -> Publisher \cup {Idle}]
      BY <1>3, <2>3 DEF SaveAnnounced, TypeOK
    <2> QED BY <1>3, <2>2, <2>4 DEF SaveAnnounced, Saved, TypeOK, lock
  <1>4. CASE RLock(p)
    <2>1. pub[p] \in Publisher BY <1>4, Busy DEF RLock
    <2>2. [pub[p] EXCEPT !.pc = "notify", !.left = subscribers] \in Publisher
      BY <2>1 DEF Publisher, TypeOK
    <2>3. pub' \in [Publishers -> Publisher \cup {Idle}]
      BY <1>4, <2>2 DEF RLock, TypeOK
    <2> QED BY <1>4, <2>3 DEF RLock, TypeOK, database
  <1>5. ASSUME NEW s \in Streams, notifySubscribers(p, s) PROVE TypeOK'
    <2>1. pub[p] \in Publisher BY <1>5, Busy DEF notifySubscribers
    <2>2. [pub[p] EXCEPT !.left = @ \ {s}] \in Publisher
      BY <2>1 DEF Publisher
    <2>3. pub' \in [Publishers -> Publisher \cup {Idle}]
      BY <1>5, <2>2 DEF notifySubscribers, TypeOK
    <2>4. pub[p].task \in Tasks BY <2>1 DEF Publisher
    <2>5. chan' \in [Streams -> Seq(Tasks)]
      <3>1. Append(chan[s], pub[p].task) \in Seq(Tasks)
        BY <2>4, InAppend DEF TypeOK
      <3>2. \/ chan' = [chan EXCEPT ![s] = Append(@, pub[p].task)]
            \/ chan' = chan
        BY <1>5 DEF notifySubscribers
      <3> QED BY <3>1, <3>2 DEF TypeOK
    <2>6. dropped' \in [Streams -> SUBSET Tasks]
      BY <1>5, <2>4 DEF notifySubscribers, TypeOK
    <2> QED BY <1>5, <2>3, <2>5, <2>6 DEF notifySubscribers, TypeOK, lock, database
  <1>6. CASE RUnlock(p)
    <2>1. pub[p] \in Publisher BY <1>6, Busy DEF RUnlock
    <2>2. [pub[p] EXCEPT !.pc = "save"] \in Publisher BY <2>1 DEF Publisher
    <2>3. pub' \in [Publishers -> Publisher \cup {Idle}]
      BY <1>6, <2>2 DEF RUnlock, TypeOK
    <2> QED BY <1>6, <2>3 DEF RUnlock, TypeOK, database
  <1> QED BY <1>1, <1>2, <1>3, <1>4, <1>5, <1>6 DEF Publish

\* The steps of streams keep the types.
LEMMA StreamTypes ==
  ASSUME TypeOK, NEW s \in Streams,
         \/ \E q \in Queues : StartSubscribe(s, q)
         \/ Serve(s) \/ Send(s) \/ Receive(s) \/ Returns(s)
  PROVE  TypeOK'
  <1> USE DEF TypeOK, Lock, lock, database
  <1>0. stream[s] \in Stream OBVIOUS
  <1>1. ASSUME NEW q \in Queues, StartSubscribe(s, q) PROVE TypeOK'
    <2>1. [stream[s] EXCEPT !.pc = "lock", !.queue = q] \in Stream
      BY <1>0 DEF Stream
    <2>2. stream' \in [Streams -> Stream] BY <1>1, <2>1 DEF StartSubscribe
    <2> QED BY <1>1, <2>2 DEF StartSubscribe
  <1>2. CASE Subscribe(s)
    <2>1. [stream[s] EXCEPT !.pc = "query"] \in Stream BY <1>0 DEF Stream
    <2>2. stream' \in [Streams -> Stream] BY <1>2, <2>1 DEF Subscribe
    <2> QED BY <1>2, <2>2 DEF Subscribe
  <1>3. CASE QueryExisting(s)
    <2> DEFINE existing == Existing(stream[s].queue)
    <2>1. existing \subseteq Tasks BY DEF Existing
    <2>2. stream' = [stream EXCEPT ![s] =
                       [@ EXCEPT !.pc = IF existing = {} THEN "listening" ELSE "sending",
                                 !.list = existing]]
      BY <1>3 DEF QueryExisting
    <2> HIDE DEF existing
    <2>3. [stream[s] EXCEPT !.pc = IF existing = {} THEN "listening" ELSE "sending",
                            !.list = existing] \in Stream
      BY <1>0, <2>1 DEF Stream
    <2>4. stream' \in [Streams -> Stream] BY <2>2, <2>3
    <2> QED BY <1>3, <2>4 DEF QueryExisting
  <1>4. CASE Send(s)
    <2>1. PICK t \in stream[s].list :
            /\ sent' = [sent EXCEPT ![s] = @ \cup {t}]
            /\ stream' = [stream EXCEPT ![s].list = @ \ {t},
                                        ![s].pc = IF stream[s].list = {t} THEN "listening"
                                                  ELSE "sending"]
      BY <1>4 DEF Send
    <2>2. t \in Tasks BY <1>0 DEF Stream
    <2> DEFINE next == IF stream[s].list = {t} THEN "listening" ELSE "sending"
    <2>3. next \in { "listening", "sending" } OBVIOUS
    <2> HIDE DEF next
    <2>5. [stream[s] EXCEPT !.list = @ \ {t}, !.pc = next] \in Stream
      <3>1. stream[s].queue \in Queues /\ stream[s].list \subseteq Tasks
        BY <1>0 DEF Stream
      <3>2. stream[s].list \ {t} \subseteq Tasks
        BY <3>1
      <3>3. ASSUME NEW x \in Stream, NEW list \in SUBSET Tasks
            PROVE  [x EXCEPT !.list = list, !.pc = next] \in Stream
        BY <2>3 DEF Stream
      <3>4. [stream[s] EXCEPT !.list = stream[s].list \ {t}, !.pc = next] \in Stream
        BY <1>0, <3>2, <3>3
      <3> QED BY <3>4
    <2>4. stream' \in [Streams -> Stream] BY <2>1, <2>5 DEF next
    <2> QED BY <1>4, <2>1, <2>2, <2>4 DEF Send
  <1>5. CASE Receive(s)
    <2>1. chan[s] \in Seq(Tasks) /\ chan[s] # << >> BY <1>5 DEF Receive
    <2>2. Head(chan[s]) \in Tasks /\ Tail(chan[s]) \in Seq(Tasks) BY <2>1, InTail
    <2>3. [stream[s] EXCEPT !.pc = "sending", !.list = {Head(chan[s])}] \in Stream
      BY <1>0, <2>2 DEF Stream
    <2>4. stream' \in [Streams -> Stream] BY <1>5, <2>3 DEF Receive
    <2>5. chan' \in [Streams -> Seq(Tasks)] BY <1>5, <2>2 DEF Receive
    <2> QED BY <1>5, <2>4, <2>5 DEF Receive
  <1>6. CASE Returns(s)
    <2>1. [stream[s] EXCEPT !.pc = "leaving", !.list = {}] \in Stream BY <1>0 DEF Stream
    <2>2. stream' \in [Streams -> Stream] BY <1>6, <2>1 DEF Returns
    <2> QED BY <1>6, <2>2 DEF Returns
  <1>7. CASE StartUnsubscribe(s)
    <2>1. [stream[s] EXCEPT !.pc = "unlock"] \in Stream BY <1>0 DEF Stream
    <2>2. stream' \in [Streams -> Stream] BY <1>7, <2>1 DEF StartUnsubscribe
    <2> QED BY <1>7, <2>2 DEF StartUnsubscribe
  <1>8. CASE Unsubscribe(s)
    <2>1. [stream[s] EXCEPT !.pc = "done"] \in Stream BY <1>0 DEF Stream
    <2>2. stream' \in [Streams -> Stream] BY <1>8, <2>1 DEF Unsubscribe
    <2> QED BY <1>8, <2>2 DEF Unsubscribe
  <1> QED BY <1>1, <1>2, <1>3, <1>4, <1>5, <1>6, <1>7, <1>8 DEF Serve

\* TypeOK is inductive by itself.
LEMMA TypeStep == TypeOK /\ [Next]_vars => TypeOK'
  <1> SUFFICES ASSUME TypeOK, [Next]_vars PROVE TypeOK'
    OBVIOUS
  <1>1. CASE Next BY <1>1, PublisherTypes, StreamTypes DEF Next
  <1>2. CASE UNCHANGED vars
    BY <1>2 DEF TypeOK, vars
  <1> QED BY <1>1, <1>2

-----------------------------------------------------------------------------
(* The lock *)

\* The steps of publishers keep the lock's invariant.
LEMMA PublisherLocking ==
  ASSUME TypeOK, Locking, NEW p \in Publishers,
         \/ \E t \in Tasks : AnnounceEarly(p, t) \/ \E s \in Statuses : SaveTask(p, t, s)
         \/ Publish(p)
  PROVE  Locking'
  <1>1. ASSUME NEW t \in Tasks, AnnounceEarly(p, t) PROVE Locking'
    BY <1>1 DEF AnnounceEarly, TypeOK, Locking, lock
  <1>2. ASSUME NEW t \in Tasks, NEW s \in Statuses, SaveTask(p, t, s) PROVE Locking'
    BY <1>2 DEF SaveTask, TypeOK, Locking, Idle, lock
  <1>3. CASE SaveAnnounced(p)
    <2>1. pub'[p].pc = "rlock" /\ \A o \in Publishers \ {p} : pub'[o] = pub[o]
      <3>1. pub[p] \in Publisher BY <1>3, Busy DEF SaveAnnounced
      <3> QED BY <1>3, <3>1 DEF SaveAnnounced, TypeOK, Publisher
    <2> QED BY <1>3, <2>1 DEF SaveAnnounced, Locking, lock
  <1>4. CASE RLock(p)
    <2>1. /\ pub'[p].pc = "notify" /\ pub'[p].left = subscribers
          /\ \A o \in Publishers \ {p} : pub'[o] = pub[o]
      <3>1. pub[p] \in Publisher BY <1>4, Busy DEF RLock
      <3> QED BY <1>4, <3>1 DEF RLock, TypeOK, Publisher
    <2> QED BY <1>4, <2>1 DEF RLock, Locking
  <1>5. ASSUME NEW s \in Streams, notifySubscribers(p, s) PROVE Locking'
    <2>1. /\ pub'[p].pc = "notify" /\ pub'[p].left \subseteq pub[p].left
          /\ \A o \in Publishers \ {p} : pub'[o] = pub[o]
      <3>1. pub[p] \in Publisher BY <1>5, Busy DEF notifySubscribers
      <3> QED BY <1>5, <3>1 DEF notifySubscribers, TypeOK, Publisher
    <2> QED BY <1>5, <2>1 DEF notifySubscribers, Locking, lock
  <1>6. CASE RUnlock(p)
    <2>1. pub'[p].pc # "notify" /\ \A o \in Publishers \ {p} : pub'[o] = pub[o]
      <3>1. pub[p] \in Publisher BY <1>6, Busy DEF RUnlock
      <3> QED BY <1>6, <3>1 DEF RUnlock, TypeOK, Publisher, Idle
    <2> QED BY <1>6, <2>1 DEF RUnlock, Locking
  <1> QED BY <1>1, <1>2, <1>3, <1>4, <1>5, <1>6 DEF Publish

\* The steps of streams keep the lock's invariant; in Unsubscribe no publisher
\* reads.
LEMMA StreamLocking ==
  ASSUME TypeOK, Locking, NEW s \in Streams,
         \/ \E q \in Queues : StartSubscribe(s, q)
         \/ Serve(s) \/ Send(s) \/ Receive(s) \/ Returns(s)
  PROVE  Locking'
  <1>0. stream \in [Streams -> Stream] /\ stream[s] \in Stream BY DEF TypeOK
  <1> DEFINE Others == \A x \in Streams \ {s} : stream'[x] = stream[x]
  <1>1. ASSUME NEW q \in Queues, StartSubscribe(s, q) PROVE Locking'
    <2>1. stream'[s].pc = "lock" /\ Others
      BY <1>0, <1>1 DEF StartSubscribe, Stream
    <2> QED BY <1>1, <2>1 DEF StartSubscribe, Lock, Locking, Registered
  <1>2. CASE Subscribe(s)
    <2>1. stream'[s].pc = "query" /\ Others BY <1>0, <1>2 DEF Subscribe, Stream
    <2> QED BY <1>2, <2>1 DEF Subscribe, Locking, Registered
  <1>3. CASE QueryExisting(s)
    <2>1. stream'[s].pc \in { "listening", "sending" } /\ Others
      BY <1>0, <1>3 DEF QueryExisting, Stream
    <2> QED BY <1>3, <2>1 DEF QueryExisting, Locking, Registered, lock
  <1>4. CASE Send(s)
    <2>1. stream'[s].pc \in { "listening", "sending" } /\ Others
      <3>1. PICK t \in stream[s].list :
              stream' = [stream EXCEPT ![s].list = @ \ {t},
                                       ![s].pc = IF stream[s].list = {t} THEN "listening"
                                                 ELSE "sending"]
        BY <1>4 DEF Send
      <3> QED BY <1>0, <3>1 DEF Stream
    <2> QED BY <1>4, <2>1 DEF Send, Locking, Registered, lock
  <1>5. CASE Receive(s)
    <2>1. stream'[s].pc = "sending" /\ Others BY <1>0, <1>5 DEF Receive, Stream
    <2> QED BY <1>5, <2>1 DEF Receive, Locking, Registered, lock
  <1>6. CASE Returns(s)
    <2>1. stream'[s].pc = "leaving" /\ Others BY <1>0, <1>6 DEF Returns, Stream
    <2> QED BY <1>6, <2>1 DEF Returns, Locking, Registered, lock
  <1>7. CASE StartUnsubscribe(s)
    <2>1. stream'[s].pc = "unlock" /\ Others BY <1>0, <1>7 DEF StartUnsubscribe, Stream
    <2> QED BY <1>7, <2>1 DEF StartUnsubscribe, Lock, Locking, Registered
  <1>8. CASE Unsubscribe(s)
    <2>1. stream'[s].pc = "done" /\ Others BY <1>0, <1>8 DEF Unsubscribe, Stream
    <2>2. \A p \in Publishers : pub[p].pc # "notify" BY <1>8 DEF Unsubscribe, Locking
    <2> QED BY <1>8, <2>1, <2>2 DEF Unsubscribe, Locking, Registered
  <1> QED BY <1>1, <1>2, <1>3, <1>4, <1>5, <1>6, <1>7, <1>8 DEF Serve

\* Every step keeps the lock's invariant.
LEMMA LockingStep == TypeOK /\ Locking /\ [Next]_vars => Locking'
  <1> SUFFICES ASSUME TypeOK, Locking, [Next]_vars PROVE Locking'
    OBVIOUS
  <1>1. CASE Next BY <1>1, PublisherLocking, StreamLocking DEF Next
  <1>2. CASE UNCHANGED vars BY <1>2 DEF Locking, vars
  <1> QED BY <1>1, <1>2

\* A stream listens only when its list is empty.
LEMMA ListenersStep == TypeOK /\ ListenersDone /\ [Next]_vars => ListenersDone'
  <1> SUFFICES ASSUME TypeOK, ListenersDone, [Next]_vars PROVE ListenersDone'
    OBVIOUS
  <1>0. stream \in [Streams -> Stream] BY DEF TypeOK
  <1>1. CASE stream' = stream BY <1>1 DEF ListenersDone
  <1>2. ASSUME NEW s \in Streams,
               \/ \E q \in Queues : StartSubscribe(s, q)
               \/ Serve(s) \/ Send(s) \/ Receive(s) \/ Returns(s)
        PROVE  ListenersDone'
    <2> SUFFICES /\ \A x \in Streams \ {s} : stream'[x] = stream[x]
                 /\ stream'[s].pc = "listening" => stream'[s].list = {}
      BY DEF ListenersDone
    <2>0. stream[s] \in Stream BY <1>0
    <2>1. CASE \E q \in Queues : StartSubscribe(s, q)
      BY <1>0, <2>0, <2>1 DEF StartSubscribe, Stream
    <2>2. CASE Serve(s)
      BY <1>0, <2>0, <2>2 DEF Serve, Subscribe, QueryExisting, StartUnsubscribe,
                             Unsubscribe, Stream
    <2>3. CASE Send(s) BY <1>0, <2>0, <2>3 DEF Send, Stream
    <2>4. CASE Receive(s) BY <1>0, <2>0, <2>4 DEF Receive, Stream
    <2>5. CASE Returns(s) BY <1>0, <2>0, <2>5 DEF Returns, Stream
    <2> QED BY <1>2, <2>1, <2>2, <2>3, <2>4, <2>5
  <1>3. ASSUME NEW p \in Publishers,
               \/ \E t \in Tasks : AnnounceEarly(p, t) \/ \E s \in Statuses : SaveTask(p, t, s)
               \/ Publish(p)
        PROVE  stream' = stream
    BY <1>3 DEF AnnounceEarly, SaveTask, Publish, SaveAnnounced, RLock,
               notifySubscribers, RUnlock
  <1> QED BY <1>1, <1>2, <1>3 DEF Next, vars

-----------------------------------------------------------------------------
(* No task is missed *)

\* Where a pending task is, for one stream and one task.
Reached(s, t) ==
  \/ t \in sent[s] \cup dropped[s] \cup stream[s].list \cup In(chan[s])
  \/ \E p \in Publishers : Coming(p, s, t)

\* The steps of publishers lose no task.
LEMMA PublisherMissed ==
  ASSUME TypeOK, Locking, NoneMissed, NEW p \in Publishers,
         \/ \E t \in Tasks : AnnounceEarly(p, t) \/ \E s \in Statuses : SaveTask(p, t, s)
         \/ Publish(p),
         NEW s \in Streams, NEW t \in Tasks, Serving(s)', Wants(s, t)'
  PROVE  Reached(s, t)'
  <1>0. stream' = stream /\ stream[s].queue \in Queues
    BY DEF AnnounceEarly, SaveTask, Publish, SaveAnnounced, RLock,
           notifySubscribers, RUnlock, TypeOK, Stream
  <1>1. Serving(s) BY <1>0 DEF Serving
  <1>2. Published[stream[s].queue] \in Pending
    BY <1>0 DEF Queues, Published, Pending
  <1>3. ASSUME status'[t] = status[t] PROVE Reached(s, t)
    BY <1>0, <1>1, <1>3 DEF Wants, NoneMissed, Reached
  \* Publishers other than p go on as they were.
  <1>4. ASSUME status'[t] = status[t], NEW o \in Publishers, Coming(o, s, t), pub'[o] = pub[o]
        PROVE  Reached(s, t)'
    BY <1>4 DEF Coming, Reached
  <1>5. ASSUME NEW u \in Tasks, AnnounceEarly(p, u) PROVE Reached(s, t)'
    <2>1. status' = status /\ sent' = sent /\ dropped' = dropped /\ chan' = chan
      BY <1>5 DEF AnnounceEarly
    <2>2. \A o \in Publishers : Coming(o, s, t) => pub'[o] = pub[o]
      BY <1>5 DEF AnnounceEarly, Request, Coming, TypeOK
    <2> QED BY <1>0, <1>3, <1>4, <2>1, <2>2 DEF Reached
  <1>6. ASSUME NEW u \in Tasks, NEW v \in Statuses, SaveTask(p, u, v) PROVE Reached(s, t)'
    <2>1. CASE t = u
      <3>1. status'[t] = v BY <1>6, <2>1 DEF SaveTask, Saved, TypeOK
      <3>2. v \in Pending BY <3>1, <1>0, <1>2 DEF Wants
      <3>3. pub'[p] = [ pc |-> "rlock", task |-> u, status |-> v, left |-> {},
                       early |-> FALSE ]
        BY <1>6, <3>2 DEF SaveTask, TypeOK
      <3>4. Coming(p, s, t)' BY <2>1, <3>1, <3>3 DEF Coming
      <3> QED BY <3>4 DEF Reached
    <2>2. CASE t # u
      <3>1. /\ status'[t] = status[t]
            /\ chan' = chan
            /\ t \in sent[s] => t \in sent'[s]
            /\ t \in dropped[s] => t \in dropped'[s]
        BY <1>6, <2>2 DEF SaveTask, Saved, TypeOK
      <3>2. \A o \in Publishers : Coming(o, s, t) => pub'[o] = pub[o]
        BY <1>6 DEF SaveTask, Request, Coming, TypeOK
      <3> QED BY <1>0, <1>3, <1>4, <3>1, <3>2 DEF Reached
    <2> QED BY <2>1, <2>2
  <1>7. CASE SaveAnnounced(p)
    <2>0. pub[p] \in Publisher BY <1>7, Busy DEF SaveAnnounced
    <2>1. CASE t = pub[p].task
      <3>1. status'[t] = pub[p].status BY <1>7, <2>1 DEF SaveAnnounced, Saved, TypeOK
      <3>2. /\ pub'[p].pc = "rlock"
            /\ pub'[p].task = pub[p].task
            /\ pub'[p].status = pub[p].status
        BY <1>7, <2>0 DEF SaveAnnounced, TypeOK, Publisher
      <3>3. Coming(p, s, t)' BY <2>1, <3>1, <3>2 DEF Coming
      <3> QED BY <3>3 DEF Reached
    <2>2. CASE t # pub[p].task
      <3>1. /\ status'[t] = status[t]
            /\ chan' = chan
            /\ t \in sent[s] => t \in sent'[s]
            /\ t \in dropped[s] => t \in dropped'[s]
        BY <1>7, <2>2 DEF SaveAnnounced, Saved, TypeOK
      <3>2. \A o \in Publishers : Coming(o, s, t) => pub'[o] = pub[o]
        BY <1>7 DEF SaveAnnounced, Coming, TypeOK
      <3> QED BY <1>0, <1>3, <1>4, <3>1, <3>2 DEF Reached
    <2> QED BY <2>1, <2>2
  <1>8. CASE RLock(p)
    <2>0. pub[p] \in Publisher BY <1>8, Busy DEF RLock
    <2>1. status' = status /\ sent' = sent /\ dropped' = dropped /\ chan' = chan
      BY <1>8 DEF RLock, database
    <2>2. s \in subscribers BY <1>1 DEF Serving, Locking, Registered
    <2>3. /\ pub'[p].task = pub[p].task
          /\ pub'[p].status = pub[p].status
          /\ pub'[p].pc = "notify"
          /\ pub'[p].left = subscribers
          /\ \A o \in Publishers \ {p} : pub'[o] = pub[o]
      BY <1>8, <2>0 DEF RLock, TypeOK, Publisher
    <2>4. Coming(p, s, t) => Coming(p, s, t)'
      BY <2>1, <2>2, <2>3 DEF Coming
    <2> QED BY <1>0, <1>3, <1>4, <2>1, <2>3, <2>4 DEF Reached
  <1>9. ASSUME NEW x \in Streams, notifySubscribers(p, x) PROVE Reached(s, t)'
    <2>0. pub[p] \in Publisher BY <1>9, Busy DEF notifySubscribers
    <2>1. /\ status' = status /\ sent' = sent
          /\ \A o \in Publishers \ {p} : pub'[o] = pub[o]
      BY <1>9 DEF notifySubscribers, database, TypeOK
    <2>2. /\ pub'[p].task = pub[p].task
          /\ pub'[p].status = pub[p].status
          /\ pub'[p].pc = "notify" /\ pub[p].pc = "notify"
          /\ pub'[p].left = pub[p].left \ {x}
      BY <1>9, <2>0 DEF notifySubscribers, TypeOK, Publisher
    <2>3. pub[p].task \in Tasks /\ chan[x] \in Seq(Tasks) BY <2>0 DEF Publisher, TypeOK
    <2>4. In(Append(chan[x], pub[p].task)) = In(chan[x]) \cup {pub[p].task}
      BY <2>3, InAppend
    <2>5. \/ chan' = [chan EXCEPT ![x] = Append(@, pub[p].task)]
          \/ chan' = chan
      BY <1>9 DEF notifySubscribers
    <2>6. In(chan[s]) \subseteq In(chan'[s])
      <3>1. CASE chan' = chan BY <3>1
      <3>2. CASE x # s /\ chan' = [chan EXCEPT ![x] = Append(@, pub[p].task)]
        <4>1. chan'[s] = chan[s] BY <3>2 DEF TypeOK
        <4> QED BY <4>1
      <3>3. CASE x = s /\ chan' = [chan EXCEPT ![x] = Append(@, pub[p].task)]
        <4>1. chan'[s] = Append(chan[x], pub[p].task) BY <3>3 DEF TypeOK
        <4> QED BY <4>1, <3>3, <2>4
      <3> QED BY <2>5, <3>1, <3>2, <3>3
    <2>7. t \in dropped[s] => t \in dropped'[s]
      BY <1>9 DEF notifySubscribers, TypeOK
    <2>8. CASE ~ Coming(p, s, t)
      BY <1>0, <1>3, <1>4, <2>1, <2>6, <2>7, <2>8 DEF Reached
    <2>9. CASE Coming(p, s, t) /\ x # s
      <3>1. Coming(p, s, t)' BY <2>1, <2>2, <2>9 DEF Coming
      <3> QED BY <3>1 DEF Reached
    <2>10. CASE Coming(p, s, t) /\ x = s
      <3>1. pub[p].task = t /\ Published[stream[x].queue] = pub[p].status
        BY <1>0, <2>1, <2>10 DEF Coming, Wants
      <3>2. CASE Len(chan[x]) < Capacity
        <4>1. chan' = [chan EXCEPT ![x] = Append(@, pub[p].task)]
          BY <1>9, <3>1, <3>2, <2>3, SubscriptionAssumption DEF notifySubscribers
        <4>2. chan'[s] = Append(chan[x], pub[p].task) BY <4>1, <2>10 DEF TypeOK
        <4>3. t \in In(chan'[s]) BY <4>2, <2>4, <3>1
        <4> QED BY <4>3 DEF Reached
      <3>3. CASE ~ (Len(chan[x]) < Capacity)
        <4>1. dropped' = [dropped EXCEPT ![x] = @ \cup {pub[p].task}]
          BY <1>9, <3>1, <3>3 DEF notifySubscribers
        <4>2. t \in dropped'[s] BY <4>1, <3>1, <2>10 DEF TypeOK
        <4> QED BY <4>2 DEF Reached
      <3> QED BY <3>2, <3>3
    <2> QED BY <2>8, <2>9, <2>10
  <1>10. CASE RUnlock(p)
    <2>1. status' = status /\ sent' = sent /\ dropped' = dropped /\ chan' = chan
      BY <1>10 DEF RUnlock, database
    <2>2. \A o \in Publishers : Coming(o, s, t) => pub'[o] = pub[o]
      BY <1>10 DEF RUnlock, Coming, TypeOK
    <2> QED BY <1>0, <1>3, <1>4, <2>1, <2>2 DEF Reached
  <1> QED BY <1>5, <1>6, <1>7, <1>8, <1>9, <1>10 DEF Publish

\* The steps of streams lose no task: the query takes every task that is
\* pending, and what is received is in the list until it is sent.
LEMMA StreamMissed ==
  ASSUME TypeOK, ListenersDone, NoneMissed, NEW x \in Streams,
         \/ \E q \in Queues : StartSubscribe(x, q)
         \/ Serve(x) \/ Send(x) \/ Receive(x) \/ Returns(x),
         NEW s \in Streams, NEW t \in Tasks, Serving(s)', Wants(s, t)'
  PROVE  Reached(s, t)'
  <1>0. /\ stream \in [Streams -> Stream] /\ stream[x] \in Stream
        /\ pub' = pub /\ status' = status /\ dropped' = dropped
    BY DEF TypeOK, StartSubscribe, Lock, Serve, Subscribe, QueryExisting,
           StartUnsubscribe, Unsubscribe, Send, Receive, Returns, lock, database
  <1>1. (\E p \in Publishers : Coming(p, s, t)) => (\E p \in Publishers : Coming(p, s, t))'
    BY <1>0 DEF Coming
  <1>2. CASE s # x
    <2>1. stream'[s] = stream[s] /\ sent'[s] = sent[s] /\ chan'[s] = chan[s]
      BY <1>0, <1>2 DEF TypeOK, StartSubscribe, Lock, Serve, Subscribe, QueryExisting,
           StartUnsubscribe, Unsubscribe, Send, Receive, Returns, lock
    <2>2. Serving(s) /\ Wants(s, t) BY <1>0, <2>1 DEF Serving, Wants
    <2> QED BY <1>0, <1>1, <2>1, <2>2 DEF NoneMissed, Reached
  <1>3. CASE s = x /\ (\E q \in Queues : StartSubscribe(x, q))
    BY <1>0, <1>3 DEF StartSubscribe, Stream, Serving
  <1>4. CASE s = x /\ (Subscribe(x) \/ StartUnsubscribe(x) \/ Unsubscribe(x))
    BY <1>0, <1>4 DEF Subscribe, StartUnsubscribe, Unsubscribe, Stream, Serving
  <1>5. CASE s = x /\ Returns(x)
    BY <1>0, <1>5 DEF Returns, Stream, Serving
  <1>6. CASE s = x /\ QueryExisting(x)
    <2>1. /\ stream'[s].list = Existing(stream[x].queue)
          /\ stream'[s].queue = stream[x].queue
      BY <1>0, <1>6 DEF QueryExisting, Stream
    <2>2. t \in stream'[s].list BY <1>0, <2>1 DEF Wants, Existing
    <2> QED BY <2>2 DEF Reached
  <1>7. CASE s = x /\ Send(x)
    <2>0. stream[s].pc = "sending" BY <1>7 DEF Send
    <2>1. PICK u \in stream[x].list :
            /\ sent' = [sent EXCEPT ![x] = @ \cup {u}]
            /\ stream' = [stream EXCEPT ![x].list = @ \ {u},
                                        ![x].pc = IF stream[x].list = {u} THEN "listening"
                                                  ELSE "sending"]
      BY <1>7 DEF Send
    <2>2. sent'[s] = sent[s] \cup {u} BY <1>7, <2>1 DEF TypeOK
    <2>3. /\ stream'[s].list = stream[s].list \ {u}
          /\ stream'[s].queue = stream[s].queue
      BY <1>0, <1>7, <2>1 DEF Stream
    <2>4. chan' = chan BY <1>7 DEF Send
    <2>5. Serving(s) /\ Wants(s, t) BY <1>0, <2>0, <2>3 DEF Serving, Wants
    <2>6. Reached(s, t) BY <2>5 DEF NoneMissed, Reached
    <2> QED BY <1>0, <1>1, <2>2, <2>3, <2>4, <2>6 DEF Reached
  <1>8. CASE s = x /\ Receive(x)
    <2>0. /\ stream[s].pc = "listening" /\ stream[s].list = {}
          /\ sent' = sent /\ chan[s] # << >> /\ chan[s] \in Seq(Tasks)
      BY <1>8 DEF Receive, ListenersDone, TypeOK
    <2>1. /\ stream'[s].list = {Head(chan[s])}
          /\ stream'[s].queue = stream[s].queue
      BY <1>0, <1>8 DEF Receive, Stream
    <2>2. chan'[s] = Tail(chan[s]) BY <1>8 DEF Receive, TypeOK
    <2>3. In(chan[s]) = In(Tail(chan[s])) \cup {Head(chan[s])} BY <2>0, InTail
    <2>4. Serving(s) /\ Wants(s, t) BY <1>0, <2>0, <2>1 DEF Serving, Wants
    <2>5. Reached(s, t) BY <2>4 DEF NoneMissed, Reached
    <2> QED BY <1>0, <1>1, <2>0, <2>1, <2>2, <2>3, <2>5 DEF Reached
  <1> QED BY <1>2, <1>3, <1>4, <1>5, <1>6, <1>7, <1>8 DEF Serve

\* No step loses a task.
LEMMA MissedStep == IInv /\ [Next]_vars => NoneMissed'
  <1> SUFFICES ASSUME IInv, [Next]_vars, NEW s \in Streams, NEW t \in Tasks,
                      Serving(s)', Wants(s, t)'
               PROVE  Reached(s, t)'
    BY DEF NoneMissed, Reached
  <1>1. CASE Next
    BY <1>1, PublisherMissed, StreamMissed DEF Next, IInv
  <1>2. CASE UNCHANGED vars
    BY <1>2 DEF IInv, NoneMissed, Reached, Serving, Wants, Coming, vars
  <1> QED BY <1>1, <1>2

-----------------------------------------------------------------------------
(* Theorems *)

\* The invariant holds at first.
LEMMA InitIInv == Init => IInv
  <1> SUFFICES ASSUME Init PROVE IInv
    OBVIOUS
  <1>1. TypeOK
    <2>1. pub \in [Publishers -> Publisher \cup {Idle}]
      BY DEF Init
    <2>2. stream \in [Streams -> Stream]
      BY DEF Init, Stream, Queues
    <2>3. chan \in [Streams -> Seq(Tasks)]
      BY DEF Init
    <2> QED BY <2>1, <2>2, <2>3 DEF Init, TypeOK, Statuses
  <1>2. Locking BY DEF Init, Locking, Registered, Idle
  <1>3. ListenersDone BY DEF Init, ListenersDone
  <1>4. NoneMissed BY DEF Init, NoneMissed, Serving
  <1> QED BY <1>1, <1>2, <1>3, <1>4 DEF IInv

\* Every step keeps the inductive invariant.
THEOREM Inductive == Spec => []IInv
  <1>1. IInv /\ [Next]_vars => IInv'
    BY TypeStep, LockingStep, ListenersStep, MissedStep DEF IInv
  <1> QED BY InitIInv, <1>1, PTL DEF Spec

\* Goroutines are where their code can be: the type invariant.
THEOREM TypeCorrect == Spec => []TypeOK
  <1>1. IInv => TypeOK BY DEF IInv
  <1> QED BY Inductive, <1>1, PTL

\* notifySubscribers never panics: no stream closes a channel that a range loop
\* has yet to send on.
THEOREM NeverSendsOnClosed == Spec => []SendsOnOpen
  <1>1. IInv => SendsOnOpen BY DEF IInv, Locking, SendsOnOpen
  <1> QED BY Inductive, <1>1, PTL

\* The map holds no stream that has ended or has not begun.
THEOREM MapServed == Spec => []SubscribersServed
  <1>1. IInv => SubscribersServed
    BY DEF IInv, Locking, Registered, SubscribersServed, TypeOK
  <1> QED BY Inductive, <1>1, PTL

\* A pending task reached, reaches or will reach every stream that serves its
\* queue, unless a full channel missed it.
THEOREM NoTaskMissed == Spec => []NoneMissed
  <1>1. IInv => NoneMissed BY DEF IInv
  <1> QED BY Inductive, <1>1, PTL
=============================================================================
