----------------------------- MODULE TaskLedger -----------------------------
(***************************************************************************)
(* What the task state machine promises, without its copies, hooks, saves  *)
(* and statements: a task is admitted and enters recognition only against  *)
(* a payment of its own for each, completes only from recognition, stays   *)
(* as it ended, and an account moves only by payments and by what an       *)
(* administrator types. A user or administrator who is writing a task may  *)
(* put it anywhere.                                                        *)
(* TaskMachine implements it while requests do not overlap.                *)
(***************************************************************************)
EXTENDS Integers

CONSTANTS
  Tasks,           \* ids of tasks
  Clients,         \* who pays
  Owner,           \* the client of each task
  InitialAccount,  \* what each client has
  MaxImages,       \* bound: images of one task
  MaxGrant         \* bound: what an administrator types

VARIABLES
  stage,    \* how far each task is
  edited,   \* tasks a user or administrator is writing
  owed,     \* phases of tasks that are paid for and not entered yet
  account   \* what each client has left

vars == <<stage, edited, owed, account>>

Ended == { "failed", "completed" }
Running == { "ready", "open", "recognition" }
Living == Running \cup Ended
Stages == { "absent", "deleted" } \cup Living

Init ==
  /\ stage = [t \in Tasks |-> "absent"]
  /\ edited = {}
  /\ owed = {}
  /\ account = InitialAccount

Create(t) ==
  /\ stage[t] = "absent"
  /\ stage' = [stage EXCEPT ![t] = "open"]
  /\ UNCHANGED <<edited, owed, account>>

\* A user or administrator starts to write the task.
Edit(t) ==
  /\ stage[t] \in Living
  /\ edited' = edited \cup {t}
  /\ UNCHANGED <<stage, owed, account>>

\* What they write, or what the machine makes of it.
Override(t, s) ==
  /\ t \in edited
  /\ stage' = [stage EXCEPT ![t] = s]
  /\ UNCHANGED <<edited, owed, account>>

\* The machine may take the task from this stage.
From(t, s) == stage[t] = s \/ t \in edited

\* A phase is paid for once before it is entered.
Pay(t, phase, n) ==
  /\ <<t, phase>> \notin owed
  /\ account[Owner[t]] > 0
  /\ account' = [account EXCEPT ![Owner[t]] = @ - n]
  /\ owed' = owed \cup { <<t, phase>> }
  /\ UNCHANGED <<stage, edited>>

\* Images are admitted on a positive account, whatever their number.
PayImages(t, n) == From(t, "ready") /\ Pay(t, "open", n)

PayRecognition(t) == From(t, "open") /\ Pay(t, "recognition", 1)

\* The task enters the phase that is paid for.
Enter(t, phase) ==
  /\ <<t, phase>> \in owed
  /\ From(t, IF phase = "open" THEN "ready" ELSE "open")
  /\ stage' = [stage EXCEPT ![t] = phase]
  /\ owed' = owed \ { <<t, phase>> }
  /\ UNCHANGED <<edited, account>>

Fail(t) ==
  /\ stage[t] \in Running
  /\ stage' = [stage EXCEPT ![t] = "failed"]
  /\ UNCHANGED <<edited, owed, account>>

Complete(t) ==
  /\ stage[t] = "recognition"
  /\ stage' = [stage EXCEPT ![t] = "completed"]
  /\ UNCHANGED <<edited, owed, account>>

Delete(t) ==
  /\ stage[t] \in Living
  /\ stage' = [stage EXCEPT ![t] = "deleted"]
  /\ UNCHANGED <<edited, owed, account>>

\* An administrator types what a client has.
Grant(c, q) ==
  /\ account' = [account EXCEPT ![c] = q]
  /\ UNCHANGED <<stage, edited, owed>>

\* A request ends; one that fails forfeits a payment it has not used.
Release ==
  /\ edited' \in SUBSET edited
  /\ owed' \in SUBSET owed
  /\ UNCHANGED <<stage, account>>

Next ==
  \/ \E t \in Tasks :
       \/ Create(t)
       \/ Edit(t)
       \/ \E s \in Living : Override(t, s)
       \/ \E n \in 1 .. MaxImages : PayImages(t, n)
       \/ PayRecognition(t)
       \/ \E phase \in { "open", "recognition" } : Enter(t, phase)
       \/ Fail(t)
       \/ Complete(t)
       \/ Delete(t)
  \/ \E c \in Clients, q \in 1 .. MaxGrant : Grant(c, q)
  \/ Release

Spec == Init /\ [][Next]_vars
=============================================================================
