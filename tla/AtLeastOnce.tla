----------------------------- MODULE AtLeastOnce -----------------------------
(***************************************************************************)
(* What the broker and the worker promise the API about a task it sent     *)
(* (task_acks_late): the task stays owed until it has been carried out at  *)
(* least once, or until it is dropped for good (retries exhausted, a task  *)
(* without retries raising, a pool process lost under a living parent).    *)
(* It may be carried out more than once, and a dropped task whose message  *)
(* was delivered twice may still be owed.                                  *)
(***************************************************************************)
EXTENDS Naturals

CONSTANT Tasks

VARIABLES
  owed,     \* tasks sent, waiting or held by a worker
  done,     \* how often each task was carried out
  dropped   \* tasks given up

vars == <<owed, done, dropped>>

Init ==
  /\ owed = {}
  /\ done = [t \in Tasks |-> 0]
  /\ dropped = {}

Submit(t) ==
  /\ t \notin owed \cup dropped
  /\ done[t] = 0
  /\ owed' = owed \cup {t}
  /\ UNCHANGED <<done, dropped>>

Execute(t) ==
  /\ t \in owed
  /\ done' = [done EXCEPT ![t] = @ + 1]
  /\ UNCHANGED <<owed, dropped>>

Consume(t) ==
  /\ t \in owed
  /\ done[t] > 0
  /\ owed' = owed \ {t}
  /\ UNCHANGED <<done, dropped>>

Drop(t) ==
  /\ t \in owed
  /\ dropped' = dropped \cup {t}
  /\ owed' \in {owed, owed \ {t}}
  /\ done' = done

Next == \E t \in Tasks : Submit(t) \/ Execute(t) \/ Consume(t) \/ Drop(t)

Spec == Init /\ [][Next]_vars
=============================================================================
