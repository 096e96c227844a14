------------------------------- MODULE Future -------------------------------
(***************************************************************************)
(* What a pplx::task promises to the code that holds it: a task gets one    *)
(* outcome, once, and a task that depends on another gets it after, and     *)
(* where the dependency says so from, the other one.  Threads, queues,      *)
(* cancellation tokens and lists of continuations are not visible here;     *)
(* module Task is shown to implement this.                                  *)
(***************************************************************************)
EXTENDS Naturals

CONSTANTS
  Tasks,
  None       \* no task, no exception

VARIABLES
  outcome,   \* "none" before the task exists, "open", then "value" or "failed"
  error,     \* the task whose body threw what a failed task holds; None if
             \* the task was merely canceled
  source,    \* the task whose outcome it depends on, None if there is none
  relation   \* "root", "value" (value-based continuation), "task" (task-based
             \* continuation) or "inner" (its body returned the source)

futureVars == <<outcome, error, source, relation>>

Resolved(t) == outcome[t] \in {"value", "failed"}

FutureInit ==
  /\ outcome = [t \in Tasks |-> "none"]
  /\ error = [t \in Tasks |-> None]
  /\ source = [t \in Tasks |-> None]
  /\ relation = [t \in Tasks |-> "root"]

\* create_task, or then() on an existing task: a new task is open.
New(t, s, r) ==
  /\ \/ s = None /\ r = "root"
     \/ s # None /\ outcome[s] # "none" /\ r \in {"value", "task"}
  /\ outcome' = [outcome EXCEPT ![t] = "open"]
  /\ source' = [source EXCEPT ![t] = s]
  /\ relation' = [relation EXCEPT ![t] = r]
  /\ UNCHANGED error

\* A task is ready when what it depends on has an outcome: only ready open
\* tasks adopt or resolve.
Ready(t) == source[t] = None \/ Resolved(source[t])

\* The body of a ready task has run and returned another task.
Adopt(t, i) ==
  /\ relation[t] # "inner"
  /\ relation[t] = "value" => outcome[source[t]] = "value"
  /\ i # t /\ outcome[i] # "none"
  /\ source' = [source EXCEPT ![t] = i]
  /\ relation' = [relation EXCEPT ![t] = "inner"]
  /\ UNCHANGED <<outcome, error>>

\* The outcomes a task may get.
MayBecome(t, o, e) ==
  LET s == source[t] IN
  IF relation[t] = "inner" \/ (relation[t] = "value" /\ outcome[s] = "failed")
  THEN o = outcome[s] /\ e = error[s]
  ELSE \/ o = "value" /\ e = None
       \/ o = "failed" /\ e \in {None, t}
       \* canceled before it started, the source having failed
       \/ o = "failed" /\ relation[t] = "task" /\ e = error[s]

Resolve(t, o, e) ==
  /\ MayBecome(t, o, e)
  /\ outcome' = [outcome EXCEPT ![t] = o]
  /\ error' = [error EXCEPT ![t] = e]
  /\ UNCHANGED <<source, relation>>

FutureNext ==
  \E t \in Tasks :
    \/ /\ outcome[t] = "none"
       /\ \E s \in Tasks \cup {None}, r \in {"root", "value", "task"} :
            New(t, s, r)
    \/ /\ outcome[t] = "open" /\ Ready(t)
       /\ \/ \E i \in Tasks : Adopt(t, i)
          \/ \E o \in {"value", "failed"}, e \in Tasks \cup {None} :
               Resolve(t, o, e)

FutureSpec == FutureInit /\ [][FutureNext]_futureVars

=============================================================================
