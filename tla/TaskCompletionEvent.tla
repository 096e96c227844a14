------------------------ MODULE TaskCompletionEvent ------------------------
(***************************************************************************)
(* task_completion_event: threads set the event, set an exception on it or  *)
(* (inside the library) cancel it, while tasks are created from it and      *)
(* cancellation tokens ask those tasks to cancel.                           *)
(*                                                                         *)
(* A step is one section under _M_taskListCritSec, one unlocked access to   *)
(* the event's fields, or the completion of one task.                       *)
(***************************************************************************)
EXTENDS Naturals, FiniteSets

CONSTANTS
  Threads,
  Tasks,           \* tasks that may be created from the event
  None,            \* no exception
  Mixed            \* may set() overlap set_exception()?

ASSUME EventAssumption ==
  /\ None \notin Threads
  /\ Mixed \in BOOLEAN

VARIABLES
  hasValue,    \* _M_fHasValue
  isCanceled,  \* _M_fIsCanceled
  holder,      \* _M_exceptionHolder: the thread that stored it, or None
  tasks,       \* _M_tasks
  alive,       \* the event has not been destroyed
  pc,          \* where each thread is in a method of the event
  todo,        \* the thread's local list _Tasks
  userExc,     \* the thread's local _UserException
  won,         \* threads whose call returned true (history)
  tstate,      \* _M_TaskState of the tasks
  texc         \* _M_exceptionHolder of the tasks

eventVars == <<hasValue, isCanceled, holder, tasks, alive>>
threadVars == <<pc, todo, userExc, won>>
taskVars == <<tstate, texc>>
vars == <<eventVars, threadVars, taskVars>>

Place == {"idle", "setLock", "setEach", "cancel", "cancelLock", "cancelRead",
          "cancelEach", "over"}

\* The types of the variables: the two flags, the holder of the exception, and
\* the states the event's tasks go through.
TypeOK ==
  /\ hasValue \in BOOLEAN
  /\ isCanceled \in BOOLEAN
  /\ holder \in Threads \cup {None}
  /\ tasks \in SUBSET Tasks
  /\ alive \in BOOLEAN
  /\ pc \in [Threads -> Place]
  /\ todo \in [Threads -> SUBSET Tasks]
  /\ userExc \in [Threads -> BOOLEAN]
  /\ won \in SUBSET Threads
  /\ tstate \in [Tasks -> {"none", "created", "pending", "completed", "canceled"}]
  /\ texc \in [Tasks -> Threads \cup {None}]

Init ==
  /\ hasValue = FALSE
  /\ isCanceled = FALSE
  /\ holder = None
  /\ tasks = {}
  /\ alive = TRUE
  /\ pc = [t \in Threads |-> "idle"]
  /\ todo = [t \in Threads |-> {}]
  /\ userExc = [t \in Threads |-> FALSE]
  /\ won = {}
  /\ tstate = [x \in Tasks |-> "none"]
  /\ texc = [x \in Tasks |-> None]

\* _IsTriggered
Triggered == hasValue \/ isCanceled

Done(x) == tstate[x] \in {"completed", "canceled"}

Goto(t, place) == pc' = [pc EXCEPT ![t] = place]

\* The call returns: each thread makes one call.
Return(t, b) ==
  /\ Goto(t, "over")
  /\ won' = IF b THEN won \cup {t} ELSE won

Setting(t) == pc[t] \in {"setLock", "setEach"}
Canceling(t) == pc[t] \in {"cancel", "cancelLock", "cancelRead", "cancelEach"}

\* Mutant of CancelOne: a state of its own for tasks that fail.
CancelOneFaulted(x, e) ==
  IF Done(x) THEN UNCHANGED taskVars
             ELSE /\ tstate' = [tstate EXCEPT ![x] = IF e = None THEN "canceled"
                                                              ELSE "faulted"]
                  /\ texc' = [texc EXCEPT ![x] = e]

\* _Cancel(true) and _CancelWithExceptionHolder of one task.
CancelOne(x, e) ==
  IF Done(x) THEN UNCHANGED taskVars
             ELSE /\ tstate' = [tstate EXCEPT ![x] = "canceled"]
                  /\ texc' = [texc EXCEPT ![x] = e]

\* _FinalizeAndRunContinuations of one task.
FinalizeOne(x) ==
  /\ tstate' = [tstate EXCEPT ![x] = IF Done(x) THEN @ ELSE "completed"]
  /\ UNCHANGED texc

----------------------------------------------------------------------------
(* set *)

\* The unlocked test of _IsTriggered.
SetBegin(t) ==
  /\ alive /\ pc[t] = "idle"
  /\ Mixed \/ \A u \in Threads : ~Canceling(u)
  /\ IF Triggered THEN Return(t, FALSE)
                  ELSE Goto(t, "setLock") /\ UNCHANGED won
  /\ UNCHANGED <<eventVars, todo, userExc, taskVars>>

\* Mutant of SetLocked: the event is not tested again under the lock.
SetLockedUntested(t) ==
  /\ pc[t] = "setLock"
  /\ hasValue' = TRUE
  /\ todo' = [todo EXCEPT ![t] = tasks]
  /\ tasks' = {}
  /\ Goto(t, "setEach")
  /\ UNCHANGED <<isCanceled, holder, alive, userExc, won, taskVars>>

\* Under the lock the value is stored and the tasks are taken, unless the
\* event is triggered by now.
SetLocked(t) ==
  /\ pc[t] = "setLock"
  /\ IF Triggered
       THEN /\ Return(t, FALSE)
            /\ UNCHANGED <<hasValue, tasks, todo>>
       ELSE /\ hasValue' = TRUE
            /\ todo' = [todo EXCEPT ![t] = tasks]
            /\ tasks' = {}
            /\ Goto(t, "setEach")
            /\ UNCHANGED won
  /\ UNCHANGED <<isCanceled, holder, alive, userExc, taskVars>>

\* Mutant of SetEach: tasks that are asked to cancel are left alone.
SetEachSkip(t, x) ==
  /\ pc[t] = "setEach" /\ x \in todo[t]
  /\ todo' = [todo EXCEPT ![t] = @ \ {x}]
  /\ IF tstate[x] = "pending" THEN UNCHANGED taskVars ELSE FinalizeOne(x)
  /\ UNCHANGED <<eventVars, pc, userExc, won>>

\* Each task is completed, or canceled if a token asked it to cancel.
SetEach(t, x) ==
  /\ pc[t] = "setEach" /\ x \in todo[t]
  /\ todo' = [todo EXCEPT ![t] = @ \ {x}]
  /\ IF tstate[x] = "pending" THEN CancelOne(x, None) ELSE FinalizeOne(x)
  /\ UNCHANGED <<eventVars, pc, userExc, won>>

\* A stored exception is dropped, without the lock, and set returns true.
SetReturn(t) ==
  /\ pc[t] = "setEach" /\ todo[t] = {}
  /\ holder' = None
  /\ Return(t, TRUE)
  /\ UNCHANGED <<hasValue, isCanceled, tasks, alive, todo, userExc, taskVars>>

----------------------------------------------------------------------------
(* set_exception, and _Cancel *)

\* Mutants of StoreException: an exception replaces the one stored before it;
\* an exception is stored in an event that is triggered.
StoreExceptionReplace(t) ==
  /\ alive /\ pc[t] = "idle"
  /\ Mixed \/ \A u \in Threads : ~Setting(u)
  /\ IF Triggered
       THEN Return(t, FALSE) /\ UNCHANGED holder
       ELSE holder' = t /\ Goto(t, "cancel") /\ UNCHANGED won
  /\ UNCHANGED <<hasValue, isCanceled, tasks, alive, todo, userExc, taskVars>>
StoreExceptionAlways(t) ==
  /\ alive /\ pc[t] = "idle"
  /\ Mixed \/ \A u \in Threads : ~Setting(u)
  /\ IF holder # None
       THEN Return(t, FALSE) /\ UNCHANGED holder
       ELSE holder' = t /\ Goto(t, "cancel") /\ UNCHANGED won
  /\ UNCHANGED <<hasValue, isCanceled, tasks, alive, todo, userExc, taskVars>>

\* _StoreException, under the lock.
StoreException(t) ==
  /\ alive /\ pc[t] = "idle"
  /\ Mixed \/ \A u \in Threads : ~Setting(u)
  /\ IF Triggered \/ holder # None
       THEN Return(t, FALSE) /\ UNCHANGED holder
       ELSE holder' = t /\ Goto(t, "cancel") /\ UNCHANGED won
  /\ UNCHANGED <<hasValue, isCanceled, tasks, alive, todo, userExc, taskVars>>

\* _Cancel() without an exception, which only the library (when_all) calls.
CancelBegin(t) ==
  /\ alive /\ pc[t] = "idle"
  /\ Mixed \/ (~hasValue /\ \A u \in Threads : ~Setting(u))
  /\ Goto(t, "cancel")
  /\ UNCHANGED <<eventVars, todo, userExc, won, taskVars>>

\* _CancelInternal: the unlocked test of _M_fIsCanceled.
CancelTest(t) ==
  /\ pc[t] = "cancel"
  /\ IF isCanceled THEN Return(t, FALSE)
                   ELSE Goto(t, "cancelLock") /\ UNCHANGED won
  /\ UNCHANGED <<eventVars, todo, userExc, taskVars>>

\* Under the lock the event becomes canceled and the tasks are taken.
CancelLocked(t) ==
  /\ pc[t] = "cancelLock"
  /\ isCanceled' = TRUE
  /\ IF isCanceled
       THEN Return(t, FALSE) /\ UNCHANGED <<tasks, todo>>
       ELSE /\ todo' = [todo EXCEPT ![t] = tasks]
            /\ tasks' = {}
            /\ Goto(t, "cancelRead")
            /\ UNCHANGED won
  /\ UNCHANGED <<hasValue, holder, alive, userExc, taskVars>>

\* The unlocked read of _HasUserException.
CancelRead(t) ==
  /\ pc[t] = "cancelRead"
  /\ userExc' = [userExc EXCEPT ![t] = holder # None]
  /\ Goto(t, "cancelEach")
  /\ UNCHANGED <<eventVars, todo, won, taskVars>>

\* Each task is canceled, with the holder the event has at that time.
CancelEach(t, x) ==
  /\ pc[t] = "cancelEach" /\ x \in todo[t]
  /\ todo' = [todo EXCEPT ![t] = @ \ {x}]
  /\ CancelOne(x, IF userExc[t] THEN holder ELSE None)
  /\ UNCHANGED <<eventVars, pc, userExc, won>>

CancelReturn(t) ==
  /\ pc[t] = "cancelEach" /\ todo[t] = {}
  /\ Return(t, TRUE)
  /\ UNCHANGED <<eventVars, todo, userExc, taskVars>>

----------------------------------------------------------------------------
(* The tasks *)

\* Mutant of RegisterTask: the value is not looked for.
RegisterTaskUntested(x, s) ==
  /\ alive /\ tstate[x] = "none" /\ s \in {"created", "pending"}
  /\ IF holder # None
       THEN /\ tstate' = [tstate EXCEPT ![x] = "canceled"]
            /\ texc' = [texc EXCEPT ![x] = holder]
            /\ UNCHANGED tasks
       ELSE /\ tstate' = [tstate EXCEPT ![x] = s]
            /\ tasks' = tasks \cup {x}
            /\ UNCHANGED texc
  /\ UNCHANGED <<hasValue, isCanceled, holder, alive, threadVars>>

\* A task is created from the event: _RegisterTask, under the lock.  A token
\* that is already canceled has made the task pending.
RegisterTask(x, s) ==
  /\ alive /\ tstate[x] = "none" /\ s \in {"created", "pending"}
  /\ IF holder # None
       THEN /\ tstate' = [tstate EXCEPT ![x] = "canceled"]
            /\ texc' = [texc EXCEPT ![x] = holder]
            /\ UNCHANGED tasks
       ELSE /\ tstate' = [tstate EXCEPT ![x] = IF hasValue THEN "completed"
                                                           ELSE s]
            /\ tasks' = IF hasValue THEN tasks ELSE tasks \cup {x}
            /\ UNCHANGED texc
  /\ UNCHANGED <<hasValue, isCanceled, holder, alive, threadVars>>

\* A token's callback.
AsyncCancel(x) ==
  /\ tstate[x] = "created"
  /\ tstate' = [tstate EXCEPT ![x] = "pending"]
  /\ UNCHANGED <<eventVars, threadVars, texc>>

\* ~_Task_completion_event_impl: tasks of an event that was never triggered
\* are canceled.
Destroyed ==
  /\ alive' = FALSE
  /\ tasks' = {}
  /\ tstate' = [x \in Tasks |-> IF x \in tasks /\ ~Done(x) THEN "canceled"
                                                           ELSE tstate[x]]
  /\ UNCHANGED <<hasValue, isCanceled, holder, threadVars, texc>>

\* The last reference to the event goes: nobody is in a method of it.
Destroy ==
  /\ alive /\ \A t \in Threads : pc[t] \in {"idle", "over"}
  /\ Destroyed

----------------------------------------------------------------------------

\* The steps of a thread inside a method of the event.
Step(t) ==
  \/ SetLocked(t) \/ SetReturn(t)
  \/ CancelTest(t) \/ CancelLocked(t) \/ CancelRead(t) \/ CancelReturn(t)
  \/ \E x \in Tasks : SetEach(t, x) \/ CancelEach(t, x)

Call(t) == SetBegin(t) \/ StoreException(t) \/ CancelBegin(t)

Next ==
  \/ \E t \in Threads : Step(t) \/ Call(t)
  \/ \E x \in Tasks :
       \/ \E s \in {"created", "pending"} : RegisterTask(x, s)
       \/ AsyncCancel(x)
  \/ Destroy

Spec == Init /\ [][Next]_vars

\* A thread inside a method of the event keeps running.
FairSpec == Spec /\ \A t \in Threads : WF_vars(Step(t))

----------------------------------------------------------------------------
(* Properties *)

\* Of all calls of set and set_exception one returns true ("the first setter
\* wins and all others are ignored").
OneWinner == Cardinality(won) <= 1

\* Tasks created from one event agree: they do not end with different
\* exceptions, nor some with a value and others with an exception
\* ("Any task created using this event will be canceled with the same
\* exception").
TasksAgree ==
  \A x, y \in Tasks :
    texc[x] # None => /\ tstate[y] # "completed"
                      /\ texc[y] # None => texc[y] = texc[x]

\* A call that returned true decided the outcome: after set no task of the
\* event has an exception, after set_exception every task that is done has.
WinnerDecides ==
  \A t \in won : \A x \in Tasks : Done(x) =>
    IF hasValue THEN texc[x] = None ELSE texc[x] = holder

\* set() or set_exception() has triggered the event.  (_RegisterTask does not
\* look at _M_fIsCanceled: after a plain _Cancel() it keeps the task.)
Decided == hasValue \/ (isCanceled /\ holder # None)

\* No task stays registered with an event that is decided, whichever way its
\* creation and the calls of set, set_exception and _Cancel interleave.
NoneForgotten ==
  Decided => \A x \in Tasks :
    tstate[x] \in {"created", "pending"} => \E t \in Threads : x \in todo[t]

\* Every task registered with an event that is decided is completed.
TriggerCompletes ==
  \A x \in Tasks : tstate[x] # "none" /\ Decided ~> Done(x)

\* The comment and the assertion in _CancelInternal: it "will never be invoked
\* if the task completion event has been set".
NotCanceledWhenSet ==
  \A t \in Threads : pc[t] \in {"cancel", "cancelLock"} => ~hasValue

=============================================================================
