-------------------------------- MODULE Task --------------------------------
(***************************************************************************)
(* pplx tasks (_Task_impl and the task handles of pplxtasks.h): creation,   *)
(* then(), scheduling, bodies that return, throw, cancel themselves or      *)
(* return another task, cancellation through tokens, and the propagation of *)
(* outcomes to continuations.                                               *)
(*                                                                         *)
(* A step is one section under _M_ContinuationsCritSec, one post to a       *)
(* scheduler, one chore taken by a pool thread, or one signal of the task   *)
(* collection's event.  The _M_Continuations list is the set of chained     *)
(* handles: each of its elements is either posted or canceled, by itself,   *)
(* so the order of the walk over it does not matter.  The thread pool is    *)
(* the set of queued chores, taken in any order by as many threads as there *)
(* are chores.                                                              *)
(***************************************************************************)
EXTENDS Naturals

CONSTANTS
  Tasks,          \* tasks that may be created, each once
  Tokens,         \* cancellation tokens
  None,           \* no task, no token
  SchedulerFails  \* may schedule() of a client's scheduler throw?

ASSUME TaskAssumption ==
  /\ None \notin Tasks \cup Tokens
  /\ SchedulerFails \in BOOLEAN

VARIABLES
  state,      \* _M_TaskState
  exc,        \* _M_exceptionHolder: the task whose code threw, or None
  signaled,   \* tasks whose _M_TaskCollection._M_Completed event is set
  parent,     \* _M_ancestorTaskImpl of the continuation handle
  taskBased,  \* tasks whose handle has _M_isTaskBasedContinuation
  token,      \* _M_pTokenState
  canceled,   \* tokens whose source was canceled
  asked,      \* tasks whose cancellation callback has been made
  chore,      \* where the task's handle is
  unwrap,     \* the task its body returned (_M_fUnwrappedTask)
  finish,     \* how far the finishing thread is after the terminal state
  late,       \* tasks created with a canceled token (history)
  ran         \* tasks whose body was entered (history)

vars == <<state, exc, signaled, parent, taskBased, token, canceled, asked,
          chore, unwrap, finish, late, ran>>

TaskState == {"none", "created", "started", "pending", "completed", "canceled"}

\* "fresh": not yet given to a scheduler or to the ancestor; "chained": in the
\* ancestor's _M_Continuations; "due": taken out of it, or never put there;
\* "queued": posted; "running": in the body; "returned": the body returned a
\* task.  The next ones are those of the internal continuation of _AsyncInit
\* on that task; "lost": it could not be posted.  "gone": deleted.
ChorePlace ==
  {"none", "fresh", "chained", "due", "queued", "running", "returned",
   "innerChained", "innerDue", "innerQueued", "lost", "gone"}

\* The types of the variables: _M_TaskState and the places a handle can be in.
TypeOK ==
  /\ state \in [Tasks -> TaskState]
  /\ exc \in [Tasks -> Tasks \cup {None}]
  /\ signaled \in SUBSET Tasks
  /\ parent \in [Tasks -> Tasks \cup {None}]
  /\ taskBased \in SUBSET Tasks
  /\ token \in [Tasks -> Tokens \cup {None}]
  /\ canceled \in SUBSET Tokens
  /\ asked \in SUBSET Tasks
  /\ chore \in [Tasks -> ChorePlace]
  /\ unwrap \in [Tasks -> Tasks \cup {None}]
  /\ finish \in [Tasks -> {"no", "complete", "run", "over"}]
  /\ late \in SUBSET Tasks
  /\ ran \in SUBSET Tasks

Init ==
  /\ state = [t \in Tasks |-> "none"]
  /\ exc = [t \in Tasks |-> None]
  /\ signaled = {}
  /\ parent = [t \in Tasks |-> None]
  /\ taskBased = {}
  /\ token = [t \in Tasks |-> None]
  /\ canceled = {}
  /\ asked = {}
  /\ chore = [t \in Tasks |-> "none"]
  /\ unwrap = [t \in Tasks |-> None]
  /\ finish = [t \in Tasks |-> "no"]
  /\ late = {}
  /\ ran = {}

Exists(t) == state[t] # "none"
Done(t) == state[t] \in {"completed", "canceled"}

MoveTo(t, place) == chore' = [chore EXCEPT ![t] = place]

links == <<parent, taskBased, token, unwrap, late>>
tokens == <<canceled, asked>>

----------------------------------------------------------------------------
(* Reaching a terminal state *)

\* The locked part of _FinalizeAndRunContinuations and of a synchronous
\* _CancelAndRunContinuations: s is the state to reach, e the exception holder.
Terminate(t, s, e) ==
  IF Done(t)
    THEN UNCHANGED <<state, exc, finish>>
    ELSE /\ state' = [state EXCEPT ![t] = s]
         /\ exc' = [exc EXCEPT ![t] = e]
         /\ finish' = [finish EXCEPT ![t] = "complete"]

\* The continuation handles in _M_Continuations of p.
Chained(p) ==
  {t \in Tasks : \/ chore[t] = "chained" /\ parent[t] = p
                 \/ chore[t] = "innerChained" /\ unwrap[t] = p}

\* Mutant of Complete: the continuations of a canceled task are forgotten.
CompleteForgets(t) ==
  /\ finish[t] = "complete"
  /\ signaled' = signaled \cup {t}
  /\ finish' = [finish EXCEPT ![t] =
                  IF state[t] = "canceled" THEN "over" ELSE "run"]
  /\ UNCHANGED <<state, exc, chore, ran, links, tokens>>

\* _M_TaskCollection._Complete(): waiters are released.  After a cancellation
\* a walk over the continuations is posted to the ambient scheduler, if there
\* are any.
Complete(t) ==
  /\ finish[t] = "complete"
  /\ signaled' = signaled \cup {t}
  /\ finish' = [finish EXCEPT ![t] =
                  IF state[t] = "canceled" /\ Chained(t) = {} THEN "over"
                                                              ELSE "run"]
  /\ UNCHANGED <<state, exc, chore, ran, links, tokens>>

\* Mutant of RunTaskContinuations: only one handle is taken off the list.
RunOneContinuation(t) ==
  /\ finish[t] = "run"
  /\ finish' = [finish EXCEPT ![t] = "over"]
  /\ IF Chained(t) = {}
       THEN UNCHANGED chore
       ELSE \E c \in Chained(t) :
              MoveTo(c, IF chore[c] = "chained" THEN "due" ELSE "innerDue")
  /\ UNCHANGED <<state, exc, signaled, ran, links, tokens>>

\* _RunTaskContinuations takes the list; each handle is then due.
RunTaskContinuations(t) ==
  /\ finish[t] = "run"
  /\ finish' = [finish EXCEPT ![t] = "over"]
  /\ chore' = [c \in Tasks |->
                 IF c \notin Chained(t) THEN chore[c]
                 ELSE IF chore[c] = "chained" THEN "due" ELSE "innerDue"]
  /\ UNCHANGED <<state, exc, signaled, ran, links, tokens>>

----------------------------------------------------------------------------
(* Creation *)

\* _CreateImpl with token k: if k is canceled already, the callback is made
\* inside _RegisterCancellation.
Create(t, p, tb, k) ==
  /\ ~Exists(t)
  /\ state' = [state EXCEPT ![t] = IF k \in canceled THEN "pending"
                                                      ELSE "created"]
  /\ asked' = IF k \in canceled THEN asked \cup {t} ELSE asked
  /\ late' = IF k \in canceled THEN late \cup {t} ELSE late
  /\ token' = [token EXCEPT ![t] = k]
  /\ parent' = [parent EXCEPT ![t] = p]
  /\ taskBased' = IF tb THEN taskBased \cup {t} ELSE taskBased
  /\ MoveTo(t, "fresh")
  /\ UNCHANGED <<exc, signaled, canceled, unwrap, finish, ran>>

\* create_task(functor, token)
CreateTask(t, k) == Create(t, None, FALSE, k)

\* p.then(functor): without a token of its own the continuation inherits that
\* of p, unless it is task-based.
Then(p, t, tb, k) ==
  /\ Exists(p) /\ p # t
  /\ k \in Tokens \cup {IF tb THEN None ELSE token[p]}
  /\ Create(t, p, tb, k)

\* _ScheduleTask of an initial task: posted, or canceled with the exception
\* of the scheduler.
ScheduleTask(t) ==
  /\ chore[t] = "fresh" /\ parent[t] = None
  /\ \/ /\ MoveTo(t, "queued")
        /\ UNCHANGED <<state, exc, finish>>
     \/ /\ SchedulerFails
        /\ MoveTo(t, "gone")
        /\ Terminate(t, "canceled", t)
  /\ UNCHANGED <<signaled, ran, links, tokens>>

\* Mutant of ScheduleContinuation: only a completed ancestor is looked for.
ScheduleContinuationLost(t) ==
  /\ chore[t] = "fresh" /\ parent[t] # None
  /\ MoveTo(t, IF state[parent[t]] = "completed" THEN "due" ELSE "chained")
  /\ UNCHANGED <<state, exc, signaled, finish, ran, links, tokens>>

\* The locked part of _ScheduleContinuation: chain the handle unless the
\* ancestor is done.
ScheduleContinuation(t) ==
  /\ chore[t] = "fresh" /\ parent[t] # None
  /\ MoveTo(t, IF Done(parent[t]) THEN "due" ELSE "chained")
  /\ UNCHANGED <<state, exc, signaled, finish, ran, links, tokens>>

\* Mutants of RunContinuation: the exception is not passed on; a canceled
\* continuation is posted all the same.
RunContinuationNoException(t) ==
  /\ chore[t] = "due"
  /\ IF state[parent[t]] = "canceled" /\ t \notin taskBased
       THEN /\ MoveTo(t, "gone")
            /\ Terminate(t, "canceled", None)
       ELSE /\ MoveTo(t, "queued")
            /\ UNCHANGED <<state, exc, finish>>
  /\ UNCHANGED <<signaled, ran, links, tokens>>
RunContinuationTwice(t) ==
  /\ chore[t] = "due"
  /\ MoveTo(t, "queued")
  /\ IF state[parent[t]] = "canceled" /\ t \notin taskBased
       THEN Terminate(t, "canceled", exc[parent[t]])
       ELSE UNCHANGED <<state, exc, finish>>
  /\ UNCHANGED <<signaled, ran, links, tokens>>

\* _RunContinuation, and the unlocked part of _ScheduleContinuation: a
\* value-based continuation of a canceled task is canceled with the task's
\* exception, if it has one; any other is posted.
RunContinuation(t) ==
  /\ chore[t] = "due"
  /\ IF state[parent[t]] = "canceled" /\ t \notin taskBased
       THEN /\ MoveTo(t, "gone")
            /\ Terminate(t, "canceled", exc[parent[t]])
       ELSE \/ /\ MoveTo(t, "queued")
               /\ UNCHANGED <<state, exc, finish>>
            \/ /\ SchedulerFails
               /\ MoveTo(t, "gone")
               /\ Terminate(t, "canceled", t)
  /\ UNCHANGED <<signaled, ran, links, tokens>>

----------------------------------------------------------------------------
(* Running the chore *)

\* Mutant of Start: a pending cancellation is not looked for.
StartAnyway(t) ==
  /\ chore[t] = "queued"
  /\ state' = [state EXCEPT ![t] = "started"]
  /\ MoveTo(t, "running")
  /\ ran' = ran \cup {t}
  /\ UNCHANGED <<exc, signaled, finish, links, tokens>>

\* invoke: _TransitionedToStarted succeeds, the body is entered.
Start(t) ==
  /\ chore[t] = "queued" /\ state[t] # "pending"
  /\ state' = [state EXCEPT ![t] = "started"]
  /\ MoveTo(t, "running")
  /\ ran' = ran \cup {t}
  /\ UNCHANGED <<exc, signaled, finish, links, tokens>>

\* invoke: _TransitionedToStarted fails, _SyncCancelAndPropagateException
\* cancels the task, with the ancestor's exception if it has one.
StartCanceled(t) ==
  /\ chore[t] = "queued" /\ state[t] = "pending"
  /\ MoveTo(t, "gone")
  /\ Terminate(t, "canceled", IF parent[t] = None THEN None ELSE exc[parent[t]])
  /\ UNCHANGED <<signaled, ran, links, tokens>>

\* Mutant of BodyEnds: a body that throws leaves a state of its own.
BodyEndsFaulted(t) ==
  /\ chore[t] = "running"
  /\ MoveTo(t, "gone")
  /\ \/ Terminate(t, "completed", None)
     \/ Terminate(t, "canceled", None)
     \/ Terminate(t, "faulted", t)
  /\ UNCHANGED <<signaled, ran, links, tokens>>

\* The body returns a value, throws task_canceled, or throws anything else.
BodyEnds(t) ==
  /\ chore[t] = "running"
  /\ MoveTo(t, "gone")
  /\ \/ Terminate(t, "completed", None)
     \/ Terminate(t, "canceled", None)
     \/ Terminate(t, "canceled", t)
  /\ UNCHANGED <<signaled, ran, links, tokens>>

\* i is not waiting, directly or not, for t.
Independent(i, t) ==
  \E S \in SUBSET Tasks :
    /\ i \in S /\ t \notin S
    /\ \A s \in S : {parent[s], unwrap[s]} \subseteq S \cup {None}

\* The body returns a task, to be unwrapped.  (A client that returns a task
\* which waits for this one gets a task that never completes.)
BodyReturnsTask(t, i) ==
  /\ chore[t] = "running"
  /\ Exists(i) /\ Independent(i, t)
  /\ unwrap' = [unwrap EXCEPT ![t] = i]
  /\ MoveTo(t, "returned")
  /\ UNCHANGED <<state, exc, signaled, parent, taskBased, token, finish, late,
                 ran, tokens>>

\* _AsyncInit: the internal, task-based continuation is scheduled on the
\* inner task.
AsyncInit(t) ==
  /\ chore[t] = "returned"
  /\ MoveTo(t, IF Done(unwrap[t]) THEN "innerDue" ELSE "innerChained")
  /\ UNCHANGED <<state, exc, signaled, finish, ran, links, tokens>>

\* The internal continuation is posted.  If the scheduler throws, only the
\* internal continuation's own task is canceled.
PostInner(t) ==
  /\ chore[t] = "innerDue"
  /\ \/ MoveTo(t, "innerQueued")
     \/ SchedulerFails /\ MoveTo(t, "lost")
  /\ UNCHANGED <<state, exc, signaled, finish, ran, links, tokens>>

\* The internal continuation funnels the inner task's outcome to the outer.
RunInner(t) ==
  /\ chore[t] = "innerQueued"
  /\ MoveTo(t, "gone")
  /\ Terminate(t, state[unwrap[t]], exc[unwrap[t]])
  /\ UNCHANGED <<signaled, ran, links, tokens>>

----------------------------------------------------------------------------
(* Cancellation through a token *)

CancelToken(k) ==
  /\ k \notin canceled
  /\ canceled' = canceled \cup {k}
  /\ UNCHANGED <<state, exc, signaled, asked, chore, finish, ran, links>>

\* Mutant of AsyncCancel: a task that is done is made pending again.
AsyncCancelDone(t) ==
  /\ Exists(t) /\ token[t] \in canceled /\ t \notin asked
  /\ asked' = asked \cup {t}
  /\ state' = [state EXCEPT ![t] = "pending"]
  /\ UNCHANGED <<exc, signaled, canceled, chore, finish, ran, links>>

\* The callback of _RegisterCancellation: an asynchronous
\* _CancelAndRunContinuations.  (CancellationToken shows that each callback is
\* made once.)
AsyncCancel(t) ==
  /\ Exists(t) /\ token[t] \in canceled /\ t \notin asked
  /\ asked' = asked \cup {t}
  /\ state' = [state EXCEPT ![t] = IF Done(t) THEN @ ELSE "pending"]
  /\ UNCHANGED <<exc, signaled, canceled, chore, finish, ran, links>>

----------------------------------------------------------------------------

\* The steps of threads that are inside the library, or in a body.
Work(t) ==
  \/ Complete(t) \/ RunTaskContinuations(t)
  \/ ScheduleTask(t) \/ ScheduleContinuation(t) \/ RunContinuation(t)
  \/ Start(t) \/ StartCanceled(t) \/ BodyEnds(t)
  \/ \E i \in Tasks : BodyReturnsTask(t, i)
  \/ AsyncInit(t) \/ PostInner(t) \/ RunInner(t)

\* What clients do, and the callbacks of tokens.
Client(t) ==
  \/ \E k \in Tokens \cup {None} :
       \/ CreateTask(t, k)
       \/ \E p \in Tasks, tb \in BOOLEAN : Then(p, t, tb, k)
  \/ AsyncCancel(t)

Next ==
  \/ \E t \in Tasks : Work(t) \/ Client(t)
  \/ \E k \in Tokens : CancelToken(k)

Spec == Init /\ [][Next]_vars

\* Threads of the pool and threads inside the library keep running, and
\* bodies end.
FairSpec == Spec /\ \A t \in Tasks : WF_vars(Work(t))

----------------------------------------------------------------------------
(* Properties *)

\* What the holders of tasks see of them, for module Future.
outcomeSeen ==
  [t \in Tasks |-> IF ~Exists(t) THEN "none"
                   ELSE IF state[t] = "completed" THEN "value"
                   ELSE IF state[t] = "canceled" THEN "failed" ELSE "open"]
sourceSeen ==
  [t \in Tasks |-> IF unwrap[t] # None THEN unwrap[t] ELSE parent[t]]
relationSeen ==
  [t \in Tasks |-> IF unwrap[t] # None THEN "inner"
                   ELSE IF parent[t] = None THEN "root"
                   ELSE IF t \in taskBased THEN "task" ELSE "value"]

F == INSTANCE Future WITH outcome <- outcomeSeen, error <- exc,
                          source <- sourceSeen, relation <- relationSeen

\* Tasks implement futures: one outcome, reached once, after that of the
\* ancestor or of the unwrapped task and determined by it where it must be.
ImplementsFuture == F!FutureSpec

\* A waiter released by _Complete() finds the task in a terminal state
\* (comment in _CancelAndRunContinuations: "this set must be done BEFORE").
SignaledIsDone == \A t \in signaled : Done(t)

\* No continuation stays in the list of a task that has run its list.
NoContinuationLost == \A t \in Tasks : finish[t] = "over" => Chained(t) = {}

\* A task created with a token already canceled is never run, and fails.
LateTaskFails ==
  \A t \in late : t \notin ran /\ state[t] \in {"pending", "canceled"}

\* A task whose handle is still on its way to the body or in it is not done:
\* the assertions on the state in _TransitionedToStarted,
\* _FinalizeAndRunContinuations and _CancelAndRunContinuations.
OneFinisher ==
  \A t \in Tasks : Exists(t) => (Done(t) <=> chore[t] = "gone")

\* Every task that is created releases its waiters.
EventuallySignaled == \A t \in Tasks : Exists(t) ~> t \in signaled

=============================================================================
