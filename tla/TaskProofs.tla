---------------------------- MODULE TaskProofs ----------------------------
(***************************************************************************)
(* Proofs about Task, for any sets of tasks and tokens.  The inductive      *)
(* invariant says, for each place of a task's handle, which states the task *)
(* may be in (PlaceShape), what is known of the task it depends on          *)
(* (SourceShape), and how far its completion is (FinishShape).  SourcesEnd  *)
(* is added for waiting: no task waits, however indirectly, for itself.    *)
(***************************************************************************)
EXTENDS Task, TLAPS

\* Places before the body, in the body, and after a body that returned a task.
BeforeBody == {"fresh", "chained", "due", "queued"}
InnerPlaces == {"returned", "innerChained", "innerDue", "innerQueued", "lost"}

PlaceShape ==
  \A t \in Tasks :
    /\ chore[t] = "none" <=> state[t] = "none"
    /\ chore[t] \in BeforeBody => state[t] \in {"created", "pending"}
    /\ chore[t] \in {"running"} \cup InnerPlaces => state[t] \in {"started", "pending"}
    /\ chore[t] = "gone" => Done(t)
    /\ chore[t] \in {"chained", "due"} => parent[t] # None
    /\ chore[t] \in InnerPlaces => unwrap[t] # None
    /\ unwrap[t] # None => chore[t] \in InnerPlaces \cup {"gone"}
    /\ exc[t] # None => state[t] = "canceled"
    /\ ~Exists(t) => parent[t] = None /\ t \notin taskBased /\ t \notin ran
    /\ t \in taskBased => parent[t] # None

SourceShape ==
  \A t \in Tasks :
    /\ parent[t] # None => Exists(parent[t]) /\ parent[t] # t
    /\ unwrap[t] # None => Exists(unwrap[t]) /\ unwrap[t] # t
    /\ parent[t] # None /\ chore[t] \notin {"fresh", "chained"} => Done(parent[t])
    /\ chore[t] \in {"innerDue", "innerQueued"} => Done(unwrap[t])
    /\ /\ parent[t] # None /\ t \notin taskBased
       /\ chore[t] \in {"queued", "running"} \cup InnerPlaces
       => state[parent[t]] = "completed"

FinishShape ==
  \A t \in Tasks :
    /\ finish[t] = "no" <=> ~Done(t)
    /\ t \in signaled => Done(t)
    /\ finish[t] = "over" =>
         \A c \in Tasks : /\ ~(chore[c] = "chained" /\ parent[c] = t)
                          /\ ~(chore[c] = "innerChained" /\ unwrap[c] = t)

LateShape ==
  \A t \in late : /\ t \notin ran
                  /\ chore[t] \in BeforeBody \cup {"gone"}
                  /\ state[t] \in {"pending", "canceled"}

IInv == TypeOK /\ PlaceShape /\ SourceShape /\ FinishShape /\ LateShape

\* IInv holds initially: no task exists.
LEMMA IInvInit == Init => IInv
  BY TaskAssumption
  DEF Init, IInv, TypeOK, TaskState, ChorePlace, PlaceShape, SourceShape,
      FinishShape, LateShape, Exists, Done, BeforeBody, InnerPlaces

\* Every step preserves IInv.
LEMMA IInvStep == IInv /\ [Next]_vars => IInv'
<1> SUFFICES ASSUME IInv, [Next]_vars
             PROVE  IInv'
  OBVIOUS
<1> USE TaskAssumption DEF IInv, TypeOK, TaskState, ChorePlace, links, tokens,
                           Exists, Done, BeforeBody, InnerPlaces
<1>1. ASSUME NEW t \in Tasks, Complete(t)
      PROVE  IInv'
  <2> USE <1>1 DEF Complete, Chained
  <2>1. TypeOK'
    OBVIOUS
  <2>2. PlaceShape'
    BY DEF PlaceShape
  <2>3. SourceShape'
    BY DEF PlaceShape, SourceShape
  <2>4. FinishShape'
    BY DEF PlaceShape, SourceShape, FinishShape
  <2>5. LateShape'
    BY DEF PlaceShape, LateShape
  <2> QED
    BY <2>1, <2>2, <2>3, <2>4, <2>5
<1>2. ASSUME NEW t \in Tasks, RunTaskContinuations(t)
      PROVE  IInv'
  <2> USE <1>2 DEF RunTaskContinuations, Chained
  <2>1. TypeOK'
    OBVIOUS
  <2>2. PlaceShape'
    BY DEF PlaceShape
  <2>3. SourceShape'
    BY DEF PlaceShape, SourceShape, FinishShape
  <2>4. FinishShape'
    BY DEF PlaceShape, SourceShape, FinishShape
  <2>5. LateShape'
    BY DEF PlaceShape, LateShape
  <2> QED
    BY <2>1, <2>2, <2>3, <2>4, <2>5
<1>3. ASSUME NEW t \in Tasks, ScheduleTask(t)
      PROVE  IInv'
  <2> USE <1>3 DEF ScheduleTask, MoveTo, Terminate
  <2>1. TypeOK'
    OBVIOUS
  <2>2. PlaceShape'
    BY DEF PlaceShape
  <2>3. SourceShape'
    BY DEF PlaceShape, SourceShape
  <2>4. FinishShape'
    BY DEF PlaceShape, SourceShape, FinishShape
  <2>5. LateShape'
    BY DEF PlaceShape, LateShape
  <2> QED
    BY <2>1, <2>2, <2>3, <2>4, <2>5
<1>4. ASSUME NEW t \in Tasks, ScheduleContinuation(t)
      PROVE  IInv'
  <2> USE <1>4 DEF ScheduleContinuation, MoveTo
  <2>1. TypeOK'
    OBVIOUS
  <2>2. PlaceShape'
    BY DEF PlaceShape
  <2>3. SourceShape'
    BY DEF PlaceShape, SourceShape
  <2>4. FinishShape'
    BY DEF PlaceShape, SourceShape, FinishShape
  <2>5. LateShape'
    BY DEF PlaceShape, LateShape
  <2> QED
    BY <2>1, <2>2, <2>3, <2>4, <2>5
<1>5. ASSUME NEW t \in Tasks, RunContinuation(t)
      PROVE  IInv'
  <2> USE <1>5 DEF RunContinuation, MoveTo, Terminate
  <2>1. TypeOK'
    BY DEF PlaceShape
  <2>2. PlaceShape'
    BY DEF PlaceShape
  <2>3. SourceShape'
    BY DEF PlaceShape, SourceShape
  <2>4. FinishShape'
    BY DEF PlaceShape, SourceShape, FinishShape
  <2>5. LateShape'
    BY DEF PlaceShape, LateShape
  <2> QED
    BY <2>1, <2>2, <2>3, <2>4, <2>5
<1>6. ASSUME NEW t \in Tasks, Start(t)
      PROVE  IInv'
  <2> USE <1>6 DEF Start, MoveTo
  <2>1. TypeOK'
    OBVIOUS
  <2>2. PlaceShape'
    BY DEF PlaceShape
  <2>3. SourceShape'
    BY DEF PlaceShape, SourceShape
  <2>4. FinishShape'
    BY DEF PlaceShape, SourceShape, FinishShape
  <2>5. LateShape'
    BY DEF PlaceShape, LateShape
  <2> QED
    BY <2>1, <2>2, <2>3, <2>4, <2>5
<1>7. ASSUME NEW t \in Tasks, StartCanceled(t)
      PROVE  IInv'
  <2> USE <1>7 DEF StartCanceled, MoveTo, Terminate
  <2>1. TypeOK'
    BY DEF PlaceShape
  <2>2. PlaceShape'
    BY DEF PlaceShape
  <2>3. SourceShape'
    BY DEF PlaceShape, SourceShape
  <2>4. FinishShape'
    BY DEF PlaceShape, SourceShape, FinishShape
  <2>5. LateShape'
    BY DEF PlaceShape, LateShape
  <2> QED
    BY <2>1, <2>2, <2>3, <2>4, <2>5
<1>8. ASSUME NEW t \in Tasks, BodyEnds(t)
      PROVE  IInv'
  <2> USE <1>8 DEF BodyEnds, MoveTo, Terminate
  <2>1. TypeOK'
    OBVIOUS
  <2>2. PlaceShape'
    BY DEF PlaceShape
  <2>3. SourceShape'
    BY DEF PlaceShape, SourceShape
  <2>4. FinishShape'
    BY DEF PlaceShape, SourceShape, FinishShape
  <2>5. LateShape'
    BY DEF PlaceShape, LateShape
  <2> QED
    BY <2>1, <2>2, <2>3, <2>4, <2>5
<1>9. ASSUME NEW t \in Tasks, NEW i \in Tasks, BodyReturnsTask(t, i)
      PROVE  IInv'
  <2> USE <1>9 DEF BodyReturnsTask, MoveTo, Independent
  <2>1. TypeOK'
    OBVIOUS
  <2>2. PlaceShape'
    BY DEF PlaceShape
  <2>3. SourceShape'
    BY DEF PlaceShape, SourceShape
  <2>4. FinishShape'
    BY DEF PlaceShape, SourceShape, FinishShape
  <2>5. LateShape'
    BY DEF PlaceShape, LateShape
  <2> QED
    BY <2>1, <2>2, <2>3, <2>4, <2>5
<1>10. ASSUME NEW t \in Tasks, AsyncInit(t)
      PROVE  IInv'
  <2> USE <1>10 DEF AsyncInit, MoveTo
  <2>1. TypeOK'
    OBVIOUS
  <2>2. PlaceShape'
    BY DEF PlaceShape
  <2>3. SourceShape'
    BY DEF PlaceShape, SourceShape
  <2>4. FinishShape'
    BY DEF PlaceShape, SourceShape, FinishShape
  <2>5. LateShape'
    BY DEF PlaceShape, LateShape
  <2> QED
    BY <2>1, <2>2, <2>3, <2>4, <2>5
<1>11. ASSUME NEW t \in Tasks, PostInner(t)
      PROVE  IInv'
  <2> USE <1>11 DEF PostInner, MoveTo
  <2>1. TypeOK'
    OBVIOUS
  <2>2. PlaceShape'
    BY DEF PlaceShape
  <2>3. SourceShape'
    BY DEF PlaceShape, SourceShape
  <2>4. FinishShape'
    BY DEF PlaceShape, SourceShape, FinishShape
  <2>5. LateShape'
    BY DEF PlaceShape, LateShape
  <2> QED
    BY <2>1, <2>2, <2>3, <2>4, <2>5
<1>12. ASSUME NEW t \in Tasks, RunInner(t)
      PROVE  IInv'
  <2> USE <1>12 DEF RunInner, MoveTo, Terminate
  <2>1. TypeOK'
    BY DEF PlaceShape, SourceShape
  <2>2. PlaceShape'
    BY DEF PlaceShape, SourceShape
  <2>3. SourceShape'
    BY DEF PlaceShape, SourceShape
  <2>4. FinishShape'
    BY DEF PlaceShape, SourceShape, FinishShape
  <2>5. LateShape'
    BY DEF PlaceShape, LateShape
  <2> QED
    BY <2>1, <2>2, <2>3, <2>4, <2>5
<1>13. ASSUME NEW t \in Tasks, NEW k \in Tokens \cup {None}, CreateTask(t, k)
      PROVE  IInv'
  <2> USE <1>13 DEF CreateTask, Create, MoveTo
  <2>1. TypeOK'
    OBVIOUS
  <2>2. PlaceShape'
    BY DEF PlaceShape
  <2>3. SourceShape'
    BY DEF PlaceShape, SourceShape
  <2>4. FinishShape'
    BY DEF PlaceShape, SourceShape, FinishShape
  <2>5. LateShape'
    BY DEF PlaceShape, LateShape
  <2> QED
    BY <2>1, <2>2, <2>3, <2>4, <2>5
<1>14. ASSUME NEW t \in Tasks, NEW k \in Tokens \cup {None}, NEW p \in Tasks, NEW tb \in BOOLEAN, Then(p, t, tb, k)
      PROVE  IInv'
  <2> USE <1>14 DEF Then, Create, MoveTo
  <2>1. TypeOK'
    OBVIOUS
  <2>2. PlaceShape'
    BY DEF PlaceShape
  <2>3. SourceShape'
    BY DEF PlaceShape, SourceShape
  <2>4. FinishShape'
    BY DEF PlaceShape, SourceShape, FinishShape
  <2>5. LateShape'
    BY DEF PlaceShape, LateShape
  <2> QED
    BY <2>1, <2>2, <2>3, <2>4, <2>5
<1>15. ASSUME NEW t \in Tasks, AsyncCancel(t)
      PROVE  IInv'
  <2> USE <1>15 DEF AsyncCancel
  <2>1. TypeOK'
    OBVIOUS
  <2>2. PlaceShape'
    BY DEF PlaceShape
  <2>3. SourceShape'
    BY DEF PlaceShape, SourceShape
  <2>4. FinishShape'
    BY DEF PlaceShape, SourceShape, FinishShape
  <2>5. LateShape'
    BY DEF PlaceShape, LateShape
  <2> QED
    BY <2>1, <2>2, <2>3, <2>4, <2>5
<1>16. ASSUME NEW k \in Tokens, CancelToken(k)
      PROVE  IInv'
  <2> USE <1>16 DEF CancelToken
  <2>1. TypeOK'
    OBVIOUS
  <2>2. PlaceShape'
    BY DEF PlaceShape
  <2>3. SourceShape'
    BY DEF PlaceShape, SourceShape
  <2>4. FinishShape'
    BY DEF PlaceShape, SourceShape, FinishShape
  <2>5. LateShape'
    BY DEF PlaceShape, LateShape
  <2> QED
    BY <2>1, <2>2, <2>3, <2>4, <2>5
<1>17. ASSUME UNCHANGED vars
      PROVE  IInv'
  BY <1>17 DEF vars, PlaceShape, SourceShape, FinishShape, LateShape
<1> QED
  BY <1>1, <1>2, <1>3, <1>4, <1>5, <1>6, <1>7, <1>8, <1>9, <1>10, <1>11, <1>12, <1>13, <1>14, <1>15, <1>16, <1>17
  DEF Next, Work, Client

\* The invariant of handles, states, dependencies and completions.
THEOREM TaskInvariant == Spec => []IInv
  BY IInvInit, IInvStep, PTL DEF Spec

\* Every variable stays in its type.
THEOREM TypeCorrect == Spec => []TypeOK
  BY TaskInvariant, PTL DEF IInv

\* A released waiter finds a terminal state.
THEOREM WaitersSeeOutcome == Spec => []SignaledIsDone
<1>1. IInv => SignaledIsDone
  BY DEF IInv, TypeOK, FinishShape, SignaledIsDone
<1> QED
  BY <1>1, TaskInvariant, PTL

\* No continuation is left behind by the walk over the list.
THEOREM ContinuationsRun == Spec => []NoContinuationLost
<1>1. IInv => NoContinuationLost
  BY DEF IInv, FinishShape, NoContinuationLost, Chained
<1> QED
  BY <1>1, TaskInvariant, PTL

\* A task created with a canceled token never runs.
THEOREM LateTasksFail == Spec => []LateTaskFails
<1>1. IInv => LateTaskFails
  BY DEF IInv, LateShape, LateTaskFails
<1> QED
  BY <1>1, TaskInvariant, PTL

\* Exactly the handles of tasks that are done have been deleted.
THEOREM FinishedOnce == Spec => []OneFinisher
<1>1. IInv => OneFinisher
  BY DEF IInv, TypeOK, ChorePlace, PlaceShape, OneFinisher, Exists, Done,
         BeforeBody, InnerPlaces
<1> QED
  BY <1>1, TaskInvariant, PTL


----------------------------------------------------------------------------
(* Task implements Future *)

\* The initial state maps to Future's.
LEMMA FutureInit == Init => F!FutureInit
  BY TaskAssumption
  DEF Init, F!FutureInit, outcomeSeen, sourceSeen, relationSeen, Exists

\* A step that gives a task its outcome is a Resolve step of Future.
LEMMA TerminateResolves ==
  ASSUME IInv, NEW t \in Tasks, NEW s \in {"completed", "canceled"},
         NEW e \in Tasks \cup {None},
         Exists(t), ~Done(t),
         state' = [state EXCEPT ![t] = s], exc' = [exc EXCEPT ![t] = e],
         UNCHANGED links,
         F!Ready(t),
         F!MayBecome(t, IF s = "completed" THEN "value" ELSE "failed", e)
  PROVE  F!FutureNext
<1> DEFINE o == IF s = "completed" THEN "value" ELSE "failed"
<1> USE DEF IInv, TypeOK, TaskState, links, Exists, Done
<1>1. outcomeSeen[t] = "open"
  BY DEF outcomeSeen
<1>2. outcomeSeen' = [outcomeSeen EXCEPT ![t] = o]
  BY DEF outcomeSeen
<1>3. UNCHANGED <<sourceSeen, relationSeen>>
  BY DEF sourceSeen, relationSeen
<1>4. F!Resolve(t, o, e)
  BY <1>1, <1>2, <1>3 DEF F!Resolve
<1> QED
  BY <1>1, <1>4 DEF F!FutureNext

\* A step that changes no task's outcome and no dependency is a stutter.
LEMMA Stutters ==
  ASSUME IInv, IInv', UNCHANGED <<exc, parent, unwrap, taskBased>>,
         \A t \in Tasks : \/ state'[t] = state[t]
                         \/ {state[t], state'[t]} \subseteq
                                {"created", "started", "pending"}
  PROVE  UNCHANGED F!futureVars
<1>1. outcomeSeen' = outcomeSeen
  BY DEF outcomeSeen, Exists
<1>2. UNCHANGED <<sourceSeen, relationSeen>>
  BY DEF sourceSeen, relationSeen
<1> QED
  BY <1>1, <1>2 DEF F!futureVars

\* Creating a task is a New step of Future.
LEMMA CreateIsNew ==
  ASSUME IInv, NEW t \in Tasks, NEW p \in Tasks \cup {None},
         NEW tb \in BOOLEAN, NEW k,
         Create(t, p, tb, k), p # t, p # None => Exists(p), p = None => ~tb
  PROVE  F!FutureNext
<1> USE TaskAssumption DEF IInv, TypeOK, Create
<1> DEFINE r == IF p = None THEN "root" ELSE IF tb THEN "task" ELSE "value"
<1>1. outcomeSeen[t] = "none" /\ (p # None => outcomeSeen[p] # "none")
  BY DEF outcomeSeen, Exists
<1>2. outcomeSeen' = [outcomeSeen EXCEPT ![t] = "open"]
  BY DEF outcomeSeen, Exists, TaskState
<1>3. unwrap[t] = None /\ t \notin taskBased
  BY DEF PlaceShape, Exists, InnerPlaces
<1>4. sourceSeen' = [sourceSeen EXCEPT ![t] = p]
  BY <1>3 DEF sourceSeen
<1>5. relationSeen' = [relationSeen EXCEPT ![t] = r]
  BY <1>3 DEF relationSeen
<1>6. F!New(t, p, r)
  BY <1>1, <1>2, <1>4, <1>5 DEF F!New
<1> QED
  BY <1>1, <1>6 DEF F!FutureNext

\* Every step of the tasks is a step of Future or a stutter.
LEMMA FutureStep == IInv /\ [Next]_vars => [F!FutureNext]_F!futureVars
<1> SUFFICES ASSUME IInv, [Next]_vars
             PROVE  F!FutureNext \/ UNCHANGED F!futureVars
  OBVIOUS
<1>0. IInv'
  BY IInvStep
<1> DEFINE Goal == F!FutureNext \/ UNCHANGED F!futureVars
<1> USE TaskAssumption
<1>1. ASSUME NEW t \in Tasks,
             \/ Complete(t) \/ RunTaskContinuations(t)
             \/ ScheduleContinuation(t) \/ Start(t) \/ AsyncInit(t)
             \/ PostInner(t) \/ AsyncCancel(t)
      PROVE  Goal
  <2>1. UNCHANGED <<exc, parent, unwrap, taskBased>>
    BY <1>1 DEF Complete, RunTaskContinuations, ScheduleContinuation, Start,
                AsyncInit, PostInner, AsyncCancel, links
  <2>2. CASE Start(t)
    <3>1. state[t] \in {"created", "pending"}
      BY <2>2 DEF Start, IInv, PlaceShape, BeforeBody
    <3>2. state' = [state EXCEPT ![t] = "started"]
      BY <2>2 DEF Start
    <3> QED
      BY <3>1, <3>2, <2>1, <1>0, Stutters DEF IInv, TypeOK
  <2>3. CASE AsyncCancel(t)
    <3>1. state' = [state EXCEPT ![t] = IF Done(t) THEN @ ELSE "pending"]
          /\ state[t] # "none"
      BY <2>3 DEF AsyncCancel, Exists
    <3> QED
      BY <3>1, <2>1, <1>0, Stutters DEF IInv, TypeOK, TaskState, Done
  <2>4. CASE UNCHANGED state
    BY <2>4, <2>1, <1>0, Stutters
  <2> QED
    BY <1>1, <2>2, <2>3, <2>4
    DEF Complete, RunTaskContinuations, ScheduleContinuation, AsyncInit,
        PostInner
<1>2. ASSUME NEW t \in Tasks, NEW k \in Tokens \cup {None},
             \/ CreateTask(t, k)
             \/ \E p \in Tasks, tb \in BOOLEAN : Then(p, t, tb, k)
      PROVE  Goal
  BY <1>2, CreateIsNew DEF CreateTask, Then
<1>3. ASSUME NEW t \in Tasks, NEW i \in Tasks, BodyReturnsTask(t, i)
      PROVE  Goal
  <2> USE <1>3 DEF BodyReturnsTask, MoveTo, IInv, TypeOK
  <2>0. i # t /\ unwrap[t] = None /\ Exists(t) /\ ~Done(t)
    BY DEF Independent, PlaceShape, Exists, Done, InnerPlaces
  <2>1. outcomeSeen' = outcomeSeen /\ outcomeSeen[t] = "open"
        /\ outcomeSeen[i] # "none"
    BY <2>0 DEF outcomeSeen, Exists, Done
  <2>2. sourceSeen' = [sourceSeen EXCEPT ![t] = i]
    BY DEF sourceSeen
  <2>3. relationSeen' = [relationSeen EXCEPT ![t] = "inner"]
    BY DEF relationSeen
  <2>4. relationSeen[t] # "inner" /\ sourceSeen[t] = parent[t]
    BY <2>0 DEF relationSeen, sourceSeen
  <2>5. F!Ready(t) /\ (relationSeen[t] = "value" =>
                        outcomeSeen[sourceSeen[t]] = "value")
    BY <2>0, <2>4 DEF F!Ready, F!Resolved, SourceShape, outcomeSeen,
                      relationSeen, Exists, Done
  <2>6. F!Adopt(t, i)
    BY <2>0, <2>1, <2>2, <2>3, <2>4, <2>5 DEF F!Adopt
  <2> QED
    BY <2>1, <2>5, <2>6 DEF F!FutureNext
<1>4. ASSUME NEW t \in Tasks, ScheduleTask(t)
      PROVE  Goal
  <2>1. CASE UNCHANGED state
    BY <2>1, <1>4, <1>0, Stutters DEF ScheduleTask, Terminate, links, Done, IInv, TypeOK
  <2>2. CASE ~UNCHANGED state
    <3>1. /\ ~Done(t) /\ Exists(t) /\ UNCHANGED links
          /\ state' = [state EXCEPT ![t] = "canceled"]
          /\ exc' = [exc EXCEPT ![t] = t]
      BY <1>4, <2>2 DEF ScheduleTask, Terminate, MoveTo, IInv, PlaceShape, Exists
    <3>2. unwrap[t] = None /\ parent[t] = None
      BY <1>4 DEF ScheduleTask, IInv, PlaceShape, InnerPlaces
    <3>3. F!Ready(t) /\ F!MayBecome(t, "failed", t)
      BY <3>2 DEF F!Ready, F!MayBecome, sourceSeen, relationSeen
    <3> QED
      BY <3>1, <3>3, TerminateResolves
  <2> QED
    BY <2>1, <2>2
<1>5. ASSUME NEW t \in Tasks, RunContinuation(t)
      PROVE  Goal
  <2> USE <1>5 DEF RunContinuation
  <2>0. /\ unwrap[t] = None /\ parent[t] \in Tasks /\ Done(parent[t])
        /\ Exists(t) /\ ~Done(t) /\ UNCHANGED links
    BY DEF IInv, TypeOK, PlaceShape, SourceShape, InnerPlaces, BeforeBody,
           Exists, Done
  <2>1. sourceSeen[t] = parent[t] /\ F!Ready(t)
    BY <2>0 DEF F!Ready, F!Resolved, sourceSeen, outcomeSeen, Exists, Done
  <2>2. CASE state[parent[t]] = "canceled" /\ t \notin taskBased
    <3>1. /\ state' = [state EXCEPT ![t] = "canceled"]
          /\ exc' = [exc EXCEPT ![t] = exc[parent[t]]]
          /\ exc[parent[t]] \in Tasks \cup {None}
      BY <2>0, <2>2 DEF Terminate, IInv, TypeOK
    <3>2. relationSeen[t] = "value" /\ outcomeSeen[parent[t]] = "failed"
      BY <2>0, <2>2 DEF relationSeen, outcomeSeen, Exists
    <3>3. F!MayBecome(t, "failed", exc[parent[t]])
      BY <2>1, <3>2 DEF F!MayBecome
    <3> QED
      BY <2>0, <2>1, <3>1, <3>3, TerminateResolves
  <2>3. CASE ~(state[parent[t]] = "canceled" /\ t \notin taskBased)
    <3>1. CASE UNCHANGED <<state, exc>>
      BY <3>1, <2>0, <1>0, Stutters DEF links
    <3>2. CASE Terminate(t, "canceled", t)
      <4>1. /\ state' = [state EXCEPT ![t] = "canceled"]
            /\ exc' = [exc EXCEPT ![t] = t]
        BY <2>0, <3>2 DEF Terminate
      <4>2. relationSeen[t] \in {"value", "task"}
            /\ (relationSeen[t] = "value" => outcomeSeen[parent[t]] = "value")
        BY <2>0, <2>3 DEF relationSeen, outcomeSeen, Exists, Done
      <4>3. F!MayBecome(t, "failed", t)
        BY <2>1, <4>2 DEF F!MayBecome
      <4> QED
        BY <2>0, <2>1, <4>1, <4>3, TerminateResolves
    <3> QED
      BY <2>3, <3>1, <3>2
  <2> QED
    BY <2>2, <2>3
<1>6. ASSUME NEW t \in Tasks, StartCanceled(t)
      PROVE  Goal
  <2> USE <1>6 DEF StartCanceled
  <2> DEFINE e == IF parent[t] = None THEN None ELSE exc[parent[t]]
  <2>0. /\ unwrap[t] = None
        /\ parent[t] # None => parent[t] \in Tasks /\ Done(parent[t])
        /\ Exists(t) /\ ~Done(t) /\ UNCHANGED links
    BY DEF IInv, TypeOK, PlaceShape, SourceShape, InnerPlaces, BeforeBody,
           Exists, Done
  <2>1. sourceSeen[t] = parent[t] /\ F!Ready(t)
    BY <2>0 DEF F!Ready, F!Resolved, sourceSeen, outcomeSeen, Exists, Done
  <2>2. /\ state' = [state EXCEPT ![t] = "canceled"]
        /\ exc' = [exc EXCEPT ![t] = e]
        /\ e \in Tasks \cup {None}
    BY <2>0 DEF Terminate, IInv, TypeOK
  <2>3. relationSeen[t] = "value" =>
          parent[t] # None /\ state[parent[t]] = "completed" /\ e = None
    BY <2>0 DEF relationSeen, IInv, TypeOK, SourceShape, PlaceShape
  <2>4. F!MayBecome(t, "failed", e)
    <3>1. CASE relationSeen[t] = "value"
      BY <2>0, <2>1, <2>3, <3>1 DEF F!MayBecome, outcomeSeen, Exists
    <3>2. CASE relationSeen[t] = "root"
      BY <2>0, <2>1, <3>2 DEF F!MayBecome, relationSeen
    <3>3. CASE relationSeen[t] = "task"
      BY <2>0, <2>1, <3>3 DEF F!MayBecome, relationSeen
    <3> QED
      BY <2>0, <3>1, <3>2, <3>3 DEF relationSeen
  <2> QED
    BY <2>0, <2>1, <2>2, <2>4, TerminateResolves
<1>7. ASSUME NEW t \in Tasks, BodyEnds(t)
      PROVE  Goal
  <2> USE <1>7 DEF BodyEnds
  <2>0. /\ unwrap[t] = None
        /\ parent[t] # None => parent[t] \in Tasks /\ Done(parent[t])
        /\ Exists(t) /\ ~Done(t) /\ UNCHANGED links
    BY DEF IInv, TypeOK, PlaceShape, SourceShape, InnerPlaces, BeforeBody,
           Exists, Done
  <2>1. sourceSeen[t] = parent[t] /\ F!Ready(t)
    BY <2>0 DEF F!Ready, F!Resolved, sourceSeen, outcomeSeen, Exists, Done
  <2>2. relationSeen[t] # "inner"
        /\ (relationSeen[t] = "value" => outcomeSeen[parent[t]] = "value")
    BY <2>0 DEF relationSeen, outcomeSeen, Exists, IInv, SourceShape
  <2>3. F!MayBecome(t, "value", None) /\ F!MayBecome(t, "failed", None)
        /\ F!MayBecome(t, "failed", t)
    BY <2>1, <2>2 DEF F!MayBecome
  <2>4. \/ Terminate(t, "completed", None)
        \/ Terminate(t, "canceled", None)
        \/ Terminate(t, "canceled", t)
    OBVIOUS
  <2>5. CASE Terminate(t, "completed", None)
    BY <2>0, <2>1, <2>3, <2>5, TerminateResolves DEF Terminate
  <2>6. CASE Terminate(t, "canceled", None)
    BY <2>0, <2>1, <2>3, <2>6, TerminateResolves DEF Terminate
  <2>7. CASE Terminate(t, "canceled", t)
    BY <2>0, <2>1, <2>3, <2>7, TerminateResolves DEF Terminate
  <2> QED
    BY <2>4, <2>5, <2>6, <2>7
<1>8. ASSUME NEW t \in Tasks, RunInner(t)
      PROVE  Goal
  <2> USE <1>8 DEF RunInner
  <2>0. /\ unwrap[t] \in Tasks /\ Done(unwrap[t])
        /\ Exists(t) /\ ~Done(t) /\ UNCHANGED links
    BY DEF IInv, TypeOK, PlaceShape, SourceShape, InnerPlaces, BeforeBody,
           Exists, Done
  <2>1. sourceSeen[t] = unwrap[t] /\ F!Ready(t)
    BY <2>0, TaskAssumption
    DEF F!Ready, F!Resolved, sourceSeen, outcomeSeen, Exists, Done
  <2>2. /\ state' = [state EXCEPT ![t] = state[unwrap[t]]]
        /\ exc' = [exc EXCEPT ![t] = exc[unwrap[t]]]
        /\ exc[unwrap[t]] \in Tasks \cup {None}
        /\ state[unwrap[t]] \in {"completed", "canceled"}
    BY <2>0 DEF Terminate, IInv, TypeOK, Done
  <2>3. F!MayBecome(t, IF state[unwrap[t]] = "completed" THEN "value"
                                                         ELSE "failed",
                    exc[unwrap[t]])
    BY <2>0, <2>1 DEF F!MayBecome, relationSeen, outcomeSeen, Exists, Done
  <2> QED
    BY <2>0, <2>1, <2>2, <2>3, TerminateResolves
<1>9. ASSUME NEW k \in Tokens, CancelToken(k)
      PROVE  Goal
  BY <1>9, <1>0, Stutters DEF CancelToken, links
<1>10. CASE UNCHANGED vars
  BY <1>10, <1>0, Stutters DEF vars
<1> QED
  BY <1>1, <1>2, <1>3, <1>4, <1>5, <1>6, <1>7, <1>8, <1>9, <1>10
  DEF Next, Work, Client

\* Tasks implement futures: each gets one outcome, once, consistent with that
\* of the task it depends on.
THEOREM TasksAreFutures == Spec => ImplementsFuture
<1>1. IInv /\ [Next]_vars => [F!FutureNext]_F!futureVars
  BY FutureStep
<1> QED
  BY <1>1, FutureInit, TaskInvariant, PTL DEF Spec, ImplementsFuture, F!FutureSpec

----------------------------------------------------------------------------
(* Waiting *)

\* No circle of tasks depends on one another, for lack of a first in it.
SourcesEnd ==
  \A S \in SUBSET Tasks : S # {} =>
    \E t \in S : parent[t] \notin S /\ unwrap[t] \notin S

WaitInv == IInv /\ SourcesEnd

\* Of tasks whose handles wait in the lists of others, at least one waits for a
\* task that is not among them and whose list is still to be run: then() and
\* unwrapping cannot build a circle of _M_Continuations lists, and no handle gets
\* into a list that nobody will take.
WaitsEnd ==
  \A S \in SUBSET Tasks :
    S # {} /\ (\A t \in S : chore[t] \in {"chained", "innerChained"}) =>
      \E t \in S, p \in Tasks \ S : t \in Chained(p) /\ finish[p] # "over"

\* The new task is nobody's ancestor.
LEMMA CreateKeepsOrder ==
  ASSUME WaitInv, NEW t \in Tasks, NEW k, NEW p \in Tasks \cup {None}, NEW tb,
         Create(t, p, tb, k), p # t
  PROVE  SourcesEnd'
<1> SUFFICES ASSUME NEW S \in SUBSET Tasks, S # {}
             PROVE  \E s \in S : parent'[s] \notin S /\ unwrap'[s] \notin S
  BY DEF SourcesEnd
<1>1. /\ parent \in [Tasks -> Tasks \cup {None}] /\ unwrap \in [Tasks -> Tasks \cup {None}]
      /\ ~Exists(t)
      /\ parent' = [parent EXCEPT ![t] = p] /\ unwrap' = unwrap
  BY DEF WaitInv, IInv, TypeOK, Create
<1>2. \A s \in Tasks : parent[s] # t /\ unwrap[s] # t
  BY <1>1, TaskAssumption DEF WaitInv, IInv, SourceShape
<1>3. unwrap[t] = None
  BY <1>1 DEF WaitInv, IInv, PlaceShape, Exists, InnerPlaces
<1>4. CASE S = {t}
  BY <1>1, <1>3, <1>4, TaskAssumption
<1>5. CASE S # {t}
  <2>1. S \ {t} \in SUBSET Tasks /\ S \ {t} # {}
    BY <1>5
  <2>2. PICK s \in S \ {t} : parent[s] \notin S \ {t} /\ unwrap[s] \notin S \ {t}
    BY <2>1 DEF WaitInv, SourcesEnd
  <2> QED
    BY <1>1, <1>2, <2>2
<1> QED
  BY <1>4, <1>5

\* The task that a body returns does not wait for the one that returns it.
LEMMA UnwrapKeepsOrder ==
  ASSUME WaitInv, NEW t \in Tasks, NEW i \in Tasks, BodyReturnsTask(t, i)
  PROVE  SourcesEnd'
<1> SUFFICES ASSUME NEW S \in SUBSET Tasks, S # {}
             PROVE  \E s \in S : parent'[s] \notin S /\ unwrap'[s] \notin S
  BY DEF SourcesEnd
<1>1. /\ unwrap \in [Tasks -> Tasks \cup {None}]
      /\ unwrap' = [unwrap EXCEPT ![t] = i] /\ parent' = parent
  BY DEF WaitInv, IInv, TypeOK, BodyReturnsTask
<1>2. PICK D \in SUBSET Tasks :
        /\ i \in D /\ t \notin D
        /\ \A s \in D : {parent[s], unwrap[s]} \subseteq D \cup {None}
  BY DEF BodyReturnsTask, Independent
<1>3. CASE S \cap D # {}
  <2>1. PICK s \in S \cap D : parent[s] \notin S \cap D /\ unwrap[s] \notin S \cap D
    BY <1>3 DEF WaitInv, SourcesEnd
  <2> QED
    BY <1>1, <1>2, <2>1, TaskAssumption
<1>4. CASE S \cap D = {}
  <2>1. PICK s \in S : parent[s] \notin S /\ unwrap[s] \notin S
    BY DEF WaitInv, SourcesEnd
  <2> QED
    BY <1>1, <1>2, <1>4, <2>1
<1> QED
  BY <1>3, <1>4

\* Every step preserves WaitInv.
LEMMA WaitInvStep == WaitInv /\ [Next]_vars => WaitInv'
<1> SUFFICES ASSUME WaitInv, [Next]_vars
             PROVE  SourcesEnd'
  BY IInvStep DEF WaitInv
<1>1. CASE UNCHANGED <<parent, unwrap>>
  BY <1>1 DEF WaitInv, SourcesEnd
<1>2. ASSUME NEW t \in Tasks, Work(t)
      PROVE  SourcesEnd'
  <2>1. CASE \E i \in Tasks : BodyReturnsTask(t, i)
    BY <2>1, UnwrapKeepsOrder
  <2>2. CASE ~\E i \in Tasks : BodyReturnsTask(t, i)
    <3>1. UNCHANGED <<parent, unwrap>>
      BY <1>2, <2>2
      DEF Work, links, Complete, RunTaskContinuations, ScheduleTask, ScheduleContinuation,
          RunContinuation, Start, StartCanceled, BodyEnds, AsyncInit, PostInner, RunInner
    <3> QED
      BY <1>1, <3>1
  <2> QED
    BY <2>1, <2>2
<1>3. ASSUME NEW t \in Tasks, Client(t)
      PROVE  SourcesEnd'
  <2>1. ASSUME NEW k \in Tokens \cup {None}, CreateTask(t, k)
        PROVE  SourcesEnd'
    BY <2>1, CreateKeepsOrder, TaskAssumption DEF CreateTask
  <2>2. ASSUME NEW k \in Tokens \cup {None}, NEW p \in Tasks, NEW tb \in BOOLEAN, Then(p, t, tb, k)
        PROVE  SourcesEnd'
    BY <2>2, CreateKeepsOrder DEF Then
  <2>3. CASE AsyncCancel(t)
    BY <1>1, <2>3 DEF AsyncCancel, links
  <2> QED
    BY <1>3, <2>1, <2>2, <2>3 DEF Client
<1>4. ASSUME NEW k \in Tokens, CancelToken(k)
      PROVE  SourcesEnd'
  BY <1>1, <1>4 DEF CancelToken, links
<1>5. CASE UNCHANGED vars
  BY <1>1, <1>5 DEF vars
<1> QED
  BY <1>2, <1>3, <1>4, <1>5 DEF Next

\* Tasks do not deadlock on one another, however many there are, as long as no body
\* returns a task that waits for it.
THEOREM TasksDoNotDeadlock == Spec => []WaitsEnd
<1>1. Init => WaitInv
  <2> SUFFICES ASSUME Init
               PROVE  SourcesEnd
    BY IInvInit DEF WaitInv
  <2> QED
    BY TaskAssumption DEF Init, SourcesEnd
<1>2. WaitInv => WaitsEnd
  <2> SUFFICES ASSUME WaitInv, NEW S \in SUBSET Tasks, S # {},
                      \A t \in S : chore[t] \in {"chained", "innerChained"}
               PROVE  \E t \in S, p \in Tasks \ S : t \in Chained(p) /\ finish[p] # "over"
    BY DEF WaitsEnd
  <2>1. PICK t \in S : parent[t] \notin S /\ unwrap[t] \notin S
    BY DEF WaitInv, SourcesEnd
  <2>2. PICK p \in Tasks : t \in Chained(p)
    <3>1. TypeOK /\ PlaceShape
      BY DEF WaitInv, IInv
    <3> QED
      BY <3>1, TaskAssumption DEF TypeOK, PlaceShape, InnerPlaces, Chained
  <2>3. p \notin S
    BY <2>1, <2>2 DEF Chained
  <2>4. finish[p] # "over"
    BY <2>2 DEF WaitInv, IInv, FinishShape, Chained
  <2> QED
    BY <2>2, <2>3, <2>4
<1> QED
  BY <1>1, <1>2, WaitInvStep, PTL DEF Spec

=============================================================================
