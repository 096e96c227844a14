---------------------------- MODULE EventProofs ----------------------------
(***************************************************************************)
(* Proofs about TaskCompletionEvent, and about Combinators, which uses one. *)
(*                                                                         *)
(* Of the event, types are correct whatever is called.  The other theorems  *)
(* are for calls of set() that do not overlap calls of set_exception()      *)
(* (~Mixed).  Of their invariant, OwnerShape says that one thread at most   *)
(* triggers the event, HolderShape that the exception is stored once and    *)
(* never beside a value, OutcomeShape what the tasks end with, and          *)
(* ListShape where the tasks that are not done are.                         *)
(*                                                                         *)
(* Of the combinators, for any number of antecedents, BlockShape relates    *)
(* the count of the shared block to where the continuations are: one of     *)
(* them at most is past the count and still in the block, and only when all *)
(* are counted.  AllShape adds what when_all does to the event and when: it *)
(* cancels it before a thread is counted, and sets it after all are.  For   *)
(* when_any, whose calls of the event do overlap, ToldShape, TakenShape and *)
(* EndShape say what each call may still find and what the task ends with,  *)
(* LastShape that somebody is left to complete it.                          *)
(***************************************************************************)
EXTENDS Combinators, FiniteSetTheorems, TLAPS

Owner(t) == pc[t] \in {"setEach", "cancelRead", "cancelEach"} \/ t \in won

OwnerShape ==
  /\ \A t, u \in Threads : Owner(t) /\ Owner(u) => t = u
  /\ \A t \in Threads : Owner(t) => Triggered
  /\ \A t \in Threads : pc[t] = "setEach" => hasValue
  /\ \A t \in Threads : pc[t] \in {"cancelRead", "cancelEach"} => isCanceled
  /\ \A t \in Threads : t \in won => pc[t] = "over"
  /\ ~(hasValue /\ isCanceled)

HolderShape ==
  /\ \A t, u \in Threads : ~(Setting(t) /\ Canceling(u))
  /\ \A t \in Threads : pc[t] \in {"cancel", "cancelLock"} => ~hasValue
  /\ hasValue => holder = None
  /\ holder # None /\ ~isCanceled =>
       \E t \in Threads : pc[t] \in {"cancel", "cancelLock"}
  /\ \A t \in Threads : pc[t] = "cancelEach" => (userExc[t] <=> holder # None)

OutcomeShape ==
  \A x \in Tasks :
    /\ texc[x] # None => texc[x] = holder /\ tstate[x] = "canceled"
    /\ tstate[x] = "completed" => hasValue
    /\ Done(x) /\ texc[x] = None => holder = None
    /\ Done(x) /\ alive => Triggered \/ holder # None

ListShape ==
  /\ \A t \in Threads : todo[t] # {} =>
       pc[t] \in {"setEach", "cancelRead", "cancelEach"}
  /\ \A x \in Tasks : x \in tasks => tstate[x] # "none"
  /\ \A t \in Threads : \A x \in todo[t] : tstate[x] # "none"
  /\ \A x \in Tasks : tstate[x] \in {"created", "pending"} =>
       x \in tasks \/ \E t \in Threads : x \in todo[t]
  /\ hasValue \/ (isCanceled /\ holder # None) => tasks = {}

IInv == TypeOK /\ OwnerShape /\ HolderShape /\ OutcomeShape /\ ListShape

\* IInv holds initially.
LEMMA IInvInit == Init => IInv
  BY EventAssumption
  DEF Init, IInv, TypeOK, Place, OwnerShape, Owner, HolderShape, OutcomeShape,
      ListShape, Setting, Canceling, Done, Triggered

\* Every step preserves the types.
LEMMA TypeStep == TypeOK /\ [Next]_vars => TypeOK'
<1> SUFFICES ASSUME TypeOK, [Next]_vars
             PROVE  TypeOK'
  OBVIOUS
<1> USE DEF TypeOK, Place, eventVars, threadVars, taskVars
<1>1. ASSUME NEW t \in Threads, Step(t)
      PROVE  TypeOK'
  <2>1. CASE SetLocked(t) \/ SetReturn(t)
    BY <2>1 DEF SetLocked, SetReturn, Return, Goto
  <2>2. CASE CancelTest(t) \/ CancelLocked(t) \/ CancelRead(t) \/ CancelReturn(t)
    BY <2>2 DEF CancelTest, CancelLocked, CancelRead, CancelReturn, Return, Goto
  <2>3. CASE \E x \in Tasks : SetEach(t, x) \/ CancelEach(t, x)
    BY <2>3 DEF SetEach, CancelEach, CancelOne, FinalizeOne
  <2> QED
    BY <1>1, <2>1, <2>2, <2>3 DEF Step
<1>2. ASSUME NEW t \in Threads, Call(t)
      PROVE  TypeOK'
  BY <1>2 DEF Call, SetBegin, StoreException, CancelBegin, Return, Goto
<1>3. ASSUME NEW x \in Tasks,
             AsyncCancel(x) \/ \E s \in {"created", "pending"} : RegisterTask(x, s)
      PROVE  TypeOK'
  BY <1>3 DEF AsyncCancel, RegisterTask
<1>4. CASE Destroy
  BY <1>4 DEF Destroy, Destroyed
<1>5. CASE UNCHANGED vars
  BY <1>5 DEF vars
<1> QED
  BY <1>1, <1>2, <1>3, <1>4, <1>5 DEF Next

\* Every step preserves IInv.
LEMMA IInvStep ==
  ASSUME ~Mixed
  PROVE  IInv /\ [Next]_vars => IInv'
<1> SUFFICES ASSUME IInv, [Next]_vars
             PROVE  IInv'
  OBVIOUS
<1> USE EventAssumption
    DEF IInv, TypeOK, Place, eventVars, threadVars, taskVars
<1>1. ASSUME NEW t \in Threads, SetLocked(t)
      PROVE  IInv'
  <2> USE <1>1 DEF SetLocked, Return, Goto, Triggered
  <2>1. TypeOK'
    OBVIOUS
  <2>2. OwnerShape'
    BY DEF OwnerShape, Owner, HolderShape, Setting, Canceling
  <2>3. HolderShape'
    BY DEF OwnerShape, Owner, HolderShape, Setting, Canceling
  <2>4. OutcomeShape'
    BY DEF OwnerShape, Owner, HolderShape, OutcomeShape, ListShape, Setting, Canceling, Done
  <2>5. ListShape'
    BY DEF OwnerShape, Owner, HolderShape, OutcomeShape, ListShape, Setting, Canceling, Done
  <2> QED
    BY <2>1, <2>2, <2>3, <2>4, <2>5
<1>2. ASSUME NEW t \in Threads, SetReturn(t)
      PROVE  IInv'
  <2> USE <1>2 DEF SetReturn, Return, Goto
  <2>1. TypeOK'
    OBVIOUS
  <2>2. OwnerShape'
    BY DEF OwnerShape, Owner, HolderShape, Setting, Canceling, Triggered
  <2>3. HolderShape'
    BY DEF OwnerShape, Owner, HolderShape, Setting, Canceling, Triggered
  <2>4. OutcomeShape'
    BY DEF OwnerShape, Owner, HolderShape, OutcomeShape, ListShape, Setting, Canceling, Done, Triggered
  <2>5. ListShape'
    BY DEF OwnerShape, Owner, HolderShape, OutcomeShape, ListShape, Setting, Canceling, Done, Triggered
  <2> QED
    BY <2>1, <2>2, <2>3, <2>4, <2>5
<1>3. ASSUME NEW t \in Threads, CancelTest(t)
      PROVE  IInv'
  <2> USE <1>3 DEF CancelTest, Return, Goto
  <2>1. TypeOK'
    OBVIOUS
  <2>2. OwnerShape'
    BY DEF OwnerShape, Owner, HolderShape, Setting, Canceling, Triggered
  <2>3. HolderShape'
    BY DEF OwnerShape, Owner, HolderShape, Setting, Canceling, Triggered
  <2>4. OutcomeShape'
    BY DEF OwnerShape, Owner, HolderShape, OutcomeShape, ListShape, Setting, Canceling, Done, Triggered
  <2>5. ListShape'
    BY DEF OwnerShape, Owner, HolderShape, OutcomeShape, ListShape, Setting, Canceling, Done, Triggered
  <2> QED
    BY <2>1, <2>2, <2>3, <2>4, <2>5
<1>4. ASSUME NEW t \in Threads, CancelLocked(t)
      PROVE  IInv'
  <2> USE <1>4 DEF CancelLocked, Return, Goto
  <2>1. TypeOK'
    OBVIOUS
  <2>2. OwnerShape'
    BY DEF OwnerShape, Owner, HolderShape, Setting, Canceling, Triggered
  <2>3. HolderShape'
    BY DEF OwnerShape, Owner, HolderShape, Setting, Canceling, Triggered
  <2>4. OutcomeShape'
    BY DEF OwnerShape, Owner, HolderShape, OutcomeShape, ListShape, Setting, Canceling, Done, Triggered
  <2>5. ListShape'
    BY DEF OwnerShape, Owner, HolderShape, OutcomeShape, ListShape, Setting, Canceling, Done, Triggered
  <2> QED
    BY <2>1, <2>2, <2>3, <2>4, <2>5
<1>5. ASSUME NEW t \in Threads, CancelRead(t)
      PROVE  IInv'
  <2> USE <1>5 DEF CancelRead, Goto
  <2>1. TypeOK'
    OBVIOUS
  <2>2. OwnerShape'
    BY DEF OwnerShape, Owner, HolderShape, Setting, Canceling, Triggered
  <2>3. HolderShape'
    BY DEF OwnerShape, Owner, HolderShape, Setting, Canceling, Triggered
  <2>4. OutcomeShape'
    BY DEF OwnerShape, Owner, HolderShape, OutcomeShape, ListShape, Setting, Canceling, Done, Triggered
  <2>5. ListShape'
    BY DEF OwnerShape, Owner, HolderShape, OutcomeShape, ListShape, Setting, Canceling, Done, Triggered
  <2> QED
    BY <2>1, <2>2, <2>3, <2>4, <2>5
<1>6. ASSUME NEW t \in Threads, CancelReturn(t)
      PROVE  IInv'
  <2> USE <1>6 DEF CancelReturn, Return, Goto
  <2>1. TypeOK'
    OBVIOUS
  <2>2. OwnerShape'
    BY DEF OwnerShape, Owner, HolderShape, Setting, Canceling, Triggered
  <2>3. HolderShape'
    BY DEF OwnerShape, Owner, HolderShape, Setting, Canceling, Triggered
  <2>4. OutcomeShape'
    BY DEF OwnerShape, Owner, HolderShape, OutcomeShape, ListShape, Setting, Canceling, Done, Triggered
  <2>5. ListShape'
    BY DEF OwnerShape, Owner, HolderShape, OutcomeShape, ListShape, Setting, Canceling, Done, Triggered
  <2> QED
    BY <2>1, <2>2, <2>3, <2>4, <2>5
<1>7. ASSUME NEW t \in Threads, NEW x \in Tasks, SetEach(t, x)
      PROVE  IInv'
  <2> USE <1>7 DEF SetEach, CancelOne, FinalizeOne, Done
  <2>1. TypeOK'
    OBVIOUS
  <2>2. OwnerShape'
    BY DEF OwnerShape, Owner, HolderShape, Setting, Canceling, Triggered
  <2>3. HolderShape'
    BY DEF OwnerShape, Owner, HolderShape, Setting, Canceling, Triggered
  <2>4. OutcomeShape'
    BY DEF OwnerShape, Owner, HolderShape, OutcomeShape, ListShape, Setting, Canceling, Triggered
  <2>5. ListShape'
    BY DEF OwnerShape, Owner, HolderShape, OutcomeShape, ListShape, Setting, Canceling, Triggered
  <2> QED
    BY <2>1, <2>2, <2>3, <2>4, <2>5
<1>8. ASSUME NEW t \in Threads, NEW x \in Tasks, CancelEach(t, x)
      PROVE  IInv'
  <2> USE <1>8 DEF CancelEach, CancelOne, Done
  <2>1. TypeOK'
    OBVIOUS
  <2>2. OwnerShape'
    BY DEF OwnerShape, Owner, HolderShape, Setting, Canceling, Triggered
  <2>3. HolderShape'
    BY DEF OwnerShape, Owner, HolderShape, Setting, Canceling, Triggered
  <2>4. OutcomeShape'
    BY DEF OwnerShape, Owner, HolderShape, OutcomeShape, ListShape, Setting, Canceling, Triggered
  <2>5. ListShape'
    BY DEF OwnerShape, Owner, HolderShape, OutcomeShape, ListShape, Setting, Canceling, Triggered
  <2> QED
    BY <2>1, <2>2, <2>3, <2>4, <2>5
<1>9. ASSUME NEW t \in Threads, SetBegin(t)
      PROVE  IInv'
  <2> USE <1>9 DEF SetBegin, Return, Goto, Triggered, Canceling
  <2>1. TypeOK'
    OBVIOUS
  <2>2. OwnerShape'
    BY DEF OwnerShape, Owner, HolderShape, Setting
  <2>3. HolderShape'
    BY DEF OwnerShape, Owner, HolderShape, Setting
  <2>4. OutcomeShape'
    BY DEF OwnerShape, Owner, HolderShape, OutcomeShape, ListShape, Setting, Done
  <2>5. ListShape'
    BY DEF OwnerShape, Owner, HolderShape, OutcomeShape, ListShape, Setting, Done
  <2> QED
    BY <2>1, <2>2, <2>3, <2>4, <2>5
<1>10. ASSUME NEW t \in Threads, StoreException(t)
      PROVE  IInv'
  <2> USE <1>10 DEF StoreException, Return, Goto, Triggered, Setting
  <2>1. TypeOK'
    OBVIOUS
  <2>2. OwnerShape'
    BY DEF OwnerShape, Owner, HolderShape, Canceling
  <2>3. HolderShape'
    BY DEF OwnerShape, Owner, HolderShape, Canceling
  <2>4. OutcomeShape'
    BY DEF OwnerShape, Owner, HolderShape, OutcomeShape, ListShape, Canceling, Done
  <2>5. ListShape'
    BY DEF OwnerShape, Owner, HolderShape, OutcomeShape, ListShape, Canceling, Done
  <2> QED
    BY <2>1, <2>2, <2>3, <2>4, <2>5
<1>11. ASSUME NEW t \in Threads, CancelBegin(t)
      PROVE  IInv'
  <2> USE <1>11 DEF CancelBegin, Goto, Setting
  <2>1. TypeOK'
    OBVIOUS
  <2>2. OwnerShape'
    BY DEF OwnerShape, Owner, HolderShape, Canceling, Triggered
  <2>3. HolderShape'
    BY DEF OwnerShape, Owner, HolderShape, Canceling, Triggered
  <2>4. OutcomeShape'
    BY DEF OwnerShape, Owner, HolderShape, OutcomeShape, ListShape, Canceling, Done, Triggered
  <2>5. ListShape'
    BY DEF OwnerShape, Owner, HolderShape, OutcomeShape, ListShape, Canceling, Done, Triggered
  <2> QED
    BY <2>1, <2>2, <2>3, <2>4, <2>5
<1>12. ASSUME NEW x \in Tasks, NEW s \in {"created", "pending"}, RegisterTask(x, s)
      PROVE  IInv'
  <2> USE <1>12 DEF RegisterTask
  <2>1. TypeOK'
    OBVIOUS
  <2>2. OwnerShape'
    BY DEF OwnerShape, Owner, HolderShape, Setting, Canceling, Triggered
  <2>3. HolderShape'
    BY DEF OwnerShape, Owner, HolderShape, Setting, Canceling, Triggered
  <2>4. OutcomeShape'
    BY DEF OwnerShape, Owner, HolderShape, OutcomeShape, ListShape, Setting, Canceling, Done, Triggered
  <2>5. ListShape'
    BY DEF OwnerShape, Owner, HolderShape, OutcomeShape, ListShape, Setting, Canceling, Done, Triggered
  <2> QED
    BY <2>1, <2>2, <2>3, <2>4, <2>5
<1>13. ASSUME NEW x \in Tasks, AsyncCancel(x)
      PROVE  IInv'
  <2> USE <1>13 DEF AsyncCancel
  <2>1. TypeOK'
    OBVIOUS
  <2>2. OwnerShape'
    BY DEF OwnerShape, Owner, HolderShape, Setting, Canceling, Triggered
  <2>3. HolderShape'
    BY DEF OwnerShape, Owner, HolderShape, Setting, Canceling, Triggered
  <2>4. OutcomeShape'
    BY DEF OwnerShape, Owner, HolderShape, OutcomeShape, ListShape, Setting, Canceling, Done, Triggered
  <2>5. ListShape'
    BY DEF OwnerShape, Owner, HolderShape, OutcomeShape, ListShape, Setting, Canceling, Done, Triggered
  <2> QED
    BY <2>1, <2>2, <2>3, <2>4, <2>5
<1>14. ASSUME Destroy
      PROVE  IInv'
  <2> USE <1>14 DEF Destroy, Destroyed, Done
  <2>1. TypeOK'
    OBVIOUS
  <2>2. OwnerShape'
    BY DEF OwnerShape, Owner, HolderShape, Setting, Canceling, Triggered
  <2>3. HolderShape'
    BY DEF OwnerShape, Owner, HolderShape, Setting, Canceling, Triggered
  <2>4. OutcomeShape'
    BY DEF OwnerShape, Owner, HolderShape, OutcomeShape, ListShape, Setting, Canceling, Triggered
  <2>5. ListShape'
    BY DEF OwnerShape, Owner, HolderShape, OutcomeShape, ListShape, Setting, Canceling, Triggered
  <2> QED
    BY <2>1, <2>2, <2>3, <2>4, <2>5
<1>15. CASE UNCHANGED vars
  BY <1>15 DEF vars, OwnerShape, Owner, HolderShape, OutcomeShape, ListShape,
             Setting, Canceling, Done, Triggered
<1> QED
  BY <1>1, <1>2, <1>3, <1>4, <1>5, <1>6, <1>7, <1>8, <1>9, <1>10, <1>11, <1>12, <1>13, <1>14, <1>15
  DEF Next, Step, Call

\* The invariant of the event, its callers and its tasks.
THEOREM EventInvariant == ~Mixed => (Spec => []IInv)
<1> SUFFICES ASSUME ~Mixed
             PROVE  Spec => []IInv
  OBVIOUS
<1>1. IInv /\ [Next]_vars => IInv'
  BY IInvStep
<1> QED
  BY IInvInit, <1>1, PTL DEF Spec

\* Every variable stays in its type.
THEOREM TypeCorrect == Spec => []TypeOK
<1>1. Init => TypeOK
  BY IInvInit DEF IInv
<1> QED
  BY <1>1, TypeStep, PTL DEF Spec

\* One call at most triggers the event.
THEOREM FirstCallWins == ~Mixed => (Spec => []OneWinner)
<1>1. IInv => OneWinner
  <2> SUFFICES ASSUME IInv
               PROVE  Cardinality(won) <= 1
    BY DEF OneWinner
  <2>1. CASE won = {}
    BY <2>1, FS_EmptySet
  <2>2. CASE won # {}
    <3>1. PICK t \in won : TRUE
      BY <2>2
    <3>2. won = {t}
      BY <3>1 DEF IInv, TypeOK, OwnerShape, Owner
    <3> QED
      BY <3>2, FS_Singleton
  <2> QED
    BY <2>1, <2>2
<1> QED
  BY <1>1, EventInvariant, PTL

\* Tasks of one event agree on their outcome.
THEOREM AllTasksAgree == ~Mixed => (Spec => []TasksAgree)
<1>1. IInv => TasksAgree
  BY DEF IInv, HolderShape, OutcomeShape, TasksAgree
<1> QED
  BY <1>1, EventInvariant, PTL

\* The call that returned true decided the outcome of every task.
THEOREM OutcomeIsWinners == ~Mixed => (Spec => []WinnerDecides)
<1>1. IInv => WinnerDecides
  BY DEF IInv, HolderShape, OutcomeShape, WinnerDecides, Done
<1> QED
  BY <1>1, EventInvariant, PTL

\* _CancelInternal is not entered once the event has a value.
THEOREM SetIsNotCanceled == ~Mixed => (Spec => []NotCanceledWhenSet)
<1>1. IInv => NotCanceledWhenSet
  BY DEF IInv, HolderShape, NotCanceledWhenSet
<1> QED
  BY <1>1, EventInvariant, PTL

\* No task stays registered with an event that set or set_exception triggered.
THEOREM NoTaskForgotten == ~Mixed => (Spec => []NoneForgotten)
<1>1. IInv => NoneForgotten
  BY DEF IInv, ListShape, NoneForgotten, Decided
<1> QED
  BY <1>1, EventInvariant, PTL

----------------------------------------------------------------------------
(* The combinators *)

Counted == {t \in Threads : stage[t] \in {"last", "deleting", "gone"}}
InBlock(t) == stage[t] \in {"last", "deleting"}

StageOK ==
  /\ use \in {"client", "all", "any"}
  /\ stage \in [Threads -> {"antecedent", "reporting", "last", "deleting", "gone"}]
  /\ fate \in [Threads -> Fate]
  /\ pc \in [Threads -> Place]

BlockShape ==
  /\ count = Cardinality(Counted)
  /\ \A t \in Threads : InBlock(t) => Counted = Threads /\ alive
  /\ \A t, u \in Threads : InBlock(t) /\ InBlock(u) => t = u
  /\ ~alive => \A t \in Threads : stage[t] = "gone"
  /\ \A t \in Threads : ~Outside(t) => stage[t] \in {"reporting", "deleting"}

AllShape ==
  /\ \A t \in Threads : Setting(t) => stage[t] = "deleting"
  /\ \A t \in Threads : Canceling(t) => stage[t] = "reporting"
  /\ hasValue => Counted = Threads

BInv ==
  /\ StageOK
  /\ use # "client" => BlockShape
  /\ use = "all" => AllShape

\* A step of a thread inside a method of the event changes the place of no other
\* thread, and the thread is setting or canceling only if it was.
LEMMA StepFrame ==
  ASSUME NEW t \in Threads, pc \in [Threads -> Place], E!Step(t)
  PROVE  /\ ~Outside(t)
         /\ \A u \in Threads \ {t} : pc'[u] = pc[u]
         /\ pc' \in [Threads -> Place]
         /\ alive' = alive
         /\ Setting(t)' => Setting(t)
         /\ Canceling(t)' => Canceling(t)
         /\ hasValue' => hasValue \/ Setting(t)
<1> USE DEF Place, Outside, Setting, Canceling, eventVars, threadVars, taskVars,
            E!Return, E!Goto, E!eventVars, E!threadVars, E!taskVars
<1>1. CASE E!SetLocked(t)
  BY <1>1 DEF E!SetLocked
<1>2. CASE E!SetReturn(t)
  BY <1>2 DEF E!SetReturn
<1>3. CASE E!CancelTest(t) \/ E!CancelLocked(t)
  BY <1>3 DEF E!CancelTest, E!CancelLocked
<1>4. CASE E!CancelRead(t) \/ E!CancelReturn(t)
  BY <1>4 DEF E!CancelRead, E!CancelReturn
<1>5. CASE \E x \in Tasks : E!SetEach(t, x) \/ E!CancelEach(t, x)
  BY <1>5 DEF E!SetEach, E!CancelEach
<1> QED
  BY <1>1, <1>2, <1>3, <1>4, <1>5 DEF E!Step

\* So the block keeps its shape.
LEMMA StepKeeps ==
  ASSUME NEW t \in Threads, BInv, use # "client", E!Step(t), UNCHANGED blockVars
  PROVE  BInv'
<1> USE DEF blockVars
<1>1. pc \in [Threads -> Place]
  BY DEF BInv, StageOK
<1>2. /\ ~Outside(t)
      /\ \A u \in Threads \ {t} : pc'[u] = pc[u]
      /\ pc' \in [Threads -> Place]
      /\ alive' = alive
      /\ Setting(t)' => Setting(t)
      /\ Canceling(t)' => Canceling(t)
      /\ hasValue' => hasValue \/ Setting(t)
  BY <1>1, StepFrame
<1>3. StageOK'
  BY <1>2 DEF BInv, StageOK
<1>4. BlockShape'
  BY <1>2 DEF BInv, BlockShape, Counted, InBlock, Outside
<1>5. ASSUME use = "all"
      PROVE  AllShape'
  <2>1. \A u \in Threads : (Setting(u)' => Setting(u)) /\ (Canceling(u)' => Canceling(u))
    BY <1>2 DEF Setting, Canceling
  <2>2. Counted' = Counted
    BY DEF Counted
  <2>3. Setting(t) => Counted = Threads
    BY <1>5 DEF BInv, AllShape, BlockShape, InBlock
  <2> QED
    BY <1>2, <1>5, <2>1, <2>2, <2>3 DEF BInv, AllShape
<1> QED
  BY <1>3, <1>4, <1>5 DEF BInv

\* A continuation reports: nobody was past the count, and it is not yet counted.
LEMMA ReportKeeps ==
  ASSUME NEW t \in Threads, BInv, ReportAll(t) \/ ReportAny(t)
  PROVE  BInv'
<1> USE DEF At, Stage
<1>1. /\ use # "client" /\ UNCHANGED <<use, fate, count, asked>>
      /\ stage[t] = "antecedent" /\ stage' = [stage EXCEPT ![t] = "reporting"]
  BY DEF ReportAll, ReportAny
<1>2. /\ pc' \in [Threads -> Place]
      /\ \A u \in Threads \ {t} : pc'[u] = pc[u]
      /\ alive' = alive /\ hasValue' = hasValue
  <2>1. pc \in [Threads -> Place]
    BY DEF BInv, StageOK
  <2> QED
    BY <2>1 DEF ReportAll, ReportAny, vars, E!StoreException, E!CancelBegin, E!SetBegin,
       E!Return, E!Goto, eventVars, threadVars, taskVars, E!eventVars, Place
<1>3. ASSUME use = "all"
      PROVE  (Setting(t)' => Setting(t))
    BY <1>3, <1>1 DEF BInv, StageOK, ReportAll, ReportAny, vars, E!StoreException, E!CancelBegin,
       E!Return, E!Goto, threadVars, Setting
<1>4. StageOK'
  BY <1>1, <1>2 DEF BInv, StageOK
<1>5. Counted' = Counted
  BY <1>1 DEF BInv, StageOK, Counted
<1>6. BlockShape'
  <2>1. stage[t] # "gone" /\ t \notin Counted /\ \A u \in Threads : ~InBlock(u)
    BY <1>1 DEF BInv, BlockShape, Counted, InBlock
  <2>2. \A u \in Threads : ~InBlock(u)'
    BY <1>1, <2>1 DEF BInv, StageOK, InBlock
  <2>3. alive
    BY <1>1, <2>1 DEF BInv, BlockShape
  <2>4. \A u \in Threads : Outside(u)' \/ stage'[u] \in {"reporting", "deleting"}
    BY <1>1, <1>2 DEF BInv, StageOK, BlockShape, Outside
  <2> QED
    BY <1>1, <1>2, <1>5, <2>2, <2>3, <2>4 DEF BInv, BlockShape
<1>7. ASSUME use = "all"
      PROVE  AllShape'
  <2>1. ~Setting(t)
    BY <1>1, <1>7 DEF BInv, AllShape
  <2> QED
    BY <1>1, <1>2, <1>3, <1>5, <1>7, <2>1 DEF BInv, StageOK, AllShape, Setting, Canceling
<1> QED
  BY <1>1, <1>4, <1>6, <1>7 DEF BInv

\* A continuation is counted: all are if the count says so, and then it alone is
\* in the block.
LEMMA CountKeeps ==
  ASSUME NEW t \in Threads, BInv, Count(t)
  PROVE  BInv'
<1> USE DEF At, Stage
<1> DEFINE all == count' = Cardinality(Threads)
<1>1. /\ use # "client" /\ UNCHANGED <<vars, use, fate, asked>>
      /\ stage[t] = "reporting" /\ Outside(t) /\ count' = count + 1
      /\ stage' = [stage EXCEPT ![t] = IF all THEN "last" ELSE "gone"]
  BY DEF Count
<1>2. StageOK'
  BY <1>1 DEF BInv, StageOK, vars, threadVars
<1>3. t \notin Counted /\ Counted' = Counted \cup {t} /\ Counted' \subseteq Threads
  BY <1>1 DEF BInv, StageOK, Counted
<1>4. count' = Cardinality(Counted')
  <2>1. IsFiniteSet(Counted)
    BY CombAssumption, FS_Subset DEF Counted
  <2> QED
    BY <1>1, <1>3, <2>1, FS_AddElement DEF BInv, BlockShape
<1>5. all <=> Counted' = Threads
  BY <1>3, <1>4, CombAssumption, FS_Subset
<1>6. \A u \in Threads : ~InBlock(u)
  BY <1>1, <1>3 DEF BInv, BlockShape
<1>7. alive
  BY <1>1 DEF BInv, BlockShape
<1>8. UNCHANGED <<alive, hasValue, pc>>
  BY <1>1 DEF vars, eventVars, threadVars
<1>9. BlockShape'
  <2>1. \A u \in Threads : InBlock(u)' => u = t /\ all
    BY <1>1, <1>6 DEF BInv, StageOK, InBlock
  <2>2. \A u \in Threads : Outside(u)' \/ stage'[u] \in {"reporting", "deleting"}
    BY <1>1, <1>8 DEF BInv, StageOK, BlockShape, Outside
  <2> QED
    BY <1>4, <1>5, <1>7, <1>8, <2>1, <2>2 DEF BlockShape
<1>10. ASSUME use = "all"
       PROVE  AllShape'
  <2>1. \A u \in Threads : stage'[u] = stage[u] \/ u = t
    BY <1>1 DEF BInv, StageOK
  <2>2. ~Setting(t) /\ ~Canceling(t)
    BY <1>1 DEF Outside, Setting, Canceling
  <2>3. hasValue => Counted' = Threads
    BY <1>3, <1>10 DEF BInv, AllShape
  <2> QED
    BY <1>8, <1>10, <2>1, <2>2, <2>3 DEF BInv, AllShape, Setting, Canceling
<1> QED
  BY <1>1, <1>2, <1>9, <1>10 DEF BInv

\* The last continuation calls the event: all are counted.
LEMMA LastKeeps ==
  ASSUME NEW t \in Threads, BInv, Last(t)
  PROVE  BInv'
<1> USE DEF At, Stage
<1>1. /\ use # "client" /\ UNCHANGED <<use, fate, count, asked>>
      /\ stage[t] = "last" /\ stage' = [stage EXCEPT ![t] = "deleting"]
  BY DEF Last
<1>2. /\ pc' \in [Threads -> Place]
      /\ \A u \in Threads \ {t} : pc'[u] = pc[u]
      /\ alive' = alive /\ hasValue' = hasValue
  <2>1. pc \in [Threads -> Place]
    BY DEF BInv, StageOK
  <2> QED
    BY <2>1 DEF Last, vars, E!CancelBegin, E!SetBegin,
       E!Return, E!Goto, eventVars, threadVars, taskVars, E!eventVars, Place
<1>3. ASSUME use = "all"
      PROVE  Canceling(t)' => Canceling(t)
  BY <1>1, <1>3 DEF BInv, StageOK, Last, vars, E!SetBegin, E!Return, E!Goto, threadVars,
     Canceling
<1>4. StageOK'
  BY <1>1, <1>2 DEF BInv, StageOK
<1>5. Counted' = Counted /\ Counted = Threads
  BY <1>1 DEF BInv, StageOK, BlockShape, InBlock, Counted
<1>6. BlockShape'
  <2>1. \A u \in Threads : InBlock(u)' <=> InBlock(u)
    BY <1>1 DEF BInv, StageOK, InBlock
  <2>2. alive
    BY <1>1 DEF BInv, BlockShape, InBlock
  <2>3. \A u \in Threads : Outside(u)' \/ stage'[u] \in {"reporting", "deleting"}
    BY <1>1, <1>2 DEF BInv, StageOK, BlockShape, Outside
  <2> QED
    BY <1>1, <1>2, <1>5, <2>1, <2>2, <2>3 DEF BInv, BlockShape
<1>7. ASSUME use = "all"
      PROVE  AllShape'
  <2>1. ~Canceling(t)
    BY <1>1, <1>7 DEF BInv, AllShape
  <2>2. \A u \in Threads : stage'[u] = IF u = t THEN "deleting" ELSE stage[u]
    BY <1>1 DEF BInv, StageOK
  <2>3. \A u \in Threads \ {t} : (Setting(u)' <=> Setting(u)) /\ (Canceling(u)' <=> Canceling(u))
    BY <1>2 DEF Setting, Canceling
  <2> QED
    BY <1>3, <1>5, <1>7, <2>1, <2>2, <2>3 DEF BInv, AllShape
<1> QED
  BY <1>1, <1>4, <1>6, <1>7 DEF BInv

\* The block is deleted: everybody else is gone.
LEMMA DeleteKeeps ==
  ASSUME NEW t \in Threads, BInv, Delete(t)
  PROVE  BInv'
<1> USE DEF At, Stage
<1>1. /\ use # "client" /\ UNCHANGED <<use, fate, count, asked, pc, hasValue>>
      /\ stage[t] = "deleting" /\ stage' = [stage EXCEPT ![t] = "gone"]
      /\ Outside(t)
  BY DEF Delete, Destroyed, threadVars
<1>2. Counted' = Counted /\ Counted = Threads
  BY <1>1 DEF BInv, StageOK, BlockShape, InBlock, Counted
<1>3. \A u \in Threads : stage'[u] = "gone"
  BY <1>1, <1>2 DEF BInv, StageOK, BlockShape, InBlock, Counted
<1>4. StageOK'
  BY <1>1 DEF BInv, StageOK
<1>5. BlockShape'
  <2>1. \A u \in Threads : Outside(u)'
    BY <1>1, <1>2 DEF BInv, BlockShape, InBlock, Counted, Outside
  <2> QED
    BY <1>1, <1>2, <1>3, <2>1 DEF BInv, BlockShape, InBlock
<1>6. ASSUME use = "all"
      PROVE  AllShape'
  BY <1>1, <1>2, <1>6 DEF BInv, StageOK, AllShape, Setting, Canceling, Outside
<1> QED
  BY <1>1, <1>4, <1>5, <1>6 DEF BInv

\* BInv holds initially.
LEMMA BInvInit == CombInit => BInv
<1> SUFFICES ASSUME CombInit
             PROVE  BInv
  OBVIOUS
<1>1. StageOK
  BY DEF CombInit, StageOK, Init, Prepared, Place, Fate
<1>2. ASSUME use # "client"
      PROVE  BlockShape /\ AllShape
  <2>1. Prepared /\ stage = [t \in Threads |-> "antecedent"] /\ count = 0
    BY <1>2 DEF CombInit
  <2>2. Counted = {}
    BY <2>1 DEF Counted
  <2>3. count = Cardinality(Counted)
    BY <2>1, <2>2, FS_EmptySet
  <2> QED
    BY <2>1, <2>3 DEF BlockShape, AllShape, InBlock, Outside, Prepared, Setting, Canceling
<1> QED
  BY <1>1, <1>2 DEF BInv

\* Every step preserves BInv.
LEMMA BInvStep == BInv /\ [CombNext]_combVars => BInv'
<1> SUFFICES ASSUME BInv, [CombNext]_combVars
             PROVE  BInv'
  OBVIOUS
<1>1. CASE use = "client" /\ Next /\ UNCHANGED blockVars
  <2>1. pc' \in [Threads -> Place]
    BY <1>1 DEF BInv, StageOK, Place, Next, Step, Call, SetLocked, SetReturn, CancelTest,
       CancelLocked, CancelRead, CancelReturn, SetEach, CancelEach, SetBegin, StoreException,
       CancelBegin, RegisterTask, AsyncCancel, Destroy, Destroyed, Return, Goto, eventVars,
       threadVars
  <2> QED
    BY <1>1, <2>1 DEF BInv, StageOK, blockVars
<1>2. ASSUME NEW t \in Threads, ReportAll(t) \/ ReportAny(t)
      PROVE  BInv'
  BY <1>2, ReportKeeps
<1>3. ASSUME NEW t \in Threads, Count(t)
      PROVE  BInv'
  BY <1>3, CountKeeps
<1>4. ASSUME NEW t \in Threads, Last(t)
      PROVE  BInv'
  BY <1>4, LastKeeps
<1>5. ASSUME NEW t \in Threads, Delete(t)
      PROVE  BInv'
  BY <1>5, DeleteKeeps
<1>6. ASSUME NEW t \in Threads, use # "client", E!Step(t), UNCHANGED blockVars
      PROVE  BInv'
  BY <1>6, StepKeeps
<1>7. CASE AskCancel
  BY <1>7 DEF AskCancel, E!AsyncCancel, E!eventVars, E!threadVars, BInv, StageOK, BlockShape,
     AllShape, Counted, InBlock, Outside, Setting, Canceling
<1>8. CASE UNCHANGED combVars
  BY <1>8 DEF combVars, vars, blockVars, eventVars, threadVars, BInv, StageOK, BlockShape,
     AllShape, Counted, InBlock, Outside, Setting, Canceling
<1> QED
  BY <1>1, <1>2, <1>3, <1>4, <1>5, <1>6, <1>7, <1>8 DEF CombNext

\* The invariant of the block, for when_all and when_any.
THEOREM BlockInvariant == CombSpec => []BInv
  BY BInvInit, BInvStep, PTL DEF CombSpec

\* The block is deleted when no continuation is in it or in its event
\* (_WhenAllContinuationWrapper, _WhenAnyContinuationWrapper).
THEOREM BlockSafelyDeleted == CombSpec => []BlockOutlivesUse
<1>1. BInv => BlockOutlivesUse
  BY DEF BInv, BlockShape, BlockOutlivesUse
<1> QED
  BY <1>1, BlockInvariant, PTL

\* The steps inside a method do not depend on what overlaps what.
LEMMA SameStep ==
  ASSUME NEW t \in Threads, E!Step(t)
  PROVE  Step(t)
  BY DEF E!Step, Step, E!SetLocked, SetLocked, E!SetReturn, SetReturn, E!CancelTest,
     CancelTest, E!CancelLocked, CancelLocked, E!CancelRead, CancelRead, E!CancelReturn,
     CancelReturn, E!SetEach, SetEach, E!CancelEach, CancelEach, E!Triggered, Triggered,
     E!Return, Return, E!Goto, Goto, E!CancelOne, CancelOne, E!FinalizeOne, FinalizeOne,
     E!Done, Done, E!taskVars, taskVars, E!eventVars, eventVars

\* A step of when_all is a step of the event whose set() does not overlap its
\* set_exception().
LEMMA AllStepsWell ==
  BInv /\ [CombNext]_combVars => (use = "all" => [Next]_vars)
<1> SUFFICES ASSUME BInv, [CombNext]_combVars, use = "all"
             PROVE  [Next]_vars
  OBVIOUS
<1> USE DEF At, Stage
<1>1. ASSUME NEW t \in Threads, ReportAll(t)
      PROVE  [Next]_vars
  <2>1. ~hasValue /\ \A u \in Threads : ~Setting(u)
    <3>1. t \notin Counted
      BY <1>1 DEF ReportAll, Counted
    <3> QED
      BY <3>1 DEF BInv, BlockShape, AllShape, InBlock
  <2>2. E!StoreException(t) => StoreException(t)
    BY <2>1 DEF E!StoreException, StoreException, E!Triggered, Triggered, E!Return, Return,
       E!Goto, Goto, E!taskVars, taskVars
  <2>3. E!CancelBegin(t) => CancelBegin(t)
    BY <2>1 DEF E!CancelBegin, CancelBegin, E!Goto, Goto, E!taskVars, taskVars, E!eventVars,
       eventVars
  <2> QED
    BY <1>1, <2>2, <2>3 DEF ReportAll, Next, Call
<1>2. ASSUME NEW t \in Threads, Last(t)
      PROVE  [Next]_vars
  <2>1. \A u \in Threads : ~Canceling(u)
    BY <1>2 DEF Last, BInv, BlockShape, AllShape, InBlock, Counted
  <2>2. E!SetBegin(t) => SetBegin(t)
    BY <2>1 DEF E!SetBegin, SetBegin, E!Triggered, Triggered, E!Return, Return,
       E!Goto, Goto, E!taskVars, taskVars, E!eventVars, eventVars
  <2> QED
    BY <1>2, <2>2 DEF Last, Next, Call
<1>3. ASSUME NEW t \in Threads, Delete(t)
      PROVE  [Next]_vars
  <2>1. alive /\ \A u \in Threads : pc[u] \in {"idle", "over"}
    BY <1>3 DEF Delete, BInv, BlockShape, InBlock, Counted, Outside
  <2> QED
    BY <1>3, <2>1 DEF Delete, Next, Destroy
<1>4. ASSUME NEW t \in Threads, E!Step(t)
      PROVE  [Next]_vars
  BY <1>4, SameStep DEF Next
<1>5. CASE AskCancel
  <2>1. Returned \in Tasks
    BY CombAssumption DEF Returned
  <2>2. AsyncCancel(Returned)
    BY <1>5 DEF AskCancel, E!AsyncCancel, AsyncCancel, E!eventVars, eventVars, E!threadVars,
       threadVars
  <2> QED
    BY <2>1, <2>2 DEF Next
<1>6. CASE UNCHANGED vars
  BY <1>6
<1> QED
  BY <1>1, <1>2, <1>3, <1>4, <1>5, <1>6 DEF CombNext, ReportAny, Count, combVars

\* when_all calls its event only in ways for which the theorems about the event
\* hold.
THEOREM WhenAllUsesEventWell == CombSpec => AllUsesEventWell
  BY BlockInvariant, AllStepsWell, PTL DEF CombSpec, AllUsesEventWell

----------------------------------------------------------------------------
(* The outcome of when_all *)

AllValues == \A t \in Threads : fate[t] = "value"

\* Who tells the event what, and what that leaves in it.
ReportShape ==
  /\ \A t \in Threads : Canceling(t) => fate[t] # "value"
  /\ \A t \in Threads : Canceling(t) /\ fate[t] = "exception" => holder # None
  /\ \A t \in Threads : stage[t] # "antecedent" /\ fate[t] = "exception" =>
       isCanceled \/ holder # None
  /\ \A t \in Threads : stage[t] # "antecedent" /\ fate[t] = "canceled" =>
       isCanceled \/ pc[t] \in {"cancel", "cancelLock"}
  /\ \A t \in Threads : holder = t /\ t # None => fate[t] = "exception"
  /\ isCanceled /\ (\A t \in Threads : fate[t] # "canceled") => holder # None

\* What becomes of the value and of the task returned.
ValueShape ==
  /\ hasValue => AllValues
  /\ AllValues => ~isCanceled /\ holder = None
  /\ \A t \in Threads : AllValues /\ stage[t] = "deleting" /\ Outside(t) => hasValue
  /\ ~alive => tasks = {}
  /\ ~alive /\ AllValues => hasValue
  /\ tstate[Returned] # "none"
  /\ ~asked => tstate[Returned] # "pending"
  /\ ~asked /\ AllValues => tstate[Returned] # "canceled"

OInv == BInv /\ (use = "all" => IInv /\ ReportShape /\ ValueShape)

\* OInv holds initially.
LEMMA OInvInit == CombInit => OInv
<1> SUFFICES ASSUME CombInit
             PROVE  OInv
  OBVIOUS
<1>1. BInv
  BY BInvInit
<1>2. ASSUME use = "all"
      PROVE  IInv /\ ReportShape /\ ValueShape
  <2>1. Prepared /\ stage = [t \in Threads |-> "antecedent"] /\ asked = FALSE
    BY <1>2 DEF CombInit
  <2>2. Returned \in Tasks
    BY CombAssumption DEF Returned
  <2>3. IInv
    BY <2>1, <2>2, EventAssumption
    DEF Prepared, IInv, TypeOK, Place, OwnerShape, Owner, HolderShape, OutcomeShape,
        ListShape, Setting, Canceling, Done, Triggered
  <2>4. ReportShape
    BY <2>1 DEF Prepared, ReportShape, Canceling
  <2>5. ValueShape
    BY <2>1, <2>2 DEF Prepared, ValueShape
  <2> QED
    BY <2>3, <2>4, <2>5
<1> QED
  BY <1>1, <1>2 DEF OInv

\* A continuation reports.
LEMMA ReportOutcome ==
  ASSUME NEW t \in Threads, OInv, use = "all", ReportAll(t)
  PROVE  ReportShape' /\ ValueShape'
<1> USE EventAssumption DEF At, Stage
<1>1. /\ UNCHANGED <<fate, asked, alive, tasks, hasValue, isCanceled, tstate>>
      /\ stage[t] = "antecedent" /\ stage' = [stage EXCEPT ![t] = "reporting"]
  BY DEF ReportAll, vars, eventVars, taskVars, E!StoreException, E!CancelBegin, E!taskVars,
     E!eventVars
<1>2. stage \in [Threads -> {"antecedent", "reporting", "last", "deleting", "gone"}]
  BY DEF OInv, BInv, StageOK
<1>3. pc \in [Threads -> Place] /\ fate \in [Threads -> Fate]
  BY DEF OInv, BInv, StageOK
<1>4. ~hasValue /\ Outside(t)
  BY <1>1 DEF OInv, BInv, BlockShape, AllShape, Counted
<1>5. ReportShape /\ ValueShape
  BY DEF OInv
<1>6. CASE fate[t] = "value"
  <2>1. UNCHANGED <<pc, holder>>
    BY <1>6 DEF ReportAll, vars, eventVars, threadVars
  <2>2. ReportShape'
    BY <1>1, <1>2, <1>5, <1>6, <2>1 DEF ReportShape, Canceling
  <2>3. ValueShape'
    BY <1>1, <1>2, <1>5, <2>1 DEF ValueShape, AllValues, Outside
  <2> QED
    BY <2>2, <2>3
<1>7. CASE fate[t] = "canceled"
  <2>1. UNCHANGED holder /\ pc' = [pc EXCEPT ![t] = "cancel"]
    BY <1>7 DEF ReportAll, E!CancelBegin, E!eventVars, E!Goto
  <2>2. ReportShape'
    BY <1>1, <1>2, <1>3, <1>5, <1>7, <2>1 DEF ReportShape, Canceling
  <2>3. ValueShape'
    BY <1>1, <1>2, <1>3, <1>5, <1>7, <2>1 DEF ValueShape, AllValues, Outside
  <2> QED
    BY <2>2, <2>3
<1>8. CASE fate[t] = "exception"
  <2>1. \/ (isCanceled \/ holder # None) /\ UNCHANGED holder /\ pc' = [pc EXCEPT ![t] = "over"]
        \/ holder' = t /\ ~isCanceled /\ pc' = [pc EXCEPT ![t] = "cancel"]
    BY <1>4, <1>8 DEF ReportAll, E!StoreException, E!Triggered, E!Return, E!Goto
  <2>2. t # None
    OBVIOUS
  <2>3. ReportShape'
    <3>1. CASE UNCHANGED holder /\ pc' = [pc EXCEPT ![t] = "over"] /\ (isCanceled \/ holder # None)
      BY <1>1, <1>2, <1>3, <1>5, <1>8, <3>1 DEF ReportShape, Canceling
    <3>2. CASE holder' = t /\ ~isCanceled /\ pc' = [pc EXCEPT ![t] = "cancel"]
      BY <1>1, <1>2, <1>3, <1>5, <1>8, <2>2, <3>2 DEF ReportShape, Canceling
    <3> QED
      BY <2>1, <3>1, <3>2
  <2>4. ValueShape'
    <3>1. \A u \in Threads \ {t} : pc'[u] = pc[u] /\ stage'[u] = stage[u]
      BY <1>1, <1>2, <1>3, <2>1
    <3>2. ~AllValues /\ ~AllValues' /\ stage'[t] = "reporting"
      BY <1>1, <1>2, <1>8 DEF AllValues
    <3> QED
      BY <1>1, <1>5, <3>1, <3>2 DEF ValueShape, AllValues, Outside
  <2> QED
    BY <2>3, <2>4
<1> QED
  BY <1>3, <1>6, <1>7, <1>8 DEF Fate

\* A continuation is counted.
LEMMA CountOutcome ==
  ASSUME NEW t \in Threads, OInv, use = "all", Count(t)
  PROVE  ReportShape' /\ ValueShape'
<1> USE DEF At, Stage
<1>1. /\ UNCHANGED <<vars, fate, asked>> /\ stage[t] = "reporting"
      /\ \A u \in Threads : stage'[u] = stage[u] \/ (u = t /\ stage'[u] \in {"last", "gone"})
  BY DEF Count, OInv, BInv, StageOK
<1>2. ReportShape /\ ValueShape
  BY DEF OInv
<1> QED
  BY <1>1, <1>2 DEF vars, eventVars, threadVars, taskVars, ReportShape, ValueShape, AllValues,
     Canceling, Outside

\* The last continuation sets the event if its antecedent has a value.
LEMMA LastOutcome ==
  ASSUME NEW t \in Threads, OInv, use = "all", Last(t)
  PROVE  ReportShape' /\ ValueShape'
<1> USE DEF At, Stage
<1>1. /\ UNCHANGED <<fate, asked, eventVars, taskVars>>
      /\ \A u \in Threads : stage'[u] = stage[u] \/ (u = t /\ stage'[u] = "deleting")
      /\ stage[t] = "last"
  BY DEF Last, OInv, BInv, StageOK, vars, E!SetBegin, E!taskVars, E!eventVars, eventVars,
     taskVars
<1>2. ReportShape /\ ValueShape
  BY DEF OInv
<1>3. pc \in [Threads -> Place]
  BY DEF OInv, BInv, StageOK
<1>4. \A u \in Threads : ~Canceling(u) /\ (u = t => Outside(t))
  BY <1>1 DEF OInv, BInv, BlockShape, AllShape, InBlock, Counted
<1>5. \A u \in Threads \ {t} : pc'[u] = pc[u]
  BY <1>3 DEF Last, vars, threadVars, E!SetBegin, E!Return, E!Goto
<1>6. ~Canceling(t)' /\ pc'[t] \in Place
  BY <1>3, <1>4 DEF Last, vars, threadVars, E!SetBegin, E!Return, E!Goto, Canceling, Place
<1>7. AllValues /\ Outside(t)' => hasValue
  <2> SUFFICES ASSUME AllValues, Outside(t)'
               PROVE  hasValue
    OBVIOUS
  <2>1. E!SetBegin(t)
    BY DEF AllValues, Last, LastCalls
  <2>2. E!Triggered
    BY <1>3, <2>1 DEF E!SetBegin, E!Goto, Outside
  <2> QED
    BY <1>2, <2>2 DEF ValueShape, E!Triggered
<1>8. ReportShape'
  <2>1. \A u \in Threads : ~Canceling(u)'
    BY <1>4, <1>5, <1>6 DEF Canceling
  <2>2. \A u \in Threads : pc[u] \notin {"cancel", "cancelLock"}
    BY <1>4 DEF Canceling
  <2> QED
    BY <1>1, <1>2, <2>1, <2>2 DEF ReportShape, eventVars
<1>9. ValueShape'
  BY <1>1, <1>2, <1>5, <1>7 DEF ValueShape, AllValues, Outside, eventVars, taskVars
<1> QED
  BY <1>8, <1>9

\* The block is deleted with the event: it has its value or no task waits for one.
LEMMA DeleteOutcome ==
  ASSUME NEW t \in Threads, OInv, use = "all", Delete(t)
  PROVE  ReportShape' /\ ValueShape'
<1> USE DEF At, Stage
<1>1. /\ UNCHANGED <<fate, asked, hasValue, isCanceled, holder, pc, texc>>
      /\ \A u \in Threads : stage'[u] = stage[u] \/ (u = t /\ stage'[u] = "gone")
      /\ stage[t] = "deleting" /\ Outside(t) /\ tasks' = {} /\ alive' = FALSE
  BY DEF Delete, Destroyed, OInv, BInv, StageOK, threadVars
<1>2. ReportShape /\ ValueShape /\ IInv
  BY DEF OInv
<1>3. Returned \in Tasks
  BY CombAssumption DEF Returned
<1>4. tstate'[Returned] \in {tstate[Returned], "canceled"}
  BY <1>3 DEF Delete, Destroyed
<1>5. AllValues => hasValue
  BY <1>1, <1>2 DEF ValueShape
<1>6. AllValues => tstate'[Returned] = tstate[Returned]
  BY <1>2, <1>3, <1>5 DEF IInv, ListShape, Delete, Destroyed
<1>7. ReportShape'
  BY <1>1, <1>2 DEF ReportShape, Canceling
<1>8. ValueShape'
  BY <1>1, <1>2, <1>4, <1>5, <1>6 DEF ValueShape, AllValues, Outside
<1> QED
  BY <1>7, <1>8

\* A step inside a method.
LEMMA StepOutcome ==
  ASSUME NEW t \in Threads, OInv, use = "all", Step(t), UNCHANGED blockVars, ~Mixed
  PROVE  ReportShape' /\ ValueShape'
<1> USE EventAssumption DEF Place, blockVars, threadVars, eventVars, taskVars
<1>1. ReportShape /\ ValueShape /\ IInv /\ BInv /\ BlockShape /\ AllShape
  BY DEF OInv, BInv
<1>2. pc \in [Threads -> Place] /\ fate \in [Threads -> Fate]
  BY <1>1 DEF BInv, StageOK
<1>3. Returned \in Tasks /\ tstate \in [Tasks -> {"none", "created", "pending", "completed", "canceled"}]
  BY <1>1, CombAssumption DEF Returned, IInv, TypeOK
<1>4. ~Outside(t) => alive
  BY <1>1 DEF BlockShape
<1>5. Setting(t) => /\ Counted = Threads
                    /\ \A u \in Threads : ~Canceling(u)
  BY <1>1 DEF AllShape, BlockShape, InBlock, Counted
<1>6. CASE SetLocked(t)
  <2>1. pc[t] = "setLock" /\ Setting(t) /\ alive /\ UNCHANGED <<isCanceled, holder, alive, tstate>>
    BY <1>4, <1>6 DEF SetLocked, Setting, Outside
  <2>2. hasValue' = TRUE \/ isCanceled
    BY <1>6 DEF SetLocked, Triggered
  <2>3. ~isCanceled => AllValues
    <3> SUFFICES ASSUME ~isCanceled, NEW u \in Threads
                 PROVE  fate[u] = "value"
      BY DEF AllValues
    <3>1. stage[u] # "antecedent"
      BY <1>5, <2>1 DEF Counted
    <3>2. holder = None
      BY <1>1, <1>5, <2>1 DEF IInv, HolderShape, Canceling
    <3>3. pc[u] \notin {"cancel", "cancelLock"}
      BY <1>5, <2>1 DEF Canceling
    <3> QED
      BY <1>1, <1>2, <3>1, <3>2, <3>3 DEF ReportShape, Fate
  <2>4. /\ \A u \in Threads \ {t} : pc'[u] = pc[u]
        /\ pc'[t] \in {"setEach", "over"}
    BY <1>2, <1>6 DEF SetLocked, Return, Goto
  <2>5. \A u \in Threads : ~Canceling(u) /\ ~Canceling(u)'
    BY <1>5, <2>1, <2>4 DEF Canceling
  <2>6. ReportShape'
    BY <1>1, <2>1, <2>5 DEF ReportShape, Canceling
  <2>7. hasValue' => AllValues
    BY <1>1, <1>6, <2>3 DEF SetLocked, Triggered, ValueShape
  <2>8. ValueShape'
    BY <1>1, <2>1, <2>2, <2>4, <2>7 DEF ValueShape, AllValues, Outside
  <2> QED
    BY <2>6, <2>8
<1>7. CASE SetReturn(t)
  <2>1. /\ pc[t] = "setEach" /\ holder' = None /\ hasValue /\ Setting(t)
        /\ UNCHANGED <<isCanceled, hasValue, tasks, alive, tstate>>
    BY <1>1, <1>7 DEF SetReturn, IInv, OwnerShape, Setting
  <2>2. /\ \A u \in Threads \ {t} : pc'[u] = pc[u]
        /\ pc'[t] = "over"
    BY <1>2, <1>7 DEF SetReturn, Return, Goto
  <2>3. AllValues
    BY <1>1, <2>1 DEF ValueShape
  <2>4. ~isCanceled
    BY <1>1, <2>3 DEF ValueShape
  <2>5. \A u \in Threads : ~Canceling(u)'
    BY <1>5, <2>1, <2>2 DEF Canceling
  <2>6. ReportShape'
    BY <2>1, <2>3, <2>4, <2>5 DEF ReportShape, AllValues
  <2>7. ValueShape'
    BY <1>1, <2>1, <2>3, <2>4 DEF ValueShape, AllValues
  <2> QED
    BY <2>6, <2>7
<1>8. CASE CancelTest(t) \/ CancelLocked(t) \/ CancelRead(t) \/ CancelReturn(t)
  <2>1. /\ UNCHANGED <<holder, hasValue, alive, tstate>> /\ Canceling(t)
        /\ \A u \in Threads \ {t} : pc'[u] = pc[u]
        /\ Canceling(t)' \/ pc'[t] = "over"
    BY <1>2, <1>8 DEF CancelTest, CancelLocked, CancelRead, CancelReturn, Return, Goto, Canceling
  <2>2. (isCanceled => isCanceled') /\ (pc[t] \in {"cancel", "cancelLock"} =>
          isCanceled' \/ pc'[t] \in {"cancel", "cancelLock"})
    BY <1>2, <1>8 DEF CancelTest, CancelLocked, CancelRead, CancelReturn, Return, Goto
  <2>3. ~AllValues /\ ~AllValues'
    BY <1>1, <2>1 DEF ReportShape, AllValues
  <2>4. \A u \in Threads : Canceling(u)' => Canceling(u)
    BY <2>1 DEF Canceling
  <2>5. ReportShape'
    <3>1. isCanceled' /\ ~isCanceled /\ (\A u \in Threads : fate[u] # "canceled") => holder # None
      BY <1>1, <1>2, <2>1 DEF ReportShape, Fate
    <3>2. \A u \in Threads : stage[u] # "antecedent" /\ fate[u] = "canceled" =>
            isCanceled' \/ pc'[u] \in {"cancel", "cancelLock"}
      BY <1>1, <2>1, <2>2 DEF ReportShape
    <3> QED
      BY <1>1, <2>1, <2>2, <2>4, <3>1, <3>2 DEF ReportShape
  <2>6. alive
    BY <1>4, <2>1 DEF Canceling, Outside
  <2>7. ValueShape'
    BY <1>1, <2>1, <2>3, <2>6 DEF ValueShape, Outside
  <2> QED
    BY <2>5, <2>7
<1>9. ASSUME NEW x \in Tasks, SetEach(t, x)
      PROVE  ReportShape' /\ ValueShape'
  <2>1. \/ hasValue /\ UNCHANGED <<eventVars, threadVars>>
        \/ hasValue /\ UNCHANGED <<eventVars, pc>>
    BY <1>1, <1>9 DEF SetEach, IInv, OwnerShape
  <2>2. /\ tstate'[Returned] # "none" /\ (tstate[Returned] # "pending" => tstate'[Returned] # "pending")
        /\ tstate[Returned] \notin {"pending", "canceled"} => tstate'[Returned] # "canceled"
    BY <1>1, <1>3, <1>9 DEF SetEach, CancelOne, FinalizeOne, Done, ValueShape
  <2>3. ReportShape'
    BY <1>1, <2>1 DEF ReportShape, Canceling
  <2>4. ValueShape'
    BY <1>1, <2>1, <2>2 DEF ValueShape, AllValues, Outside
  <2> QED
    BY <2>3, <2>4
<1>10. ASSUME NEW x \in Tasks, CancelEach(t, x)
       PROVE  ReportShape' /\ ValueShape'
  <2>1. Canceling(t) /\ UNCHANGED <<eventVars, pc>>
    BY <1>10 DEF CancelEach, Canceling
  <2>2. ~AllValues /\ ~AllValues'
    BY <1>1, <2>1 DEF ReportShape, AllValues
  <2>3. tstate'[Returned] # "none" /\ (tstate[Returned] # "pending" => tstate'[Returned] # "pending")
    BY <1>1, <1>3, <1>10 DEF CancelEach, CancelOne, Done, ValueShape
  <2>4. ReportShape'
    BY <1>1, <2>1 DEF ReportShape, Canceling
  <2>5. ValueShape'
    BY <1>1, <2>1, <2>2, <2>3 DEF ValueShape, AllValues, Outside
  <2> QED
    BY <2>4, <2>5
<1> QED
  BY <1>6, <1>7, <1>8, <1>9, <1>10 DEF Step

\* Every step preserves OInv.
LEMMA OInvStep ==
  ASSUME ~Mixed
  PROVE  OInv /\ [CombNext]_combVars => OInv'
<1> SUFFICES ASSUME OInv, [CombNext]_combVars
             PROVE  OInv'
  OBVIOUS
<1>1. BInv' /\ (use' = "all" => use = "all")
  BY BInvStep DEF OInv, CombNext, combVars, blockVars, ReportAll, ReportAny, Count, Last,
     Delete, AskCancel
<1> SUFFICES ASSUME use = "all"
             PROVE  IInv' /\ ReportShape' /\ ValueShape'
  BY <1>1 DEF OInv
<1>2. IInv'
  BY AllStepsWell, IInvStep DEF OInv
<1>3. ASSUME NEW t \in Threads, ReportAll(t) \/ Count(t) \/ Last(t) \/ Delete(t)
      PROVE  ReportShape' /\ ValueShape'
  BY <1>3, ReportOutcome, CountOutcome, LastOutcome, DeleteOutcome
<1>4. ASSUME NEW t \in Threads, E!Step(t), UNCHANGED blockVars
      PROVE  ReportShape' /\ ValueShape'
  BY <1>4, SameStep, StepOutcome
<1>5. CASE AskCancel
  <2>1. Returned \in Tasks /\ tstate \in [Tasks -> {"none", "created", "pending", "completed", "canceled"}]
    BY CombAssumption DEF Returned, OInv, IInv, TypeOK
  <2>2. /\ UNCHANGED <<eventVars, threadVars, use, fate, stage, count>> /\ asked' = TRUE
        /\ tstate'[Returned] = "pending"
    BY <1>5, <2>1 DEF AskCancel, E!AsyncCancel, E!eventVars, eventVars, E!threadVars, threadVars
  <2> QED
    BY <1>2, <2>2 DEF OInv, ReportShape, ValueShape, AllValues, Outside, Canceling, eventVars, threadVars
<1>6. CASE UNCHANGED combVars
  BY <1>2, <1>6 DEF OInv, ReportShape, ValueShape, AllValues, Outside, Canceling, combVars, vars,
     blockVars, eventVars, threadVars, taskVars
<1> QED
  BY <1>2, <1>3, <1>4, <1>5, <1>6 DEF CombNext, ReportAny

\* The invariant of when_all and its event.
THEOREM WhenAllInvariant == ~Mixed => (CombSpec => []OInv)
<1> SUFFICES ASSUME ~Mixed
             PROVE  CombSpec => []OInv
  OBVIOUS
<1>1. OInv /\ [CombNext]_combVars => OInv'
  BY OInvStep
<1> QED
  BY OInvInit, <1>1, PTL DEF CombSpec

\* The task of when_all ends as its antecedents did, in whichever order they
\* report: with a value exactly if all have one and no token asked it to cancel,
\* and with the exception of one that failed if none was canceled.
THEOREM WhenAllOutcome == ~Mixed => (CombSpec => [](use = "all" => OutcomeFollows))
<1>1. OInv => (use = "all" => OutcomeFollows)
  <2> SUFFICES ASSUME OInv, use = "all", ~alive
               PROVE  /\ Done(Returned)
                      /\ tstate[Returned] = "completed" => Succeeds
                      /\ Succeeds /\ ~asked => tstate[Returned] = "completed"
                      /\ texc[Returned] # None => texc[Returned] \in Failed
                      /\ ~Succeeds /\ Failed # {} /\ Succeeded \cup Failed = Threads =>
                           texc[Returned] # None
    BY DEF OutcomeFollows, Succeeds, Succeeded, Failed
  <2>1. IInv /\ ReportShape /\ ValueShape /\ BlockShape
    BY DEF OInv, BInv
  <2>2. Returned \in Tasks
    BY CombAssumption DEF Returned
  <2>3. Succeeds <=> AllValues
    BY DEF Succeeds, Succeeded, AllValues
  <2>4. \A t \in Threads : stage[t] = "gone" /\ Outside(t)
    BY <2>1 DEF BlockShape
  <2>5. Done(Returned)
    BY <2>1, <2>2, <2>4 DEF IInv, TypeOK, ListShape, ValueShape, Outside, Done
  <2>6. tstate[Returned] = "completed" => Succeeds
    BY <2>1, <2>2, <2>3 DEF IInv, OutcomeShape, ValueShape
  <2>7. Succeeds /\ ~asked => tstate[Returned] = "completed"
    BY <2>1, <2>3, <2>5 DEF ValueShape, Done
  <2>8. texc[Returned] # None => texc[Returned] \in Failed
    BY <2>1, <2>2, EventAssumption DEF IInv, TypeOK, OutcomeShape, ReportShape, Failed
  <2>9. ASSUME Failed # {}, Succeeded \cup Failed = Threads
        PROVE  texc[Returned] # None
    <3>1. \A t \in Threads : fate[t] # "canceled"
      BY <2>9 DEF Succeeded, Failed
    <3>2. holder # None
      BY <2>1, <2>4, <2>9, <3>1 DEF ReportShape, Failed
    <3> QED
      BY <2>1, <2>2, <2>5, <3>2 DEF IInv, OutcomeShape
  <2> QED
    BY <2>5, <2>6, <2>7, <2>8, <2>9
<1> QED
  BY <1>1, WhenAllInvariant, PTL

\* What the event promises its tasks holds of the event in a block of when_all.
THEOREM WhenAllKeepsPromises ==
  ~Mixed => (CombSpec => [](use = "all" => TasksAgree /\ WinnerDecides /\ NoneForgotten))
<1>1. OInv => (use = "all" => TasksAgree /\ WinnerDecides /\ NoneForgotten)
  BY DEF OInv, IInv, HolderShape, OutcomeShape, ListShape, TasksAgree, WinnerDecides,
     NoneForgotten, Decided, Done
<1> QED
  BY <1>1, WhenAllInvariant, PTL

----------------------------------------------------------------------------
(* The outcome of when_any *)

\* What the continuations of when_any have told the event.  Nobody cancels it
\* before all are counted, so that until then being triggered is having a value.
ToldShape ==
  /\ \A t \in Threads : Setting(t) => stage[t] = "reporting" /\ fate[t] = "value"
  /\ \A t \in Threads : Canceling(t) => stage[t] = "deleting" /\ ~hasValue
  /\ isCanceled => Counted = Threads /\ ~hasValue
  /\ \A t \in Threads : stage[t] # "antecedent" /\ fate[t] = "value" =>
       hasValue \/ pc[t] = "setLock"
  /\ \A t \in Threads : stage[t] # "antecedent" /\ fate[t] = "exception" =>
       hasValue \/ holder # None
  /\ \A t \in Threads : stage[t] = "deleting" /\ Outside(t) => Triggered
  /\ ~alive => Triggered
  /\ hasValue => Succeeded # {}
  /\ holder # None => holder \in Failed

\* Where the tasks of the event are, while they are not done.
TakenShape ==
  /\ Triggered => tasks = {}
  /\ \A t \in Threads : todo[t] # {} => pc[t] \in {"setEach", "cancelRead", "cancelEach"}
  /\ \A t \in Threads : pc[t] = "setEach" => hasValue
  /\ \A t \in Threads : pc[t] \in {"cancelRead", "cancelEach"} => isCanceled
  /\ \A t \in Threads : pc[t] = "cancelEach" => (userExc[t] <=> holder # None)
  /\ \A x \in Tasks : tstate[x] \in {"created", "pending"} =>
       x \in tasks \/ \E t \in Threads : x \in todo[t]

\* What the tasks of the event end with: Returned is the only one.
EndShape ==
  /\ tstate[Returned] # "none"
  /\ \A x \in Tasks : x # Returned => tstate[x] = "none" /\ texc[x] = None
  /\ tasks \subseteq {Returned} /\ \A t \in Threads : todo[t] \subseteq {Returned}
  /\ tstate[Returned] = "pending" => asked
  /\ tstate[Returned] = "completed" => hasValue
  /\ tstate[Returned] = "canceled" => isCanceled \/ (hasValue /\ asked)
  /\ texc[Returned] # None => Done(Returned) /\ texc[Returned] \in Failed
  /\ Done(Returned) /\ isCanceled => texc[Returned] = holder
  /\ hasValue => texc[Returned] = None
  /\ won # {} => Triggered

AnyShape == ToldShape /\ TakenShape /\ EndShape

AnyInv == TypeOK /\ BInv /\ (use = "any" => AnyShape)

\* The types are those of the event whatever it is used for.
LEMMA CombTypes == TypeOK /\ [CombNext]_combVars => TypeOK'
<1> SUFFICES ASSUME TypeOK, [CombNext]_combVars
             PROVE  TypeOK'
  OBVIOUS
<1> USE DEF TypeOK, Place, eventVars, threadVars, taskVars, vars
<1>1. CASE use = "client" /\ Next /\ UNCHANGED blockVars
  BY <1>1, TypeStep
<1>2. ASSUME NEW t \in Threads, ReportAll(t)
      PROVE  TypeOK'
  BY <1>2 DEF ReportAll, E!StoreException, E!CancelBegin, E!Return, E!Goto, E!eventVars,
     E!taskVars
<1>3. ASSUME NEW t \in Threads, ReportAny(t)
      PROVE  TypeOK'
  BY <1>3 DEF ReportAny, E!SetBegin, E!Return, E!Goto, E!eventVars, E!taskVars
<1>4. ASSUME NEW t \in Threads, Count(t)
      PROVE  TypeOK'
  BY <1>4 DEF Count
<1>5. ASSUME NEW t \in Threads, Last(t)
      PROVE  TypeOK'
  BY <1>5 DEF Last, E!SetBegin, E!CancelBegin, E!Return, E!Goto, E!eventVars, E!taskVars
<1>6. ASSUME NEW t \in Threads, Delete(t)
      PROVE  TypeOK'
  BY <1>6 DEF Delete, Destroyed
<1>7. ASSUME NEW t \in Threads, E!Step(t)
      PROVE  TypeOK'
  <2>1. Step(t)
    BY <1>7, SameStep
  <2>2. Next
    BY <2>1 DEF Next
  <2> QED
    BY <2>2, TypeStep
<1>8. CASE AskCancel
  BY <1>8 DEF AskCancel, E!AsyncCancel, E!eventVars, E!threadVars
<1>9. CASE UNCHANGED combVars
  BY <1>9 DEF combVars
<1> QED
  BY <1>1, <1>2, <1>3, <1>4, <1>5, <1>6, <1>7, <1>8, <1>9 DEF CombNext

\* AnyInv holds initially.
LEMMA AnyInvInit == CombInit => AnyInv
<1> SUFFICES ASSUME CombInit
             PROVE  AnyInv
  OBVIOUS
<1>1. BInv
  BY BInvInit
<1>2. Returned \in Tasks
  BY CombAssumption DEF Returned
<1>3. TypeOK
  <2>1. CASE Init
    BY <2>1, EventAssumption DEF Init, TypeOK, Place
  <2>2. CASE Prepared
    BY <1>2, <2>2, EventAssumption DEF Prepared, TypeOK, Place
  <2> QED
    BY <2>1, <2>2 DEF CombInit
<1>4. ASSUME use = "any"
      PROVE  AnyShape
  <2>1. Prepared /\ stage = [t \in Threads |-> "antecedent"] /\ asked = FALSE
    BY <1>4 DEF CombInit
  <2>2. ToldShape
    BY <2>1 DEF Prepared, ToldShape, Setting, Canceling
  <2>3. TakenShape
    BY <1>2, <2>1 DEF Prepared, TakenShape, Triggered
  <2>4. EndShape
    BY <1>2, <2>1 DEF Prepared, EndShape, Done
  <2> QED
    BY <2>2, <2>3, <2>4 DEF AnyShape
<1> QED
  BY <1>1, <1>3, <1>4 DEF AnyInv

\* A continuation reports: nobody is counted out, so nobody has canceled.
LEMMA ReportAnyKeeps ==
  ASSUME NEW t \in Threads, AnyInv, use = "any", ReportAny(t)
  PROVE  AnyShape'
<1> USE EventAssumption DEF At, Stage
<1>1. /\ UNCHANGED <<fate, asked, alive, tasks, hasValue, isCanceled, tstate, texc, todo, userExc>>
      /\ stage[t] = "antecedent" /\ stage' = [stage EXCEPT ![t] = "reporting"]
  BY DEF ReportAny, vars, eventVars, taskVars, threadVars, E!SetBegin, E!taskVars, E!eventVars
<1>2. /\ stage \in [Threads -> {"antecedent", "reporting", "last", "deleting", "gone"}]
      /\ pc \in [Threads -> Place] /\ fate \in [Threads -> Fate]
  BY DEF AnyInv, BInv, StageOK
<1>3. ToldShape /\ TakenShape /\ EndShape /\ BlockShape
  BY DEF AnyInv, AnyShape, BInv
<1>4. t \notin Counted /\ Counted # Threads /\ Counted' = Counted
  BY <1>1, <1>2 DEF Counted
<1>5. ~isCanceled /\ \A u \in Threads : ~Canceling(u) /\ stage[u] # "deleting"
  BY <1>3, <1>4 DEF ToldShape, BlockShape, InBlock
<1>6. alive /\ Outside(t)
  BY <1>1, <1>3, <1>4 DEF BlockShape
<1>7. \A u \in Threads : stage'[u] = IF u = t THEN "reporting" ELSE stage[u]
  BY <1>1, <1>2
<1>8. CASE fate[t] = "value"
  <2>1. UNCHANGED holder /\ E!SetBegin(t)
    BY <1>8 DEF ReportAny, E!SetBegin, E!eventVars
  <2>2. \/ hasValue /\ pc' = [pc EXCEPT ![t] = "over"] /\ won' = won
        \/ pc' = [pc EXCEPT ![t] = "setLock"] /\ won' = won
    BY <1>5, <2>1 DEF E!SetBegin, E!Return, E!Goto, E!Triggered
  <2>3. \A u \in Threads : u # t => pc'[u] = pc[u]
    BY <1>2, <2>2
  <2>4. (hasValue /\ pc'[t] = "over") \/ pc'[t] = "setLock"
    BY <1>2, <2>2
  <2>5. ToldShape'
    <3>1. \A u \in Threads : ~Canceling(u)'
      BY <1>5, <2>3, <2>4 DEF Canceling
    <3>2. \A u \in Threads : Setting(u)' => stage'[u] = "reporting" /\ fate[u] = "value"
      BY <1>3, <1>7, <1>8, <2>3 DEF ToldShape, Setting
    <3>3. \A u \in Threads : stage'[u] # "antecedent" /\ fate[u] = "value" =>
            hasValue \/ pc'[u] = "setLock"
      BY <1>3, <1>7, <2>3, <2>4 DEF ToldShape
    <3>4. \A u \in Threads : stage'[u] # "antecedent" /\ fate[u] = "exception" =>
            hasValue \/ holder # None
      BY <1>3, <1>7, <1>8 DEF ToldShape
    <3>5. \A u \in Threads : stage'[u] # "deleting"
      BY <1>5, <1>7
    <3> QED
      BY <1>1, <1>3, <1>5, <1>6, <2>1, <3>1, <3>2, <3>3, <3>4, <3>5 DEF ToldShape, Succeeded, Failed
  <2>6. TakenShape'
    <3>1. todo[t] = {}
      BY <1>3, <1>6 DEF TakenShape, Outside
    <3>2. \A u \in Threads : pc'[u] \in {"setEach", "cancelRead", "cancelEach"} => pc'[u] = pc[u]
      BY <2>3, <2>4
    <3>3. \A u \in Threads : todo[u] # {} => pc'[u] \in {"setEach", "cancelRead", "cancelEach"}
      BY <1>3, <2>3, <3>1 DEF TakenShape
    <3> QED
      BY <1>1, <1>3, <2>1, <3>2, <3>3 DEF TakenShape, Triggered
  <2>7. EndShape'
    BY <1>1, <1>3, <2>1, <2>2 DEF EndShape, Triggered, Done, Failed
  <2> QED
    BY <2>5, <2>6, <2>7 DEF AnyShape
<1>9. CASE fate[t] = "canceled"
  <2>1. UNCHANGED <<holder, pc, won>>
    BY <1>9 DEF ReportAny, vars, eventVars, threadVars
  <2>2. ToldShape'
    BY <1>1, <1>3, <1>4, <1>5, <1>7, <1>9, <2>1
    DEF ToldShape, Setting, Canceling, Outside, Triggered, Succeeded, Failed
  <2>3. TakenShape' /\ EndShape'
    BY <1>1, <1>3, <2>1 DEF TakenShape, EndShape, Triggered, Done, Failed
  <2> QED
    BY <2>2, <2>3 DEF AnyShape
<1>10. CASE fate[t] = "exception"
  <2>1. /\ UNCHANGED <<pc, won>>
        /\ holder' = IF hasValue \/ holder # None THEN holder ELSE t
    BY <1>5, <1>10 DEF ReportAny, threadVars, Triggered
  <2>2. (hasValue \/ holder' # None) /\ (holder' # None => holder' \in Failed)
    BY <1>3, <1>10, <2>1 DEF ToldShape, Failed
  <2>3. holder # None => holder' = holder
    BY <2>1
  <2>4. ToldShape'
    <3>1. \A u \in Threads : ~Canceling(u)'
      BY <1>5, <2>1 DEF Canceling
    <3>2. \A u \in Threads : Setting(u)' => stage'[u] = "reporting" /\ fate[u] = "value"
      BY <1>3, <1>7, <2>1 DEF ToldShape, Setting
    <3>3. \A u \in Threads : stage'[u] # "antecedent" /\ fate[u] = "value" =>
            hasValue \/ pc'[u] = "setLock"
      BY <1>3, <1>7, <1>10, <2>1 DEF ToldShape
    <3>4. \A u \in Threads : stage'[u] # "antecedent" /\ fate[u] = "exception" =>
            hasValue \/ holder' # None
      BY <2>2
    <3>5. \A u \in Threads : stage'[u] # "deleting"
      BY <1>5, <1>7
    <3> QED
      BY <1>1, <1>3, <1>5, <1>6, <2>2, <3>1, <3>2, <3>3, <3>4, <3>5 DEF ToldShape, Succeeded, Failed
  <2>5. TakenShape'
    <3>1. \A u \in Threads : pc[u] # "cancelEach"
      BY <1>5 DEF Canceling
    <3> QED
      BY <1>1, <1>3, <2>1, <3>1 DEF TakenShape, Triggered
  <2>6. EndShape'
    BY <1>1, <1>3, <1>5, <2>1 DEF EndShape, Triggered, Done, Failed
  <2> QED
    BY <2>4, <2>5, <2>6 DEF AnyShape
<1> QED
  BY <1>2, <1>8, <1>9, <1>10 DEF Fate

\* A continuation is counted.
LEMMA CountAnyKeeps ==
  ASSUME NEW t \in Threads, AnyInv, use = "any", Count(t)
  PROVE  AnyShape'
<1> USE DEF At, Stage
<1>1. /\ UNCHANGED <<vars, fate, asked>> /\ stage[t] = "reporting" /\ Outside(t)
      /\ \A u \in Threads : stage'[u] = stage[u] \/ (u = t /\ stage'[u] \in {"last", "gone"})
  BY DEF Count, AnyInv, BInv, StageOK
<1>2. ToldShape /\ TakenShape /\ EndShape /\ StageOK
  BY DEF AnyInv, AnyShape, BInv
<1>3. Counted \subseteq Counted' /\ Counted' \subseteq Threads
  BY <1>1 DEF Counted
<1>4. ~Setting(t)
  BY <1>1 DEF Setting, Outside
<1> USE DEF vars, eventVars, threadVars, taskVars
<1>5. ToldShape'
  BY <1>1, <1>2, <1>3, <1>4
  DEF ToldShape, Setting, Canceling, Outside, Triggered, Succeeded, Failed
<1>6. TakenShape' /\ EndShape'
  BY <1>1, <1>2 DEF TakenShape, EndShape, Triggered, Done, Failed
<1> QED
  BY <1>5, <1>6 DEF AnyShape

\* The last continuation cancels the event if nobody has set it.
LEMMA LastAnyKeeps ==
  ASSUME NEW t \in Threads, AnyInv, use = "any", Last(t)
  PROVE  AnyShape'
<1> USE DEF At, Stage
<1>1. /\ UNCHANGED <<fate, asked, eventVars, taskVars, todo, userExc, won>> /\ stage[t] = "last"
      /\ \A u \in Threads : stage'[u] = IF u = t THEN "deleting" ELSE stage[u]
  BY DEF Last, AnyInv, BInv, StageOK, vars, threadVars, E!CancelBegin, E!taskVars, E!eventVars,
     eventVars, taskVars
<1>2. ToldShape /\ TakenShape /\ EndShape /\ BlockShape
  BY DEF AnyInv, AnyShape, BInv
<1>3. pc \in [Threads -> Place]
  BY DEF AnyInv, BInv, StageOK
<1>4. /\ alive /\ Outside(t) /\ Counted = Threads
      /\ \A u \in Threads : Outside(u)
  BY <1>1, <1>2 DEF BlockShape, InBlock, Counted
<1>5. Counted' = Threads
  BY <1>1, <1>4 DEF Counted
<1>6. \/ Triggered /\ pc' = pc
      \/ ~Triggered /\ pc' = [pc EXCEPT ![t] = "cancel"]
  <2>1. fate[t] = "value" => Triggered
    BY <1>1, <1>2, <1>4 DEF ToldShape, Triggered, Outside
  <2> QED
    BY <2>1 DEF Last, LastCalls, vars, threadVars, E!CancelBegin, E!Goto
<1>7. /\ \A u \in Threads : u # t => pc'[u] = pc[u]
      /\ (Triggered /\ pc'[t] = pc[t]) \/ (~Triggered /\ pc'[t] = "cancel")
  BY <1>3, <1>6
<1> USE DEF eventVars, taskVars
<1>8. ToldShape'
  <2>1. \A u \in Threads : ~Setting(u)'
    BY <1>4, <1>7 DEF Setting, Outside
  <2>2. \A u \in Threads : Canceling(u)' => u = t /\ ~hasValue
    BY <1>4, <1>7 DEF Canceling, Outside, Triggered
  <2>3. \A u \in Threads : stage'[u] = "deleting" /\ Outside(u)' => Triggered
    BY <1>1, <1>2, <1>7 DEF ToldShape, Outside
  <2>4. \A u \in Threads : fate[u] = "value" => hasValue
    BY <1>2, <1>4 DEF ToldShape, Counted, Outside
  <2>5. \A u \in Threads : fate[u] = "exception" => hasValue \/ holder # None
    BY <1>2, <1>4 DEF ToldShape, Counted
  <2> QED
    BY <1>1, <1>2, <1>4, <1>5, <2>1, <2>2, <2>3, <2>4, <2>5
    DEF ToldShape, Triggered, Succeeded, Failed
<1>9. TakenShape'
  <2>1. \A u \in Threads : todo[u] = {}
    BY <1>2, <1>4 DEF TakenShape, Outside
  <2>2. \A u \in Threads : pc'[u] \notin {"setEach", "cancelRead", "cancelEach"}
    BY <1>4, <1>7 DEF Outside
  <2> QED
    BY <1>1, <1>2, <2>1, <2>2 DEF TakenShape, Triggered
<1>10. EndShape'
  BY <1>1, <1>2 DEF EndShape, Triggered, Done, Failed
<1> QED
  BY <1>8, <1>9, <1>10 DEF AnyShape

\* The event is destroyed triggered, when no task is in it.
LEMMA DeleteAnyKeeps ==
  ASSUME NEW t \in Threads, AnyInv, use = "any", Delete(t)
  PROVE  AnyShape'
<1> USE DEF At, Stage
<1>1. /\ UNCHANGED <<fate, asked, hasValue, isCanceled, holder, threadVars, texc>>
      /\ \A u \in Threads : stage'[u] = stage[u] \/ (u = t /\ stage'[u] = "gone")
      /\ stage[t] = "deleting" /\ Outside(t) /\ tasks' = {} /\ alive' = FALSE
  BY DEF Delete, Destroyed, AnyInv, BInv, StageOK
<1>2. ToldShape /\ TakenShape /\ EndShape /\ TypeOK
  BY DEF AnyInv, AnyShape
<1>3. Triggered /\ tasks = {}
  BY <1>1, <1>2 DEF ToldShape, TakenShape
<1>4. tstate' = tstate
  BY <1>2, <1>3 DEF Delete, Destroyed, TypeOK
<1>5. Counted \subseteq Counted' /\ Counted' \subseteq Threads
  BY <1>1 DEF Counted
<1> USE DEF threadVars
<1>6. ToldShape'
  BY <1>1, <1>2, <1>3, <1>5
  DEF ToldShape, Setting, Canceling, Outside, Triggered, Succeeded, Failed
<1>7. TakenShape' /\ EndShape'
  BY <1>1, <1>2, <1>3, <1>4 DEF TakenShape, EndShape, Triggered, Done, Failed
<1> QED
  BY <1>6, <1>7 DEF AnyShape

\* A step inside a method.
LEMMA StepAnyKeeps ==
  ASSUME NEW t \in Threads, AnyInv, use = "any", Step(t), UNCHANGED blockVars
  PROVE  AnyShape'
<1> USE EventAssumption DEF blockVars, threadVars, eventVars, taskVars
<1>1. ToldShape /\ TakenShape /\ EndShape /\ TypeOK /\ BlockShape
  BY DEF AnyInv, AnyShape, BInv
<1>2. /\ pc \in [Threads -> Place] /\ todo \in [Threads -> SUBSET Tasks]
      /\ userExc \in [Threads -> BOOLEAN]
      /\ tstate \in [Tasks -> {"none", "created", "pending", "completed", "canceled"}]
      /\ texc \in [Tasks -> Threads \cup {None}]
  BY <1>1 DEF TypeOK
<1>3. Returned \in Tasks
  BY CombAssumption DEF Returned
<1>4. Counted' = Counted /\ Failed' = Failed /\ Succeeded' = Succeeded
  BY DEF Counted, Failed, Succeeded
<1>5. \A u \in Threads : Setting(u) => Counted # Threads
  BY <1>1 DEF ToldShape, Counted
<1>6. \A u \in Threads : Canceling(u) =>
        /\ ~hasValue /\ Counted = Threads /\ stage[u] = "deleting"
        /\ \A v \in Threads : ~Setting(v) /\ (v # u => Outside(v))
  <2> SUFFICES ASSUME NEW u \in Threads, Canceling(u)
               PROVE  /\ ~hasValue /\ Counted = Threads /\ stage[u] = "deleting"
                      /\ \A v \in Threads : ~Setting(v) /\ (v # u => Outside(v))
    OBVIOUS
  <2>1. ~hasValue /\ stage[u] = "deleting" /\ Counted = Threads
    BY <1>1 DEF ToldShape, BlockShape, InBlock
  <2>2. \A v \in Threads : v # u => Outside(v)
    BY <1>1, <2>1 DEF BlockShape, InBlock, Counted
  <2> QED
    BY <1>5, <2>1, <2>2
<1>7. CASE SetLocked(t)
  <2>1. /\ pc[t] = "setLock" /\ Setting(t)
        /\ UNCHANGED <<isCanceled, holder, alive, userExc, tstate, texc>>
    BY <1>7 DEF SetLocked, Setting
  <2>2. /\ Counted # Threads /\ ~isCanceled /\ fate[t] = "value" /\ stage[t] = "reporting"
        /\ \A u \in Threads : ~Canceling(u)
    BY <1>1, <1>5, <1>6, <2>1 DEF ToldShape
  <2>3. /\ \A u \in Threads : u # t => pc'[u] = pc[u]
        /\ \/ /\ hasValue /\ hasValue' = hasValue /\ tasks' = tasks /\ todo' = todo
              /\ pc'[t] = "over" /\ won' = won
           \/ /\ ~hasValue /\ hasValue' = TRUE /\ todo' = [todo EXCEPT ![t] = tasks] /\ tasks' = {}
              /\ pc'[t] = "setEach" /\ won' = won
    BY <1>2, <1>7, <2>2 DEF SetLocked, Return, Goto, Triggered
  <2>4. hasValue' /\ t \in Succeeded
    BY <2>2, <2>3 DEF Succeeded
  <2>5. ToldShape'
    <3>1. \A u \in Threads : ~Canceling(u)'
      BY <2>2, <2>3 DEF Canceling
    <3>2. \A u \in Threads : Setting(u)' => Setting(u)
      BY <2>1, <2>3 DEF Setting
    <3> QED
      BY <1>1, <1>4, <2>1, <2>2, <2>4, <3>1, <3>2 DEF ToldShape, Triggered
  <2>6. TakenShape'
    <3>1. tasks' = {}
      BY <1>1, <2>3 DEF TakenShape, Triggered
    <3>2. \A u \in Threads : pc'[u] \notin {"cancelRead", "cancelEach"}
      BY <2>2, <2>3 DEF Canceling
    <3>3. \A u \in Threads : todo'[u] # {} => pc'[u] = "setEach"
      BY <1>1, <1>2, <2>1, <2>2, <2>3 DEF TakenShape, Canceling
    <3>4. \A x \in Tasks : x \in tasks \/ (\E u \in Threads : x \in todo[u]) =>
            \E u \in Threads : x \in todo'[u]
      <4>1. todo[t] = {}
        BY <1>1, <2>1 DEF TakenShape
      <4>2. CASE hasValue
        BY <1>1, <2>3, <4>2 DEF TakenShape, Triggered
      <4>3. CASE ~hasValue
        <5>1. todo'[t] = tasks /\ \A u \in Threads : u # t => todo'[u] = todo[u]
          BY <1>2, <2>3, <4>3
        <5> QED
          BY <4>1, <5>1
      <4> QED
        BY <4>2, <4>3
    <3> QED
      BY <1>1, <2>1, <2>4, <3>1, <3>2, <3>3, <3>4 DEF TakenShape
  <2>7. EndShape'
    <3>1. hasValue \/ ~Done(Returned)
      BY <1>1, <1>2, <1>3, <2>2 DEF EndShape, Done
    <3>2. texc[Returned] = None
      BY <1>1, <3>1 DEF EndShape
    <3>3. tasks' \subseteq {Returned} /\ \A u \in Threads : todo'[u] \subseteq {Returned}
      BY <1>1, <1>2, <2>3 DEF EndShape
    <3> QED
      BY <1>1, <1>4, <2>1, <2>2, <2>3, <2>4, <3>2, <3>3 DEF EndShape, Triggered, Done
  <2> QED
    BY <2>5, <2>6, <2>7 DEF AnyShape
<1>8. CASE SetReturn(t)
  <2>1. /\ pc[t] = "setEach" /\ Setting(t) /\ holder' = None
        /\ UNCHANGED <<isCanceled, hasValue, tasks, alive, todo, userExc, tstate, texc>>
        /\ todo[t] = {}
    BY <1>8 DEF SetReturn, Setting
  <2>2. /\ \A u \in Threads : u # t => pc'[u] = pc[u]
        /\ pc'[t] = "over"
    BY <1>2, <1>8 DEF SetReturn, Return, Goto
  <2>3. hasValue /\ ~isCanceled /\ \A u \in Threads : ~Canceling(u) /\ ~Canceling(u)'
    <3>1. hasValue /\ \A u \in Threads : ~Canceling(u)
      BY <1>1, <1>6, <2>1 DEF TakenShape
    <3> QED
      BY <1>1, <2>2, <3>1 DEF ToldShape, Canceling
  <2>4. ToldShape'
    <3>1. \A u \in Threads : Setting(u)' => Setting(u)
      BY <2>2 DEF Setting
    <3> QED
      BY <1>1, <1>4, <2>1, <2>3, <3>1 DEF ToldShape, Triggered
  <2>5. TakenShape'
    <3>1. \A u \in Threads : pc'[u] \notin {"cancelRead", "cancelEach"}
      BY <2>3 DEF Canceling
    <3>2. \A u \in Threads : todo[u] # {} => pc'[u] = "setEach"
      BY <1>1, <2>1, <2>2, <2>3 DEF TakenShape, Canceling
    <3> QED
      BY <1>1, <2>1, <2>3, <3>1, <3>2 DEF TakenShape, Triggered
  <2>6. EndShape'
    BY <1>1, <1>4, <2>1, <2>3 DEF EndShape, Triggered, Done
  <2> QED
    BY <2>4, <2>5, <2>6 DEF AnyShape
<1>9. CASE CancelTest(t)
  <2>1. /\ pc[t] = "cancel" /\ Canceling(t) /\ UNCHANGED <<eventVars, todo, userExc, taskVars, won>>
        /\ \A u \in Threads : u # t => pc'[u] = pc[u]
        /\ (isCanceled /\ pc'[t] = "over") \/ pc'[t] = "cancelLock"
    BY <1>2, <1>9 DEF CancelTest, Return, Goto, Canceling
  <2>2. /\ ~hasValue /\ Counted = Threads /\ stage[t] = "deleting"
        /\ \A v \in Threads : ~Setting(v) /\ (v # t => Outside(v))
    BY <1>6, <2>1
  <2>3. ToldShape'
    BY <1>1, <1>4, <2>1, <2>2 DEF ToldShape, Setting, Canceling, Outside, Triggered
  <2>4. TakenShape' /\ EndShape'
    BY <1>1, <1>4, <2>1 DEF TakenShape, EndShape, Triggered, Done
  <2> QED
    BY <2>3, <2>4 DEF AnyShape
<1>10. CASE CancelLocked(t)
  <2>1. /\ pc[t] = "cancelLock" /\ Canceling(t) /\ isCanceled' = TRUE
        /\ UNCHANGED <<hasValue, holder, alive, userExc, taskVars, won>>
        /\ \A u \in Threads : u # t => pc'[u] = pc[u]
        /\ \/ isCanceled /\ pc'[t] = "over" /\ tasks' = tasks /\ todo' = todo
           \/ /\ ~isCanceled /\ pc'[t] = "cancelRead" /\ tasks' = {}
              /\ todo' = [todo EXCEPT ![t] = tasks]
    BY <1>2, <1>10 DEF CancelLocked, Return, Goto, Canceling
  <2>2. /\ ~hasValue /\ Counted = Threads /\ stage[t] = "deleting"
        /\ \A v \in Threads : ~Setting(v) /\ (v # t => Outside(v))
    BY <1>6, <2>1
  <2>3. ToldShape'
    BY <1>1, <1>4, <2>1, <2>2 DEF ToldShape, Setting, Canceling, Outside, Triggered
  <2>4. todo[t] = {} /\ \A u \in Threads : todo[u] = {}
    BY <1>1, <2>1, <2>2 DEF TakenShape, Outside
  <2>5. TakenShape'
    <3>1. tasks' = {}
      BY <1>1, <2>1 DEF TakenShape, Triggered
    <3>2. todo'[t] # {} => pc'[t] = "cancelRead"
      BY <2>1, <2>4
    <3>3. \A u \in Threads : u # t => todo'[u] = {} /\ Outside(u)'
      BY <1>2, <2>1, <2>2, <2>4 DEF Outside
    <3>4. tasks # {} => todo'[t] = tasks
      BY <1>1, <1>2, <2>1 DEF TakenShape, Triggered
    <3>5. pc'[t] \in {"over", "cancelRead"}
      BY <2>1
    <3> QED
      BY <1>1, <2>1, <2>4, <3>1, <3>2, <3>3, <3>4, <3>5 DEF TakenShape, Triggered, Outside
  <2>6. EndShape'
    <3>1. isCanceled \/ ~Done(Returned)
      BY <1>1, <1>2, <1>3, <2>2 DEF EndShape, Done
    <3>2. tasks' \subseteq {Returned} /\ \A u \in Threads : todo'[u] \subseteq {Returned}
      BY <1>1, <1>2, <2>1 DEF EndShape
    <3> QED
      BY <1>1, <1>4, <2>1, <2>2, <3>1, <3>2 DEF EndShape, Triggered, Done
  <2> QED
    BY <2>3, <2>5, <2>6 DEF AnyShape
<1>11. CASE CancelRead(t)
  <2>1. /\ pc[t] = "cancelRead" /\ Canceling(t) /\ UNCHANGED <<eventVars, todo, won, taskVars>>
        /\ userExc'[t] = (holder # None) /\ pc'[t] = "cancelEach"
        /\ \A u \in Threads : u # t => pc'[u] = pc[u] /\ userExc'[u] = userExc[u]
    BY <1>2, <1>11 DEF CancelRead, Goto, Canceling
  <2>2. ToldShape'
    BY <1>1, <1>4, <2>1 DEF ToldShape, Setting, Canceling, Outside, Triggered
  <2>3. TakenShape'
    BY <1>1, <2>1 DEF TakenShape, Triggered
  <2>4. EndShape'
    BY <1>1, <1>4, <2>1 DEF EndShape, Triggered, Done
  <2> QED
    BY <2>2, <2>3, <2>4 DEF AnyShape
<1>12. CASE CancelReturn(t)
  <2>1. /\ pc[t] = "cancelEach" /\ Canceling(t) /\ UNCHANGED <<eventVars, todo, userExc, taskVars>>
        /\ todo[t] = {} /\ pc'[t] = "over"
        /\ \A u \in Threads : u # t => pc'[u] = pc[u]
    BY <1>2, <1>12 DEF CancelReturn, Return, Goto, Canceling
  <2>2. isCanceled
    BY <1>1, <2>1 DEF TakenShape
  <2>3. ToldShape'
    BY <1>1, <1>4, <2>1, <2>2 DEF ToldShape, Setting, Canceling, Outside, Triggered
  <2>4. TakenShape'
    BY <1>1, <2>1 DEF TakenShape, Triggered
  <2>5. EndShape'
    BY <1>1, <1>4, <2>1, <2>2 DEF EndShape, Triggered, Done
  <2> QED
    BY <2>3, <2>4, <2>5 DEF AnyShape
<1>13. ASSUME NEW x \in Tasks, SetEach(t, x)
       PROVE  AnyShape'
  <2>1. /\ pc[t] = "setEach" /\ Setting(t) /\ UNCHANGED <<eventVars, pc, userExc, won>>
        /\ x \in todo[t] /\ todo'[t] = todo[t] \ {x}
        /\ \A u \in Threads : u # t => todo'[u] = todo[u]
    BY <1>2, <1>13 DEF SetEach, Setting
  <2>2. hasValue /\ ~isCanceled /\ x = Returned
    BY <1>1, <2>1 DEF TakenShape, ToldShape, EndShape
  <2>3. /\ \A y \in Tasks : y # x => tstate'[y] = tstate[y] /\ texc'[y] = texc[y]
        /\ tstate'[x] \in {"completed", "canceled"}
        /\ tstate'[x] = "canceled" => tstate[x] \in {"pending", "canceled"}
        /\ texc'[x] \in {texc[x], None}
    BY <1>1, <1>2, <1>3, <1>13, <2>2 DEF SetEach, CancelOne, FinalizeOne, Done, EndShape
  <2>4. ToldShape'
    BY <1>1, <1>4, <2>1 DEF ToldShape, Setting, Canceling, Outside, Triggered
  <2>5. TakenShape'
    BY <1>1, <2>1, <2>3 DEF TakenShape, Triggered
  <2>6. EndShape'
    BY <1>1, <1>3, <1>4, <2>1, <2>2, <2>3 DEF EndShape, Triggered, Done
  <2> QED
    BY <2>4, <2>5, <2>6 DEF AnyShape
<1>14. ASSUME NEW x \in Tasks, CancelEach(t, x)
       PROVE  AnyShape'
  <2>1. /\ pc[t] = "cancelEach" /\ Canceling(t) /\ UNCHANGED <<eventVars, pc, userExc, won>>
        /\ x \in todo[t] /\ todo'[t] = todo[t] \ {x}
        /\ \A u \in Threads : u # t => todo'[u] = todo[u]
    BY <1>2, <1>14 DEF CancelEach, Canceling
  <2>2. ~hasValue /\ isCanceled /\ x = Returned /\ (userExc[t] <=> holder # None)
    BY <1>1, <1>6, <2>1 DEF TakenShape, EndShape
  <2>3. /\ \A y \in Tasks : y # x => tstate'[y] = tstate[y] /\ texc'[y] = texc[y]
        /\ tstate'[x] = "canceled" /\ texc'[x] = holder
    <3>1. (IF userExc[t] THEN holder ELSE None) = holder
      BY <2>2
    <3>2. CASE Done(x)
      <4>1. tstate[x] = "canceled" /\ texc[x] = holder
        BY <1>1, <2>2, <3>2 DEF EndShape, Done
      <4> QED
        BY <1>14, <3>2, <4>1 DEF CancelEach, CancelOne
    <3>3. CASE ~Done(x)
      BY <1>2, <1>14, <3>1, <3>3 DEF CancelEach, CancelOne
    <3> QED
      BY <3>2, <3>3
  <2>4. ToldShape'
    BY <1>1, <1>4, <2>1 DEF ToldShape, Setting, Canceling, Outside, Triggered
  <2>5. TakenShape'
    BY <1>1, <2>1, <2>3 DEF TakenShape, Triggered
  <2>6. EndShape'
    BY <1>1, <1>3, <1>4, <2>1, <2>2, <2>3 DEF EndShape, ToldShape, Triggered, Done
  <2> QED
    BY <2>4, <2>5, <2>6 DEF AnyShape
<1> QED
  BY <1>7, <1>8, <1>9, <1>10, <1>11, <1>12, <1>13, <1>14 DEF Step

\* Every step preserves AnyInv.
LEMMA AnyInvStep == AnyInv /\ [CombNext]_combVars => AnyInv'
<1> SUFFICES ASSUME AnyInv, [CombNext]_combVars
             PROVE  AnyInv'
  OBVIOUS
<1>1. BInv' /\ TypeOK' /\ (use' = "any" => use = "any")
  BY BInvStep, CombTypes DEF AnyInv, CombNext, combVars, blockVars, ReportAll, ReportAny, Count,
     Last, Delete, AskCancel
<1> SUFFICES ASSUME use = "any"
             PROVE  AnyShape'
  BY <1>1 DEF AnyInv
<1>2. ASSUME NEW t \in Threads, ReportAny(t) \/ Count(t) \/ Last(t) \/ Delete(t)
      PROVE  AnyShape'
  BY <1>2, ReportAnyKeeps, CountAnyKeeps, LastAnyKeeps, DeleteAnyKeeps
<1>3. ASSUME NEW t \in Threads, E!Step(t), UNCHANGED blockVars
      PROVE  AnyShape'
  BY <1>3, SameStep, StepAnyKeeps
<1>4. CASE AskCancel
  <2>1. Returned \in Tasks /\ tstate \in [Tasks -> {"none", "created", "pending", "completed", "canceled"}]
    BY CombAssumption DEF Returned, AnyInv, TypeOK
  <2>2. /\ UNCHANGED <<eventVars, threadVars, use, fate, stage, count, texc>> /\ asked' = TRUE
        /\ tstate[Returned] = "created" /\ tstate'[Returned] = "pending"
        /\ \A x \in Tasks : x # Returned => tstate'[x] = tstate[x]
    BY <1>4, <2>1 DEF AskCancel, E!AsyncCancel, E!eventVars, eventVars, E!threadVars, threadVars
  <2>3. ToldShape /\ TakenShape /\ EndShape
    BY DEF AnyInv, AnyShape
  <2> USE DEF eventVars, threadVars
  <2>4. ToldShape'
    BY <2>2, <2>3 DEF ToldShape, Setting, Canceling, Outside, Triggered, Counted, Succeeded, Failed
  <2>5. TakenShape' /\ EndShape'
    BY <2>1, <2>2, <2>3 DEF TakenShape, EndShape, Triggered, Done, Failed
  <2> QED
    BY <2>4, <2>5 DEF AnyShape
<1>5. CASE UNCHANGED combVars
  BY <1>5 DEF AnyInv, AnyShape, ToldShape, TakenShape, EndShape, Setting, Canceling, Outside,
     Triggered, Done, Counted, Succeeded, Failed, combVars, vars, blockVars, eventVars, threadVars,
     taskVars
<1> QED
  BY <1>2, <1>3, <1>4, <1>5 DEF CombNext, ReportAll

\* The invariant of when_any and its event, whose set() may overlap the storing of
\* an exception.
THEOREM WhenAnyInvariant == CombSpec => []AnyInv
  BY AnyInvInit, AnyInvStep, PTL DEF CombSpec

\* The task of when_any ends as one of its antecedents did, however their reports
\* overlap: with a value if one has a value and no token asked it to cancel, and
\* else with the exception of one that failed, if any did.
THEOREM WhenAnyOutcome == CombSpec => [](use = "any" => OutcomeFollows)
<1>1. AnyInv => (use = "any" => OutcomeFollows)
  <2> SUFFICES ASSUME AnyInv, use = "any", ~alive
               PROVE  /\ Done(Returned)
                      /\ tstate[Returned] = "completed" => Succeeded # {}
                      /\ Succeeded # {} /\ ~asked => tstate[Returned] = "completed"
                      /\ texc[Returned] # None => texc[Returned] \in Failed
                      /\ Succeeded = {} /\ Failed # {} => texc[Returned] # None
    BY DEF OutcomeFollows, Succeeds
  <2>1. ToldShape /\ TakenShape /\ EndShape /\ TypeOK /\ BlockShape
    BY DEF AnyInv, AnyShape, BInv
  <2>2. Returned \in Tasks
    BY CombAssumption DEF Returned
  <2>3. \A t \in Threads : stage[t] = "gone" /\ Outside(t)
    BY <2>1 DEF BlockShape
  <2>4. Triggered /\ tasks = {} /\ \A t \in Threads : todo[t] = {}
    BY <2>1, <2>3 DEF ToldShape, TakenShape, Outside
  <2>5. Done(Returned)
    BY <2>1, <2>2, <2>4 DEF TypeOK, TakenShape, EndShape, Done
  <2>6. Succeeded # {} <=> hasValue
    BY <2>1, <2>3 DEF ToldShape, Succeeded, Outside
  <2>7. hasValue => ~isCanceled
    BY <2>1 DEF ToldShape
  <2>8. tstate[Returned] = "completed" => Succeeded # {}
    BY <2>1, <2>6 DEF EndShape
  <2>9. Succeeded # {} /\ ~asked => tstate[Returned] = "completed"
    BY <2>1, <2>5, <2>6, <2>7 DEF EndShape, Done
  <2>10. texc[Returned] # None => texc[Returned] \in Failed
    BY <2>1 DEF EndShape
  <2>11. ASSUME Succeeded = {}, Failed # {}
         PROVE  texc[Returned] # None
    <3>1. ~hasValue /\ isCanceled
      BY <2>4, <2>6, <2>11 DEF Triggered
    <3>2. holder # None
      BY <2>1, <2>3, <2>11, <3>1 DEF ToldShape, Failed
    <3> QED
      BY <2>1, <2>5, <3>1, <3>2 DEF EndShape
  <2> QED
    BY <2>5, <2>8, <2>9, <2>10, <2>11
<1> QED
  BY <1>1, WhenAnyInvariant, PTL

\* The tasks that when_all and when_any return end as their antecedents did, in
\* whichever order these report and whatever they had become.
THEOREM CombinedOutcome == ~Mixed => (CombSpec => []OutcomeFollows)
<1> SUFFICES ASSUME ~Mixed
             PROVE  CombSpec => []OutcomeFollows
  OBVIOUS
<1>1. CombSpec => [](use = "all" => OutcomeFollows)
  BY WhenAllOutcome
<1>2. /\ BInv /\ (use = "all" => OutcomeFollows) /\ (use = "any" => OutcomeFollows)
      => OutcomeFollows
  BY DEF BInv, StageOK, OutcomeFollows
<1> QED
  BY <1>1, <1>2, BlockInvariant, WhenAnyOutcome, PTL

\* Where nobody combines anything the event is that of its clients.
LEMMA ClientInvariant == ~Mixed => (CombSpec => [](use = "client" => IInv))
<1> SUFFICES ASSUME ~Mixed
             PROVE  CombSpec => [](use = "client" => IInv)
  OBVIOUS
<1> DEFINE Client == use = "client" => IInv
<1>1. CombInit => Client
  BY IInvInit DEF CombInit
<1>2. ASSUME Client, [CombNext]_combVars
      PROVE  Client'
  <2> SUFFICES ASSUME use' = "client"
               PROVE  IInv'
    OBVIOUS
  <2>1. use = "client"
    BY <1>2 DEF CombNext, combVars, blockVars, ReportAll, ReportAny, Count, Last, Delete, AskCancel,
       At
  <2>2. [Next]_vars
    BY <1>2, <2>1 DEF CombNext, combVars, blockVars, ReportAll, ReportAny, Count, Last, Delete,
       AskCancel, At
  <2> QED
    BY <1>2, <2>1, <2>2, IInvStep
<1> HIDE DEF Client
<1>3. CombSpec => []Client
  BY <1>1, <1>2, PTL DEF CombSpec
<1> QED
  BY <1>3 DEF Client

\* What an event promises its tasks holds of the event of a client, of when_all and
\* of when_any: they agree, they follow the call that won, and none is forgotten
\* once the event is decided.
THEOREM EventKeepsPromises ==
  ~Mixed => (CombSpec => [](TasksAgree /\ WinnerDecides /\ NoneForgotten))
<1> SUFFICES ASSUME ~Mixed
             PROVE  CombSpec => [](TasksAgree /\ WinnerDecides /\ NoneForgotten)
  OBVIOUS
<1>1. IInv => TasksAgree /\ WinnerDecides /\ NoneForgotten
  BY DEF IInv, HolderShape, OutcomeShape, ListShape, TasksAgree, WinnerDecides, NoneForgotten,
     Decided, Done
<1>2. AnyInv /\ use = "any" => TasksAgree /\ WinnerDecides /\ NoneForgotten
  <2> SUFFICES ASSUME AnyInv, use = "any"
               PROVE  TasksAgree /\ WinnerDecides /\ NoneForgotten
    OBVIOUS
  <2>1. ToldShape /\ TakenShape /\ EndShape
    BY DEF AnyInv, AnyShape
  <2>2. \A x \in Tasks : texc[x] # None \/ tstate[x] # "none" => x = Returned
    BY <2>1 DEF EndShape
  <2>3. TasksAgree
    BY <2>1, <2>2 DEF EndShape, TasksAgree
  <2>4. WinnerDecides
    BY <2>1, <2>2 DEF EndShape, WinnerDecides, Triggered, Done
  <2>5. NoneForgotten
    BY <2>1 DEF TakenShape, NoneForgotten, Decided, Triggered
  <2> QED
    BY <2>3, <2>4, <2>5
<1>3. CombSpec => [](use = "client" => IInv)
  BY ClientInvariant
<1>4. CombSpec => [](use = "all" => TasksAgree /\ WinnerDecides /\ NoneForgotten)
  BY WhenAllKeepsPromises
<1>5. BInv => use \in {"client", "all", "any"}
  BY DEF BInv, StageOK
<1>6. /\ BInv /\ AnyInv
      /\ use = "client" => IInv
      /\ use = "all" => TasksAgree /\ WinnerDecides /\ NoneForgotten
      => TasksAgree /\ WinnerDecides /\ NoneForgotten
  BY <1>1, <1>2, <1>5
<1> QED
  BY <1>3, <1>4, <1>6, BlockInvariant, WhenAnyInvariant, PTL

----------------------------------------------------------------------------
(* Waiting for the task returned *)

\* When all are counted one of them is in the block, until it is deleted.
LastShape ==
  use # "client" /\ Threads # {} /\ Counted = Threads =>
    ~alive \/ \E t \in Threads : InBlock(t)

\* As long as the task returned has not ended there is an antecedent or a
\* continuation of one that has not: the task is not left without a thread to
\* complete it, whichever was counted last and whoever triggered the event.
SomebodyCompletes ==
  use # "client" /\ Threads # {} /\ ~Done(Returned) =>
    \E t \in Threads : stage[t] # "gone"

\* The continuation that makes the count full stays in the block, and leaves it
\* when it has deleted it.
LEMMA LastStep ==
  ASSUME BInv, LastShape, [CombNext]_combVars
  PROVE  LastShape'
<1> SUFFICES ASSUME use' # "client", Threads # {}, Counted' = Threads
             PROVE  ~alive' \/ \E t \in Threads : InBlock(t)'
  BY DEF LastShape
<1> USE DEF At, Stage
<1>0. use # "client" /\ stage \in [Threads -> {"antecedent", "reporting", "last", "deleting", "gone"}]
  BY DEF BInv, StageOK, CombNext, combVars, blockVars, ReportAll, ReportAny, Count, Last, Delete,
     AskCancel
<1>1. ASSUME UNCHANGED <<stage, alive>>
      PROVE  ~alive' \/ \E t \in Threads : InBlock(t)'
  BY <1>0, <1>1 DEF LastShape, Counted, InBlock
<1>2. ASSUME NEW t \in Threads, ReportAll(t) \/ ReportAny(t)
      PROVE  FALSE
  <2>1. stage' = [stage EXCEPT ![t] = "reporting"]
    BY <1>2 DEF ReportAll, ReportAny
  <2>2. t \notin Counted'
    BY <1>0, <2>1 DEF Counted
  <2> QED
    BY <2>2
<1>3. ASSUME NEW t \in Threads, Count(t)
      PROVE  \E u \in Threads : InBlock(u)'
  <2>1. /\ stage[t] = "reporting" /\ count' = count + 1
        /\ stage' = [stage EXCEPT ![t] = IF count' = Cardinality(Threads) THEN "last" ELSE "gone"]
    BY <1>3 DEF Count
  <2>2. BInv'
    BY <1>3, CountKeeps
  <2>3. count' = Cardinality(Threads)
    BY <2>2 DEF BInv, BlockShape
  <2>4. stage'[t] = "last"
    BY <1>0, <2>1, <2>3
  <2> QED
    BY <2>4 DEF InBlock
<1>4. ASSUME NEW t \in Threads, Last(t)
      PROVE  \E u \in Threads : InBlock(u)'
  <2>1. stage'[t] = "deleting"
    BY <1>0, <1>4 DEF Last
  <2> QED
    BY <2>1 DEF InBlock
<1>5. ASSUME NEW t \in Threads, Delete(t)
      PROVE  ~alive'
  BY <1>5 DEF Delete, Destroyed
<1>6. ASSUME NEW t \in Threads, E!Step(t), UNCHANGED blockVars
      PROVE  UNCHANGED <<stage, alive>>
  <2>1. pc \in [Threads -> Place]
    BY DEF BInv, StageOK
  <2> QED
    BY <1>6, <2>1, StepFrame DEF blockVars
<1>7. CASE AskCancel
  <2>1. UNCHANGED <<stage, alive>>
    BY <1>7 DEF AskCancel, E!AsyncCancel, E!eventVars
  <2> QED
    BY <1>1, <2>1
<1>8. CASE UNCHANGED combVars
  <2>1. UNCHANGED <<stage, alive>>
    BY <1>8 DEF combVars, vars, blockVars, eventVars
  <2> QED
    BY <1>1, <2>1
<1> QED
  BY <1>0, <1>1, <1>2, <1>3, <1>4, <1>5, <1>6, <1>7, <1>8 DEF CombNext

\* The task of when_all and of when_any is completed before the last continuation is
\* over, also when all antecedents were canceled or a token asked it to cancel.
THEOREM CombinedIsCompleted == ~Mixed => (CombSpec => []SomebodyCompletes)
<1> SUFFICES ASSUME ~Mixed
             PROVE  CombSpec => []SomebodyCompletes
  OBVIOUS
<1>1. CombInit => LastShape
  BY DEF CombInit, LastShape, Counted
<1>2. BInv /\ LastShape /\ [CombNext]_combVars => LastShape'
  BY LastStep
<1>3. CombSpec => []OutcomeFollows
  BY CombinedOutcome
<1>4. BInv /\ LastShape /\ OutcomeFollows => SomebodyCompletes
  <2> SUFFICES ASSUME BInv, LastShape, OutcomeFollows, use # "client", Threads # {},
                      \A t \in Threads : stage[t] = "gone"
               PROVE  Done(Returned)
    BY DEF SomebodyCompletes
  <2>1. Counted = Threads /\ \A t \in Threads : ~InBlock(t)
    BY DEF Counted, InBlock
  <2>2. ~alive
    BY <2>1 DEF LastShape
  <2> QED
    BY <2>2 DEF OutcomeFollows
<1> QED
  BY <1>1, <1>2, <1>3, <1>4, BlockInvariant, PTL DEF CombSpec

=============================================================================
