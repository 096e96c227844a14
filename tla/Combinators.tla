---------------------------- MODULE Combinators ----------------------------
(***************************************************************************)
(* when_all and when_any: a continuation of each antecedent reports to a    *)
(* completion event in a block that all of them share, counts itself, and   *)
(* the last one to count deletes the block and the event with it.  The task *)
(* returned waits for the event.                                           *)
(*                                                                         *)
(* The threads of TaskCompletionEvent are the antecedents' continuations,    *)
(* one thread each; where nobody combines anything they are the clients of  *)
(* an event as before.  when_any lets set() overlap _StoreException, so the *)
(* methods of the event are taken without the premise on Mixed; that        *)
(* when_all never needs that is AllUsesEventWell.                          *)
(***************************************************************************)
EXTENDS TaskCompletionEvent

\* What is combined is a range of tasks, into one.
ASSUME CombAssumption == IsFiniteSet(Threads) /\ Tasks # {}

VARIABLES
  use,    \* what the event is for
  fate,   \* how each antecedent ended
  stage,  \* where the continuation of each antecedent is
  count,  \* _M_completeCount
  asked   \* a token asked the task returned to cancel (history)

E == INSTANCE TaskCompletionEvent WITH Mixed <- TRUE

blockVars == <<use, fate, stage, count, asked>>
combVars == <<vars, blockVars>>

\* The task returned, and the one the event completes: the continuation
\* between them runs inline.
Returned == CHOOSE x \in Tasks : TRUE

Fate == {"value", "exception", "canceled"}

\* The event of _Perform, once the task returned is registered.
Prepared ==
  /\ hasValue = FALSE /\ isCanceled = FALSE /\ holder = None
  /\ tasks = {Returned} /\ alive = TRUE
  /\ pc = [t \in Threads |-> "idle"]
  /\ todo = [t \in Threads |-> {}]
  /\ userExc = [t \in Threads |-> FALSE]
  /\ won = {}
  /\ tstate = [x \in Tasks |-> IF x = Returned THEN "created" ELSE "none"]
  /\ texc = [x \in Tasks |-> None]

CombInit ==
  /\ \/ Init /\ use = "client" /\ fate = [t \in Threads |-> "value"]
     \/ Prepared /\ use \in {"all", "any"} /\ fate \in [Threads -> Fate]
  /\ stage = [t \in Threads |-> "antecedent"]
  /\ count = 0
  /\ asked = FALSE

At(t, s) == use # "client" /\ stage[t] = s
Stage(t, s) == stage' = [stage EXCEPT ![t] = s]

----------------------------------------------------------------------------
(* The continuations *)

\* _WhenAllContinuationWrapper: a value is stored, a failure cancels the event.
ReportAll(t) ==
  /\ use = "all" /\ At(t, "antecedent")
  /\ Stage(t, "reporting")
  /\ \/ fate[t] = "value" /\ UNCHANGED vars
     \/ fate[t] = "exception" /\ E!StoreException(t)
     \/ fate[t] = "canceled" /\ E!CancelBegin(t)
  /\ UNCHANGED <<use, fate, count, asked>>

\* _WhenAnyContinuationWrapper: a value sets the event, an exception is stored
\* in it for the last continuation to find.
ReportAny(t) ==
  /\ use = "any" /\ At(t, "antecedent")
  /\ Stage(t, "reporting")
  /\ \/ fate[t] = "value" /\ E!SetBegin(t)
     \/ /\ fate[t] = "exception"
        /\ holder' = IF Triggered \/ holder # None THEN holder ELSE t
        /\ UNCHANGED <<hasValue, isCanceled, tasks, alive, threadVars, taskVars>>
     \/ fate[t] = "canceled" /\ UNCHANGED vars
  /\ UNCHANGED <<use, fate, count, asked>>

\* The thread is in no method of the event.
Outside(t) == pc[t] \in {"idle", "over"}

\* Mutant of Count: the count is raised before the event is told.
CountEarly(t) ==
  /\ At(t, "reporting")
  /\ count' = count + 1
  /\ Stage(t, IF count' = Cardinality(Threads) THEN "last" ELSE "gone")
  /\ UNCHANGED <<vars, use, fate, asked>>

\* Mutant of Count: a continuation that was canceled is not counted.
CountCompleted(t) ==
  /\ At(t, "reporting") /\ Outside(t)
  /\ count' = IF fate[t] = "value" THEN count + 1 ELSE count
  /\ Stage(t, IF count' = Cardinality(Threads) THEN "last" ELSE "gone")
  /\ UNCHANGED <<vars, use, fate, asked>>

\* atomic_increment, when the event was told: the continuation is over, unless
\* it is the last.
Count(t) ==
  /\ At(t, "reporting") /\ Outside(t)
  /\ count' = count + 1
  /\ Stage(t, IF count' = Cardinality(Threads) THEN "last" ELSE "gone")
  /\ UNCHANGED <<vars, use, fate, asked>>

\* The last continuation of when_all sets the event if its antecedent has a
\* value, and of when_any cancels it if nobody has triggered it.
LastCalls(t) ==
  \/ use = "all" /\ fate[t] = "value"
  \/ use = "any" /\ fate[t] # "value" /\ ~Triggered

\* Mutant of Last: when_any leaves its task to the destructor of the event.
LastSets(t) ==
  /\ At(t, "last")
  /\ Stage(t, "deleting")
  /\ IF LastCalls(t) /\ use = "all" THEN E!SetBegin(t) ELSE UNCHANGED vars
  /\ UNCHANGED <<use, fate, count, asked>>

Last(t) ==
  /\ At(t, "last")
  /\ Stage(t, "deleting")
  /\ IF LastCalls(t)
       THEN IF use = "all" THEN E!SetBegin(t) ELSE E!CancelBegin(t)
       ELSE UNCHANGED vars
  /\ UNCHANGED <<use, fate, count, asked>>

\* It deletes the block, and the event with it.
Delete(t) ==
  /\ At(t, "deleting") /\ Outside(t)
  /\ Stage(t, "gone")
  /\ Destroyed
  /\ UNCHANGED <<use, fate, count, asked>>

\* The joined tokens.
AskCancel ==
  /\ use # "client" /\ E!AsyncCancel(Returned)
  /\ asked' = TRUE
  /\ UNCHANGED <<use, fate, stage, count>>

----------------------------------------------------------------------------
(* The specification *)

Continue(t) ==
  \/ Count(t) \/ Last(t) \/ Delete(t)
  \/ use # "client" /\ E!Step(t) /\ UNCHANGED blockVars

CombNext ==
  \/ use = "client" /\ Next /\ UNCHANGED blockVars
  \/ \E t \in Threads : \/ ReportAll(t) \/ ReportAny(t)
                        \/ Count(t) \/ Last(t) \/ Delete(t)
                        \/ use # "client" /\ E!Step(t) /\ UNCHANGED blockVars
  \/ AskCancel

\* A thread inside a method of the event keeps running, and so does the
\* continuation of an antecedent.
CombSpec ==
  /\ CombInit /\ [][CombNext]_combVars
  /\ \A t \in Threads : WF_vars(Step(t)) /\ WF_combVars(Continue(t))

----------------------------------------------------------------------------
(* Properties *)

\* The block is deleted when every continuation has left it and the event in it
\* ("It's safe to delete it since all usage of _PParam in _ReturnTask has been
\* finished").
BlockOutlivesUse ==
  use # "client" /\ ~alive =>
    \A t \in Threads : stage[t] \in {"deleting", "gone"} /\ Outside(t)

\* when_all never lets set() overlap a cancellation, nor destroys the event
\* under a caller: its steps are steps of the event under the premise that its
\* theorems need (Mixed = FALSE).
AllUsesEventWell == [][use = "all" => [Next]_vars]_combVars

Succeeded == {t \in Threads : fate[t] = "value"}
Failed == {t \in Threads : fate[t] = "exception"}

Succeeds == IF use = "all" THEN Succeeded = Threads ELSE Succeeded # {}

\* Once all antecedents are counted, the task returned has ended as they say:
\* with a value exactly if all of them (when_all) or one of them (when_any) has
\* one and no token asked it to cancel, and with the exception of one that
\* failed if none was canceled (when_all) or none has a value (when_any).
OutcomeFollows ==
  use # "client" /\ ~alive =>
    /\ Done(Returned)
    /\ tstate[Returned] = "completed" => Succeeds
    /\ Succeeds /\ ~asked => tstate[Returned] = "completed"
    /\ texc[Returned] # None => texc[Returned] \in Failed
    /\ ~Succeeds /\ Failed # {} /\ (use = "any" \/ Succeeded \cup Failed = Threads) =>
         texc[Returned] # None

\* The task returned ends when all antecedents have, canceled ones included.
CombinedCompletes ==
  use # "client" /\ (\A t \in Threads : stage[t] # "antecedent") ~> Done(Returned)

=============================================================================
