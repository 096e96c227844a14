------------------------- MODULE CancellationToken -------------------------
(***************************************************************************)
(* One pplx cancellation token (_CancellationTokenState) and the callbacks  *)
(* registered with it (_CancellationTokenRegistration), as several threads  *)
(* register, cancel, deregister and drop handles concurrently.              *)
(*                                                                         *)
(* Atomicity follows the code: a step is one atomic read-modify-write on    *)
(* _M_stateFlag or _M_state, one section under _M_listLock, or one change   *)
(* of a reference count.  The linked list of registrations is a set: its    *)
(* order is not observable, because a callback runs user code of any        *)
(* length.                                                                  *)
(***************************************************************************)
EXTENDS Integers, FiniteSets

CONSTANTS
  Threads,      \* threads that use the token
  Regs,         \* registrations that may be created, each once
  NoReg         \* "no registration"

ASSUME TokenAssumption ==
  /\ Threads \cap {"clear", "defer", "sync", "called"} = {}
  /\ NoReg \notin Regs

VARIABLES
  flag,      \* _M_stateFlag: 0, 1 (cancel called), 2 (all callbacks made)
  list,      \* _M_registrations
  rundown,   \* the canceling thread's rundownList, not yet visited part
  alive,     \* the token object has not been destroyed
  late,      \* register_callback has overlapped or followed cancel (history)
  rst,       \* _M_state of each registration: a named state or a thread id
  refs,      \* _M_refCount of each registration; 0 is "deleted"
  made,      \* registrations whose object was ever created
  handle,    \* registrations whose cancellation_token_registration exists
  dereg,     \* "no", "busy", "done": progress of deregister_callback
  event,     \* registrations whose _M_pSyncBlock event is set
  calls,     \* how often each callback has been entered (history)
  op,        \* the token method each thread is in
  inv,       \* where each thread is in _Invoke
  cb,        \* the registration each thread is invoking or registering
  der,       \* where each thread is in _DeregisterCallback
  dr         \* the registration each thread is deregistering

tokenVars == <<flag, list, rundown, alive, late>>
regVars == <<rst, refs, made, handle, dereg, event, calls>>
threadVars == <<op, inv, cb, der, dr>>
vars == <<tokenVars, regVars, threadVars>>

RegState == {"clear", "defer", "sync", "called"} \cup Threads

\* The types of the variables: _M_stateFlag takes its three values, and _M_state
\* is one of its named values or the id of the thread that runs the callback.
TypeOK ==
  /\ flag \in 0..2
  /\ list \in SUBSET Regs
  /\ rundown \in SUBSET Regs
  /\ alive \in BOOLEAN
  /\ late \in BOOLEAN
  /\ rst \in [Regs -> RegState]
  /\ refs \in [Regs -> Int]
  /\ made \in SUBSET Regs
  /\ handle \in SUBSET Regs
  /\ dereg \in [Regs -> {"no", "busy", "done"}]
  /\ event \in SUBSET Regs
  /\ calls \in [Regs -> Nat]
  /\ op \in [Threads -> {"idle", "register", "inline", "swap", "rundown"}]
  /\ inv \in [Threads -> {"none", "cas", "exec", "signal", "release"}]
  /\ cb \in [Threads -> Regs \cup {NoReg}]
  /\ der \in [Threads -> {"none", "cas", "exchange", "wait"}]
  /\ dr \in [Threads -> Regs \cup {NoReg}]

Init ==
  /\ flag = 0
  /\ list = {}
  /\ rundown = {}
  /\ alive = TRUE
  /\ late = FALSE
  /\ rst = [r \in Regs |-> "called"]
  /\ refs = [r \in Regs |-> 0]
  /\ made = {}
  /\ handle = {}
  /\ dereg = [r \in Regs |-> "no"]
  /\ event = {}
  /\ calls = [r \in Regs |-> 0]
  /\ op = [t \in Threads |-> "idle"]
  /\ inv = [t \in Threads |-> "none"]
  /\ cb = [t \in Threads |-> NoReg]
  /\ der = [t \in Threads |-> "none"]
  /\ dr = [t \in Threads |-> NoReg]

----------------------------------------------------------------------------
(* Threads and reference counts *)

\* A thread that is in no method of the token.
Free(t) == op[t] = "idle" /\ inv[t] = "none" /\ der[t] = "none"

\* A thread running client code: outside the token, or inside a callback.
InClientCode(t) == der[t] = "none" /\ (Free(t) \/ inv[t] = "exec")

\* _RefCounter::_Release.  The object is deleted at the 1 -> 0 transition.
Release(r) == refs' = [refs EXCEPT ![r] = @ - 1]

----------------------------------------------------------------------------
(* _RegisterCallback *)

\* The registration is allocated with one reference for the handle,
\* _M_state is cleared, _Reference() takes the list's reference, and the
\* flag is read once without the lock.
Register(t, r) ==
  /\ alive /\ Free(t)
  /\ r \notin made
  /\ late' = (late \/ flag # 0)
  /\ made' = made \cup {r}
  /\ rst' = [rst EXCEPT ![r] = "clear"]
  /\ refs' = [refs EXCEPT ![r] = 2]
  /\ cb' = [cb EXCEPT ![t] = r]
  /\ IF flag = 0
       THEN /\ op' = [op EXCEPT ![t] = "register"]
            /\ UNCHANGED inv
       ELSE /\ op' = [op EXCEPT ![t] = "inline"]
            /\ inv' = [inv EXCEPT ![t] = "cas"]
  /\ UNCHANGED <<flag, list, rundown, alive, handle, dereg, event, calls, der,
                 dr>>

\* Mutant of RegisterListed: the flag is not read again under the lock.
RegisterListedUnchecked(t) ==
  /\ op[t] = "register"
  /\ list' = list \cup {cb[t]}
  /\ handle' = handle \cup {cb[t]}
  /\ op' = [op EXCEPT ![t] = "idle"]
  /\ cb' = [cb EXCEPT ![t] = NoReg]
  /\ UNCHANGED <<flag, rundown, alive, late, rst, refs, made, dereg, event, calls,
                 inv, der, dr>>

\* Under _M_listLock the flag is read again and the registration is listed.
RegisterListed(t) ==
  /\ op[t] = "register" /\ flag = 0
  /\ list' = list \cup {cb[t]}
  /\ handle' = handle \cup {cb[t]}
  /\ op' = [op EXCEPT ![t] = "idle"]
  /\ cb' = [cb EXCEPT ![t] = NoReg]
  /\ UNCHANGED <<flag, rundown, alive, late, rst, refs, made, dereg, event, calls,
                 inv, der, dr>>

\* The token was canceled in between: the callback is invoked right here.
RegisterTooLate(t) ==
  /\ op[t] = "register" /\ flag # 0
  /\ op' = [op EXCEPT ![t] = "inline"]
  /\ inv' = [inv EXCEPT ![t] = "cas"]
  /\ UNCHANGED <<tokenVars, regVars, cb, der, dr>>

\* The inline invocation is over and register_callback returns the handle.
RegisterReturn(t) ==
  /\ op[t] = "inline" /\ inv[t] = "none"
  /\ handle' = handle \cup {cb[t]}
  /\ op' = [op EXCEPT ![t] = "idle"]
  /\ cb' = [cb EXCEPT ![t] = NoReg]
  /\ UNCHANGED <<tokenVars, rst, refs, made, dereg, event, calls, inv, der,
                 dr>>

----------------------------------------------------------------------------
(* _Invoke *)

\* Claim the registration: CAS(_M_state, CLEAR -> thread id).
InvokeClaim(t) ==
  /\ inv[t] = "cas" /\ rst[cb[t]] = "clear"
  /\ rst' = [rst EXCEPT ![cb[t]] = t]
  /\ calls' = [calls EXCEPT ![cb[t]] = @ + 1]
  /\ inv' = [inv EXCEPT ![t] = "exec"]
  /\ UNCHANGED <<tokenVars, refs, made, handle, dereg, event, op, cb, der, dr>>

\* Somebody deregistered it first: the callback is skipped.
InvokeSkip(t) ==
  /\ inv[t] = "cas" /\ rst[cb[t]] # "clear"
  /\ inv' = [inv EXCEPT ![t] = "release"]
  /\ UNCHANGED <<tokenVars, regVars, op, cb, der, dr>>

\* Mutant of ExecReturn: the result of the second CAS is not looked at.
ExecReturnNoSignal(t) ==
  /\ inv[t] = "exec" /\ der[t] = "none"
  /\ rst' = [rst EXCEPT ![cb[t]] = IF @ = t THEN "called" ELSE @]
  /\ inv' = [inv EXCEPT ![t] = "release"]
  /\ UNCHANGED <<tokenVars, refs, made, handle, dereg, event, calls, op, cb,
                 der, dr>>

\* The callback returns: CAS(_M_state, thread id -> CALLED) tells whether a
\* deregistering thread waits for it.
ExecReturn(t) ==
  /\ inv[t] = "exec" /\ der[t] = "none"
  /\ IF rst[cb[t]] = t
       THEN /\ rst' = [rst EXCEPT ![cb[t]] = "called"]
            /\ inv' = [inv EXCEPT ![t] = "release"]
       ELSE /\ inv' = [inv EXCEPT ![t] =
                         IF rst[cb[t]] = "sync" THEN "signal" ELSE "release"]
            /\ UNCHANGED rst
  /\ UNCHANGED <<tokenVars, refs, made, handle, dereg, event, calls, op, cb,
                 der, dr>>

\* _M_pSyncBlock->set()
InvokeSignal(t) ==
  /\ inv[t] = "signal"
  /\ event' = event \cup {cb[t]}
  /\ inv' = [inv EXCEPT ![t] = "release"]
  /\ UNCHANGED <<tokenVars, rst, refs, made, handle, dereg, calls, op, cb, der,
                 dr>>

\* _Release() of the reference the list held.
InvokeRelease(t) ==
  /\ inv[t] = "release"
  /\ Release(cb[t])
  /\ inv' = [inv EXCEPT ![t] = "none"]
  /\ cb' = [cb EXCEPT ![t] = IF op[t] = "inline" THEN @ ELSE NoReg]
  /\ UNCHANGED <<tokenVars, rst, made, handle, dereg, event, calls, op, der,
                 dr>>

----------------------------------------------------------------------------
(* _Cancel.  A call that finds _M_stateFlag set returns at once and changes *)
(* nothing, so only the winning call has steps.                             *)

\* Mutant of CancelBegin: an increment in the place of the CAS.
CancelBeginTwice(t) ==
  /\ alive /\ Free(t)
  /\ flag' = flag + 1
  /\ late' = (late \/ \E s \in Threads : op[s] = "register")
  /\ op' = [op EXCEPT ![t] = "swap"]
  /\ UNCHANGED <<list, rundown, alive, regVars, inv, cb, der, dr>>

CancelBegin(t) ==
  /\ alive /\ Free(t) /\ flag = 0
  /\ flag' = 1
  /\ late' = (late \/ \E s \in Threads : op[s] = "register")
  /\ op' = [op EXCEPT ![t] = "swap"]
  /\ UNCHANGED <<list, rundown, alive, regVars, inv, cb, der, dr>>

\* Under _M_listLock the whole list moves to the local rundownList.
CancelSwap(t) ==
  /\ op[t] = "swap"
  /\ rundown' = list
  /\ list' = {}
  /\ op' = [op EXCEPT ![t] = "rundown"]
  /\ UNCHANGED <<flag, alive, late, regVars, inv, cb, der, dr>>

\* The next registration of rundownList is invoked.
CancelNext(t, r) ==
  /\ op[t] = "rundown" /\ inv[t] = "none"
  /\ r \in rundown
  /\ rundown' = rundown \ {r}
  /\ cb' = [cb EXCEPT ![t] = r]
  /\ inv' = [inv EXCEPT ![t] = "cas"]
  /\ UNCHANGED <<flag, list, alive, late, regVars, op, der, dr>>

\* _M_stateFlag = 2 and cancel() returns.
CancelReturn(t) ==
  /\ op[t] = "rundown" /\ inv[t] = "none" /\ rundown = {}
  /\ flag' = 2
  /\ op' = [op EXCEPT ![t] = "idle"]
  /\ UNCHANGED <<list, rundown, alive, late, regVars, inv, cb, der, dr>>

----------------------------------------------------------------------------
(* _DeregisterCallback.  The client calls it at most once per registration  *)
(* and keeps the handle until it returns.                                   *)

CanDeregister(t, r) ==
  alive /\ InClientCode(t) /\ r \in handle /\ dereg[r] = "no"

\* Mutant of DeregisterFromList: the list's reference is not released.
DeregisterFromListLeak(t, r) ==
  /\ CanDeregister(t, r) /\ list # {}
  /\ list' = list \ {r}
  /\ rst' = [rst EXCEPT ![r] = "sync"]
  /\ dereg' = [dereg EXCEPT ![r] = "done"]
  /\ UNCHANGED <<flag, rundown, alive, late, refs, made, handle, event, calls,
                 threadVars>>

\* Under _M_listLock, list not empty: the entry is removed, _M_state becomes
\* SYNCHRONIZE and the list's reference is released.
DeregisterFromList(t, r) ==
  /\ CanDeregister(t, r) /\ list # {}
  /\ list' = list \ {r}
  /\ rst' = [rst EXCEPT ![r] = "sync"]
  /\ Release(r)
  /\ dereg' = [dereg EXCEPT ![r] = "done"]
  /\ UNCHANGED <<flag, rundown, alive, late, made, handle, event, calls, threadVars>>

\* Under _M_listLock, list empty: the thread has to synchronize.
DeregisterSynchronize(t, r) ==
  /\ CanDeregister(t, r) /\ list = {}
  /\ der' = [der EXCEPT ![t] = "cas"]
  /\ dr' = [dr EXCEPT ![t] = r]
  /\ dereg' = [dereg EXCEPT ![r] = "busy"]
  /\ UNCHANGED <<tokenVars, rst, refs, made, handle, event, calls, op, inv, cb>>

\* deregister_callback returns.
DeregisterReturn(t) ==
  /\ der' = [der EXCEPT ![t] = "none"]
  /\ dr' = [dr EXCEPT ![t] = NoReg]
  /\ dereg' = [dereg EXCEPT ![dr[t]] = "done"]

\* Mutant of DeregisterCas: it releases the registration it defers, as the
\* branch that takes it off the list does.
DeregisterCasRelease(t) ==
  /\ der[t] = "cas"
  /\ LET r == dr[t] IN
       \/ /\ rst[r] = "clear"
          /\ rst' = [rst EXCEPT ![r] = "defer"]
          /\ Release(r)
          /\ DeregisterReturn(t)
       \/ /\ rst[r] \in {"called", "defer", "sync", t}
          /\ DeregisterReturn(t)
          /\ UNCHANGED <<rst, refs>>
       \/ /\ rst[r] \in Threads \ {t}
          /\ der' = [der EXCEPT ![t] = "exchange"]
          /\ UNCHANGED <<rst, dr, dereg, refs>>
  /\ UNCHANGED <<tokenVars, made, handle, event, calls, op, inv, cb>>

\* CAS(_M_state, CLEAR -> DEFER_DELETE): a callback not yet made is
\* suppressed; one already made, or running on this very thread, needs
\* nothing; otherwise the thread goes on to synchronize.
DeregisterCas(t) ==
  /\ der[t] = "cas"
  /\ LET r == dr[t] IN
       \/ /\ rst[r] = "clear"
          /\ rst' = [rst EXCEPT ![r] = "defer"]
          /\ DeregisterReturn(t)
       \/ /\ rst[r] \in {"called", "defer", "sync", t}
          /\ DeregisterReturn(t)
          /\ UNCHANGED rst
       \/ /\ rst[r] \in Threads \ {t}
          /\ der' = [der EXCEPT ![t] = "exchange"]
          /\ UNCHANGED <<rst, dr, dereg>>
  /\ UNCHANGED <<tokenVars, refs, made, handle, event, calls, op, inv, cb>>

\* Mutant of DeregisterExchange: it never waits.
DeregisterExchangeNoWait(t) ==
  /\ der[t] = "exchange"
  /\ rst' = [rst EXCEPT ![dr[t]] = "sync"]
  /\ DeregisterReturn(t)
  /\ UNCHANGED <<tokenVars, refs, made, handle, event, calls, op, inv, cb>>

\* _M_pSyncBlock is set, then exchange(_M_state, SYNCHRONIZE) tells whether
\* the callback finished meanwhile.
DeregisterExchange(t) ==
  /\ der[t] = "exchange"
  /\ rst' = [rst EXCEPT ![dr[t]] = "sync"]
  /\ IF rst[dr[t]] = "called"
       THEN DeregisterReturn(t)
       ELSE /\ der' = [der EXCEPT ![t] = "wait"]
            /\ UNCHANGED <<dr, dereg>>
  /\ UNCHANGED <<tokenVars, refs, made, handle, event, calls, op, inv, cb>>

\* _M_pSyncBlock->wait() returns.
DeregisterWoken(t) ==
  /\ der[t] = "wait" /\ dr[t] \in event
  /\ DeregisterReturn(t)
  /\ UNCHANGED <<tokenVars, rst, refs, made, handle, event, calls, op, inv, cb>>

----------------------------------------------------------------------------
(* Handles and the end of the token *)

\* ~cancellation_token_registration
DropHandle(t, r) ==
  /\ InClientCode(t)
  /\ r \in handle /\ dereg[r] # "busy"
  /\ handle' = handle \ {r}
  /\ Release(r)
  /\ UNCHANGED <<tokenVars, rst, made, dereg, event, calls, threadVars>>

\* ~_CancellationTokenState, once nobody holds a reference to the token: the
\* callbacks still listed can never be made and are released.
DestroyToken ==
  /\ alive /\ \A t \in Threads : Free(t)
  /\ alive' = FALSE
  /\ list' = {}
  /\ rst' = [r \in Regs |-> IF r \in list THEN "sync" ELSE rst[r]]
  /\ refs' = [r \in Regs |-> IF r \in list THEN refs[r] - 1 ELSE refs[r]]
  /\ UNCHANGED <<flag, rundown, late, made, handle, dereg, event, calls,
                 threadVars>>

----------------------------------------------------------------------------

\* The steps a thread takes once it is inside a method of the token.
Step(t) ==
  \/ RegisterListed(t) \/ RegisterTooLate(t) \/ RegisterReturn(t)
  \/ InvokeClaim(t) \/ InvokeSkip(t) \/ ExecReturn(t)
  \/ InvokeSignal(t) \/ InvokeRelease(t)
  \/ CancelSwap(t) \/ CancelReturn(t)
  \/ \E r \in Regs : CancelNext(t, r)
  \/ DeregisterCas(t) \/ DeregisterExchange(t) \/ DeregisterWoken(t)

\* The calls a client may make.
Call(t) ==
  \/ CancelBegin(t)
  \/ \E r \in Regs :
       \/ Register(t, r)
       \/ DeregisterFromList(t, r)
       \/ DeregisterSynchronize(t, r)
       \/ DropHandle(t, r)

Next ==
  \/ \E t \in Threads : Step(t) \/ Call(t)
  \/ DestroyToken

Spec == Init /\ [][Next]_vars

\* A thread inside the token keeps running, and a callback returns: clients
\* may stop calling, but the code never abandons a call it has begun.
FairSpec == Spec /\ \A t \in Threads : WF_vars(Step(t))

----------------------------------------------------------------------------
(* Properties *)

One(b) == IF b THEN 1 ELSE 0

\* The references a thread has to the registration it registers or invokes:
\* the future handle's, and the one the list would have.
Owned(t) ==
  IF op[t] = "register" THEN 2
                        ELSE One(op[t] = "inline") + One(inv[t] # "none")

\* The count of a registration that nobody is registering or invoking is the
\* number of its owners: the handle, the list or the rundown list (_Reference
\* in _RegisterCallback against _Release in _Invoke, _DeregisterCallback, the
\* token's destructor and the handle's), as long as every registration was
\* complete before cancel() was called.  No double release and no leak.
RefBalance ==
  ~late =>
    /\ \A r \in Regs : (\A t \in Threads : cb[t] # r) =>
         refs[r] = One(r \in handle) + One(r \in list) + One(r \in rundown)
    /\ \A t \in Threads : cb[t] # NoReg =>
         refs[cb[t]] = One(cb[t] \in handle) + Owned(t)

\* A registration that a list, a handle or a running method can still touch
\* has not been deleted by _Release, under the same condition.
NoUseAfterFree ==
  ~late =>
    /\ \A r \in handle \cup list \cup rundown : refs[r] > 0
    /\ \A t \in Threads :
         /\ op[t] = "register" \/ inv[t] # "none" => refs[cb[t]] > 0
         /\ der[t] # "none" => refs[dr[t]] > 0

\* When deregister_callback returns, the callback is not running on another
\* thread (comment in _DeregisterCallback: "synchronize with it"), and from
\* then on it is never entered.
DeregisterIsBarrier ==
  [][\A r \in Regs :
       /\ dereg'[r] = "done" /\ dereg[r] # "done" =>
            \A t \in Threads : inv[t] = "exec" /\ cb[t] = r => dr[t] = r
       /\ dereg[r] = "done" => calls'[r] = calls[r]]_vars

\* Once cancel() has returned, every callback whose registration is complete
\* and that nobody deregistered has been made, exactly once: the flag read
\* twice in _RegisterCallback and the swap in _Cancel leave no gap.
CancelReachesAll ==
  flag = 2 => \A r \in made :
    dereg[r] = "no" /\ (\A t \in Threads : cb[t] # r) => calls[r] = 1

\* Every call of a token method returns, a deregistration that waits for a
\* callback on another thread included.
CallsReturn == \A t \in Threads : ~Free(t) ~> Free(t)

\* What _Release asserts, "_Refcount >= 0", with late registrations too.
RefcountNotNegative == \A r \in Regs : refs[r] >= 0

=============================================================================
