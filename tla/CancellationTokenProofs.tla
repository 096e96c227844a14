---------------------- MODULE CancellationTokenProofs ----------------------
(***************************************************************************)
(* Proofs about CancellationToken, for any number of threads and            *)
(* registrations.  Each conjunct of the inductive invariant BarrierInv is a *)
(* fact about the code's protocol:                                          *)
(*   ThreadShape   which positions in the token's methods fit together;     *)
(*   CancelShape   one thread wins _Cancel, and only it has a rundown list; *)
(*   OwnerShape    a registration being registered or invoked belongs to    *)
(*                 one thread and is in no list;                            *)
(*   DeregShape    a deregistering thread has the handle, alone;            *)
(*   StateShape    what _M_state says about a running callback.             *)
(* Listed and RefBalance are added for the reference counts, CallShape (who *)
(* is still to make a callback, and which were made) for what cancel makes, *)
(* WaitShape for who a deregistering thread waits for.                      *)
(***************************************************************************)
EXTENDS CancellationToken, TLAPS

ThreadShape ==
  \A t \in Threads :
    /\ op[t] = "idle" => cb[t] = NoReg
    /\ cb[t] = NoReg => inv[t] = "none" /\ op[t] \in {"idle", "swap", "rundown"}
    /\ cb[t] # NoReg => \/ (op[t] = "register" /\ inv[t] = "none")
                       \/ op[t] = "inline"
                       \/ (op[t] = "rundown" /\ inv[t] # "none")
    /\ der[t] # "none" => op[t] = "idle" \/ inv[t] = "exec"
    /\ (der[t] = "none") <=> (dr[t] = NoReg)
    /\ op[t] # "idle" => alive

CancelShape ==
  /\ \A t, u \in Threads :
       op[t] \in {"swap", "rundown"} /\ op[u] \in {"swap", "rundown"} => t = u
  /\ \A t \in Threads :
       /\ op[t] \in {"swap", "rundown"} => flag = 1
       /\ op[t] = "swap" => rundown = {}
       /\ op[t] = "rundown" => list = {}
       /\ op[t] = "inline" => flag # 0
  /\ flag # 1 => rundown = {}
  /\ flag = 2 => list = {}

OwnerShape ==
  /\ handle \cup list \cup rundown \cup event \subseteq made
  /\ list \cap rundown = {}
  /\ \A t, u \in Threads : cb[t] # NoReg /\ cb[t] = cb[u] => t = u
  /\ \A t \in Threads : cb[t] # NoReg =>
       /\ cb[t] \in made /\ cb[t] \notin list \cup rundown
       /\ op[t] \in {"register", "inline"} =>
            cb[t] \notin handle /\ dereg[cb[t]] = "no"

DeregShape ==
  /\ \A r \in Regs : dereg[r] # "no" => r \in made
  /\ \A t, u \in Threads : dr[t] # NoReg /\ dr[t] = dr[u] => t = u
  /\ \A t \in Threads : dr[t] # NoReg =>
       dr[t] \in handle /\ dereg[dr[t]] = "busy"

StateShape ==
  /\ \A r \in Regs : dereg[r] = "done" => rst[r] # "clear"
  /\ \A r \in event : rst[r] = "sync"
  /\ \A t \in Threads : inv[t] = "signal" => rst[cb[t]] = "sync"
  /\ \A t \in Threads : inv[t] = "exec" =>
       /\ cb[t] \notin event
       /\ \/ rst[cb[t]] = t
          \/ /\ rst[cb[t]] = "sync"
             /\ \E u \in Threads : der[u] = "wait" /\ dr[u] = cb[t]

BarrierInv ==
  TypeOK /\ ThreadShape /\ CancelShape /\ OwnerShape /\ DeregShape /\ StateShape

\* If nobody registers once cancel() has been called, deregistration either
\* finds the registration in the list or finds the list empty.
Listed ==
  ~late =>
    /\ \A t \in Threads : op[t] # "inline" /\ (op[t] = "register" => flag = 0)
    /\ (flag = 0 /\ alive) \/ list # {} =>
         \A r \in handle : dereg[r] = "no" => r \in list

RefInv == BarrierInv /\ Listed /\ RefBalance

\* BarrierInv holds initially: no thread is in a method and nothing is registered.
LEMMA BarrierInvInit == Init => BarrierInv
<1> SUFFICES ASSUME Init
             PROVE  BarrierInv
  OBVIOUS
<1> USE TokenAssumption DEF Init
<1>1. TypeOK
  <2>1. alive \in BOOLEAN /\ late \in BOOLEAN
    OBVIOUS
  <2> QED
    BY <2>1 DEF TypeOK, RegState
<1>2. ThreadShape /\ CancelShape /\ OwnerShape
  BY DEF ThreadShape, CancelShape, OwnerShape
<1>3. DeregShape /\ StateShape
  BY DEF DeregShape, StateShape
<1> QED
  BY <1>1, <1>2, <1>3 DEF BarrierInv

\* Every step of the code preserves BarrierInv.
LEMMA BarrierInvStep == BarrierInv /\ [Next]_vars => BarrierInv'
<1> SUFFICES ASSUME BarrierInv, [Next]_vars
             PROVE  BarrierInv'
  OBVIOUS
<1> USE TokenAssumption DEF BarrierInv, TypeOK, RegState, tokenVars, regVars,
                            threadVars
<1>1. ASSUME NEW t \in Threads, RegisterListed(t)
      PROVE  BarrierInv'
  <2> USE <1>1 DEF RegisterListed
  <2>1. TypeOK'
    BY DEF ThreadShape
  <2>2. ThreadShape'
    BY DEF ThreadShape
  <2>3. CancelShape'
    BY DEF ThreadShape, CancelShape
  <2>4. OwnerShape'
    BY DEF ThreadShape, CancelShape, OwnerShape
  <2>5. DeregShape'
    BY DEF ThreadShape, OwnerShape, DeregShape
  <2>6. StateShape'
    BY DEF ThreadShape, CancelShape, OwnerShape, DeregShape, StateShape
  <2> QED
    BY <2>1, <2>2, <2>3, <2>4, <2>5, <2>6 DEF BarrierInv
<1>2. ASSUME NEW t \in Threads, RegisterTooLate(t)
      PROVE  BarrierInv'
  <2> USE <1>2 DEF RegisterTooLate
  <2>1. TypeOK'
    OBVIOUS
  <2>2. ThreadShape'
    BY DEF ThreadShape
  <2>3. CancelShape'
    BY DEF ThreadShape, CancelShape
  <2>4. OwnerShape'
    BY DEF ThreadShape, CancelShape, OwnerShape
  <2>5. DeregShape'
    BY DEF ThreadShape, OwnerShape, DeregShape
  <2>6. StateShape'
    BY DEF ThreadShape, CancelShape, OwnerShape, DeregShape, StateShape
  <2> QED
    BY <2>1, <2>2, <2>3, <2>4, <2>5, <2>6 DEF BarrierInv
<1>3. ASSUME NEW t \in Threads, RegisterReturn(t)
      PROVE  BarrierInv'
  <2> USE <1>3 DEF RegisterReturn
  <2>1. TypeOK'
    BY DEF ThreadShape
  <2>2. ThreadShape'
    BY DEF ThreadShape
  <2>3. CancelShape'
    BY DEF ThreadShape, CancelShape
  <2>4. OwnerShape'
    BY DEF ThreadShape, CancelShape, OwnerShape
  <2>5. DeregShape'
    BY DEF ThreadShape, OwnerShape, DeregShape
  <2>6. StateShape'
    BY DEF ThreadShape, CancelShape, OwnerShape, DeregShape, StateShape
  <2> QED
    BY <2>1, <2>2, <2>3, <2>4, <2>5, <2>6 DEF BarrierInv
<1>4. ASSUME NEW t \in Threads, InvokeClaim(t)
      PROVE  BarrierInv'
  <2> USE <1>4 DEF InvokeClaim
  <2>1. TypeOK'
    BY DEF ThreadShape
  <2>2. ThreadShape'
    BY DEF ThreadShape
  <2>3. CancelShape'
    BY DEF ThreadShape, CancelShape
  <2>4. OwnerShape'
    BY DEF ThreadShape, CancelShape, OwnerShape
  <2>5. DeregShape'
    BY DEF ThreadShape, OwnerShape, DeregShape
  <2>6. StateShape'
    BY DEF ThreadShape, CancelShape, OwnerShape, DeregShape, StateShape
  <2> QED
    BY <2>1, <2>2, <2>3, <2>4, <2>5, <2>6 DEF BarrierInv
<1>5. ASSUME NEW t \in Threads, InvokeSkip(t)
      PROVE  BarrierInv'
  <2> USE <1>5 DEF InvokeSkip
  <2>1. TypeOK'
    OBVIOUS
  <2>2. ThreadShape'
    BY DEF ThreadShape
  <2>3. CancelShape'
    BY DEF ThreadShape, CancelShape
  <2>4. OwnerShape'
    BY DEF ThreadShape, CancelShape, OwnerShape
  <2>5. DeregShape'
    BY DEF ThreadShape, OwnerShape, DeregShape
  <2>6. StateShape'
    BY DEF ThreadShape, CancelShape, OwnerShape, DeregShape, StateShape
  <2> QED
    BY <2>1, <2>2, <2>3, <2>4, <2>5, <2>6 DEF BarrierInv
<1>6. ASSUME NEW t \in Threads, ExecReturn(t)
      PROVE  BarrierInv'
  <2> USE <1>6 DEF ExecReturn
  <2>1. TypeOK'
    OBVIOUS
  <2>2. ThreadShape'
    BY DEF ThreadShape
  <2>3. CancelShape'
    BY DEF ThreadShape, CancelShape
  <2>4. OwnerShape'
    BY DEF ThreadShape, CancelShape, OwnerShape
  <2>5. DeregShape'
    BY DEF ThreadShape, OwnerShape, DeregShape
  <2>6. StateShape'
    BY DEF ThreadShape, CancelShape, OwnerShape, DeregShape, StateShape
  <2> QED
    BY <2>1, <2>2, <2>3, <2>4, <2>5, <2>6 DEF BarrierInv
<1>7. ASSUME NEW t \in Threads, InvokeSignal(t)
      PROVE  BarrierInv'
  <2> USE <1>7 DEF InvokeSignal
  <2>1. TypeOK'
    BY DEF ThreadShape
  <2>2. ThreadShape'
    BY DEF ThreadShape
  <2>3. CancelShape'
    BY DEF ThreadShape, CancelShape
  <2>4. OwnerShape'
    BY DEF ThreadShape, CancelShape, OwnerShape
  <2>5. DeregShape'
    BY DEF ThreadShape, OwnerShape, DeregShape
  <2>6. StateShape'
    BY DEF ThreadShape, CancelShape, OwnerShape, DeregShape, StateShape
  <2> QED
    BY <2>1, <2>2, <2>3, <2>4, <2>5, <2>6 DEF BarrierInv
<1>8. ASSUME NEW t \in Threads, InvokeRelease(t)
      PROVE  BarrierInv'
  <2> USE <1>8 DEF InvokeRelease, Release
  <2>1. TypeOK'
    BY DEF ThreadShape
  <2>2. ThreadShape'
    BY DEF ThreadShape
  <2>3. CancelShape'
    BY DEF ThreadShape, CancelShape
  <2>4. OwnerShape'
    BY DEF ThreadShape, CancelShape, OwnerShape
  <2>5. DeregShape'
    BY DEF ThreadShape, OwnerShape, DeregShape
  <2>6. StateShape'
    BY DEF ThreadShape, CancelShape, OwnerShape, DeregShape, StateShape
  <2> QED
    BY <2>1, <2>2, <2>3, <2>4, <2>5, <2>6 DEF BarrierInv
<1>9. ASSUME NEW t \in Threads, CancelSwap(t)
      PROVE  BarrierInv'
  <2> USE <1>9 DEF CancelSwap
  <2>1. TypeOK'
    OBVIOUS
  <2>2. ThreadShape'
    BY DEF ThreadShape
  <2>3. CancelShape'
    BY DEF ThreadShape, CancelShape
  <2>4. OwnerShape'
    BY DEF ThreadShape, CancelShape, OwnerShape
  <2>5. DeregShape'
    BY DEF ThreadShape, OwnerShape, DeregShape
  <2>6. StateShape'
    BY DEF ThreadShape, CancelShape, OwnerShape, DeregShape, StateShape
  <2> QED
    BY <2>1, <2>2, <2>3, <2>4, <2>5, <2>6 DEF BarrierInv
<1>10. ASSUME NEW t \in Threads, CancelReturn(t)
      PROVE  BarrierInv'
  <2> USE <1>10 DEF CancelReturn
  <2>1. TypeOK'
    OBVIOUS
  <2>2. ThreadShape'
    BY DEF ThreadShape
  <2>3. CancelShape'
    BY DEF ThreadShape, CancelShape
  <2>4. OwnerShape'
    BY DEF ThreadShape, CancelShape, OwnerShape
  <2>5. DeregShape'
    BY DEF ThreadShape, OwnerShape, DeregShape
  <2>6. StateShape'
    BY DEF ThreadShape, CancelShape, OwnerShape, DeregShape, StateShape
  <2> QED
    BY <2>1, <2>2, <2>3, <2>4, <2>5, <2>6 DEF BarrierInv
<1>11. ASSUME NEW t \in Threads, NEW r \in Regs, CancelNext(t, r)
      PROVE  BarrierInv'
  <2> USE <1>11 DEF CancelNext
  <2>1. TypeOK'
    OBVIOUS
  <2>2. ThreadShape'
    BY DEF ThreadShape
  <2>3. CancelShape'
    BY DEF ThreadShape, CancelShape
  <2>4. OwnerShape'
    <3>1. cb[t] = NoReg /\ r \in made /\ r \notin list \cup rundown'
      BY DEF ThreadShape, OwnerShape
    <3>2. \A u \in Threads : cb[u] # r
      BY DEF OwnerShape
    <3>3. cb'[t] = r /\ \A u \in Threads \ {t} : cb'[u] = cb[u]
      OBVIOUS
    <3> QED
      BY <3>1, <3>2, <3>3 DEF OwnerShape
  <2>5. DeregShape'
    BY DEF ThreadShape, OwnerShape, DeregShape
  <2>6. StateShape'
    BY DEF ThreadShape, CancelShape, OwnerShape, DeregShape, StateShape
  <2> QED
    BY <2>1, <2>2, <2>3, <2>4, <2>5, <2>6 DEF BarrierInv
<1>12. ASSUME NEW t \in Threads, DeregisterCas(t)
      PROVE  BarrierInv'
  <2> USE <1>12 DEF DeregisterCas, DeregisterReturn
  <2>1. TypeOK'
    OBVIOUS
  <2>2. ThreadShape'
    BY DEF ThreadShape
  <2>3. CancelShape'
    BY DEF ThreadShape, CancelShape
  <2>4. OwnerShape'
    BY DEF ThreadShape, CancelShape, OwnerShape, DeregShape
  <2>5. DeregShape'
    BY DEF ThreadShape, OwnerShape, DeregShape
  <2>6. StateShape'
    BY DEF ThreadShape, CancelShape, OwnerShape, DeregShape, StateShape
  <2> QED
    BY <2>1, <2>2, <2>3, <2>4, <2>5, <2>6 DEF BarrierInv
<1>13. ASSUME NEW t \in Threads, DeregisterExchange(t)
      PROVE  BarrierInv'
  <2> USE <1>13 DEF DeregisterExchange, DeregisterReturn
  <2>1. TypeOK'
    OBVIOUS
  <2>2. ThreadShape'
    BY DEF ThreadShape
  <2>3. CancelShape'
    BY DEF ThreadShape, CancelShape
  <2>4. OwnerShape'
    BY DEF ThreadShape, CancelShape, OwnerShape, DeregShape
  <2>5. DeregShape'
    BY DEF ThreadShape, OwnerShape, DeregShape
  <2>6. StateShape'
    BY DEF ThreadShape, CancelShape, OwnerShape, DeregShape, StateShape
  <2> QED
    BY <2>1, <2>2, <2>3, <2>4, <2>5, <2>6 DEF BarrierInv
<1>14. ASSUME NEW t \in Threads, DeregisterWoken(t)
      PROVE  BarrierInv'
  <2> USE <1>14 DEF DeregisterWoken, DeregisterReturn
  <2>1. TypeOK'
    OBVIOUS
  <2>2. ThreadShape'
    BY DEF ThreadShape
  <2>3. CancelShape'
    BY DEF ThreadShape, CancelShape
  <2>4. OwnerShape'
    BY DEF ThreadShape, CancelShape, OwnerShape, DeregShape
  <2>5. DeregShape'
    BY DEF ThreadShape, OwnerShape, DeregShape
  <2>6. StateShape'
    BY DEF ThreadShape, CancelShape, OwnerShape, DeregShape, StateShape
  <2> QED
    BY <2>1, <2>2, <2>3, <2>4, <2>5, <2>6 DEF BarrierInv
<1>15. ASSUME NEW t \in Threads, CancelBegin(t)
      PROVE  BarrierInv'
  <2> USE <1>15 DEF CancelBegin, Free
  <2>1. TypeOK'
    OBVIOUS
  <2>2. ThreadShape'
    BY DEF ThreadShape
  <2>3. CancelShape'
    BY DEF ThreadShape, CancelShape
  <2>4. OwnerShape'
    BY DEF ThreadShape, CancelShape, OwnerShape
  <2>5. DeregShape'
    BY DEF ThreadShape, OwnerShape, DeregShape
  <2>6. StateShape'
    BY DEF ThreadShape, CancelShape, OwnerShape, DeregShape, StateShape
  <2> QED
    BY <2>1, <2>2, <2>3, <2>4, <2>5, <2>6 DEF BarrierInv
<1>16. ASSUME NEW t \in Threads, NEW r \in Regs, Register(t, r)
      PROVE  BarrierInv'
  <2> USE <1>16 DEF Register, Free
  <2>1. TypeOK'
    OBVIOUS
  <2>2. ThreadShape'
    BY DEF ThreadShape
  <2>3. CancelShape'
    BY DEF ThreadShape, CancelShape
  <2>4. OwnerShape'
    BY DEF ThreadShape, CancelShape, OwnerShape, DeregShape
  <2>5. DeregShape'
    BY DEF ThreadShape, OwnerShape, DeregShape
  <2>6. StateShape'
    BY DEF ThreadShape, CancelShape, OwnerShape, DeregShape, StateShape
  <2> QED
    BY <2>1, <2>2, <2>3, <2>4, <2>5, <2>6 DEF BarrierInv
<1>17. ASSUME NEW t \in Threads, NEW r \in Regs, DeregisterFromList(t, r)
      PROVE  BarrierInv'
  <2> USE <1>17 DEF DeregisterFromList, CanDeregister, InClientCode, Free, Release
  <2>1. TypeOK'
    OBVIOUS
  <2>2. ThreadShape'
    BY DEF ThreadShape
  <2>3. CancelShape'
    BY DEF ThreadShape, CancelShape
  <2>4. OwnerShape'
    BY DEF ThreadShape, CancelShape, OwnerShape, DeregShape
  <2>5. DeregShape'
    BY DEF ThreadShape, OwnerShape, DeregShape
  <2>6. StateShape'
    BY DEF ThreadShape, CancelShape, OwnerShape, DeregShape, StateShape
  <2> QED
    BY <2>1, <2>2, <2>3, <2>4, <2>5, <2>6 DEF BarrierInv
<1>18. ASSUME NEW t \in Threads, NEW r \in Regs, DeregisterSynchronize(t, r)
      PROVE  BarrierInv'
  <2> USE <1>18 DEF DeregisterSynchronize, CanDeregister, InClientCode, Free
  <2>1. TypeOK'
    OBVIOUS
  <2>2. ThreadShape'
    BY DEF ThreadShape
  <2>3. CancelShape'
    BY DEF ThreadShape, CancelShape
  <2>4. OwnerShape'
    BY DEF ThreadShape, CancelShape, OwnerShape, DeregShape
  <2>5. DeregShape'
    BY DEF ThreadShape, OwnerShape, DeregShape
  <2>6. StateShape'
    BY DEF ThreadShape, CancelShape, OwnerShape, DeregShape, StateShape
  <2> QED
    BY <2>1, <2>2, <2>3, <2>4, <2>5, <2>6 DEF BarrierInv
<1>19. ASSUME NEW t \in Threads, NEW r \in Regs, DropHandle(t, r)
      PROVE  BarrierInv'
  <2> USE <1>19 DEF DropHandle, InClientCode, Free, Release
  <2>1. TypeOK'
    OBVIOUS
  <2>2. ThreadShape'
    BY DEF ThreadShape
  <2>3. CancelShape'
    BY DEF ThreadShape, CancelShape
  <2>4. OwnerShape'
    BY DEF ThreadShape, CancelShape, OwnerShape, DeregShape
  <2>5. DeregShape'
    BY DEF ThreadShape, OwnerShape, DeregShape
  <2>6. StateShape'
    BY DEF ThreadShape, CancelShape, OwnerShape, DeregShape, StateShape
  <2> QED
    BY <2>1, <2>2, <2>3, <2>4, <2>5, <2>6 DEF BarrierInv
<1>20. ASSUME DestroyToken
      PROVE  BarrierInv'
  <2> USE <1>20 DEF DestroyToken, Free
  <2>0. \A t \in Threads : op[t] = "idle" /\ inv[t] = "none" /\ der[t] = "none" /\ cb[t] = NoReg
    BY DEF ThreadShape
  <2>1. TypeOK'
    <3>1. rst' \in [Regs -> RegState]
      OBVIOUS
    <3>2. refs' \in [Regs -> Int]
      OBVIOUS
    <3> QED
      BY <3>1, <3>2
  <2>2. ThreadShape'
    BY <2>0 DEF ThreadShape
  <2>3. CancelShape'
    BY <2>0 DEF CancelShape
  <2>4. OwnerShape'
    BY <2>0 DEF OwnerShape
  <2>5. DeregShape'
    BY <2>0 DEF DeregShape
  <2>6. StateShape'
    BY <2>0 DEF StateShape
  <2> QED
    BY <2>1, <2>2, <2>3, <2>4, <2>5, <2>6 DEF BarrierInv
<1>21. ASSUME UNCHANGED vars
      PROVE  BarrierInv'
  BY <1>21 DEF vars, ThreadShape, CancelShape, OwnerShape, DeregShape, StateShape
<1> QED
  BY <1>1, <1>2, <1>3, <1>4, <1>5, <1>6, <1>7, <1>8, <1>9, <1>10, <1>11, <1>12, <1>13, <1>14, <1>15, <1>16, <1>17, <1>18, <1>19, <1>20, <1>21 DEF Next, Step, Call

\* The protocol invariant of tokens, registrations and threads.
THEOREM BarrierInvariant == Spec => []BarrierInv
  BY BarrierInvInit, BarrierInvStep, PTL DEF Spec

\* Every value of every variable stays in its type.
THEOREM TypeCorrect == Spec => []TypeOK
  BY BarrierInvariant, PTL DEF BarrierInv

\* No step of the code breaks the barrier.
LEMMA BarrierStep ==
  ASSUME BarrierInv, [Next]_vars
  PROVE  \A r \in Regs :
           /\ dereg'[r] = "done" /\ dereg[r] # "done" =>
                \A t \in Threads : inv[t] = "exec" /\ cb[t] = r => dr[t] = r
           /\ dereg[r] = "done" => calls'[r] = calls[r]
<1> DEFINE Barrier ==
             \A r \in Regs :
               /\ dereg'[r] = "done" /\ dereg[r] # "done" =>
                    \A t \in Threads :
                      inv[t] = "exec" /\ cb[t] = r => dr[t] = r
               /\ dereg[r] = "done" => calls'[r] = calls[r]
<1> USE TokenAssumption DEF BarrierInv, TypeOK, RegState, tokenVars, regVars,
                            threadVars
<1>1. ASSUME UNCHANGED <<dereg, calls>>
      PROVE  Barrier
  BY <1>1
<1>2. ASSUME NEW t \in Threads, InvokeClaim(t)
      PROVE  Barrier
  BY <1>2 DEF InvokeClaim, ThreadShape, StateShape
<1>3. ASSUME NEW t \in Threads, NEW r \in Regs, DeregisterFromList(t, r)
      PROVE  Barrier
  BY <1>3 DEF DeregisterFromList, CanDeregister, ThreadShape, CancelShape,
              OwnerShape
<1>4. ASSUME NEW t \in Threads, NEW r \in Regs, DeregisterSynchronize(t, r)
      PROVE  Barrier
  BY <1>4 DEF DeregisterSynchronize
<1>5. ASSUME NEW t \in Threads, DeregisterCas(t)
      PROVE  Barrier
  BY <1>5 DEF DeregisterCas, DeregisterReturn, ThreadShape, DeregShape,
              StateShape
<1>6. ASSUME NEW t \in Threads, DeregisterExchange(t)
      PROVE  Barrier
  BY <1>6 DEF DeregisterExchange, DeregisterReturn, ThreadShape, DeregShape,
              StateShape
<1>7. ASSUME NEW t \in Threads, DeregisterWoken(t)
      PROVE  Barrier
  BY <1>7 DEF DeregisterWoken, DeregisterReturn, ThreadShape, DeregShape,
              StateShape
<1>8. ASSUME NEW t \in Threads,
             \/ RegisterListed(t) \/ RegisterTooLate(t) \/ RegisterReturn(t)
             \/ InvokeSkip(t) \/ ExecReturn(t) \/ InvokeSignal(t)
             \/ InvokeRelease(t) \/ CancelSwap(t) \/ CancelReturn(t)
             \/ CancelBegin(t)
      PROVE  UNCHANGED <<dereg, calls>>
  BY <1>8 DEF RegisterListed, RegisterTooLate, RegisterReturn, InvokeSkip,
              ExecReturn, InvokeSignal, InvokeRelease, CancelSwap,
              CancelReturn, CancelBegin
<1>9. ASSUME NEW t \in Threads, NEW r \in Regs,
             CancelNext(t, r) \/ Register(t, r) \/ DropHandle(t, r)
      PROVE  UNCHANGED <<dereg, calls>>
  BY <1>9 DEF CancelNext, Register, DropHandle
<1>10. DestroyToken \/ UNCHANGED vars => UNCHANGED <<dereg, calls>>
  BY DEF DestroyToken, vars
<1>11. Barrier
  BY <1>1, <1>2, <1>3, <1>4, <1>5, <1>6, <1>7, <1>8, <1>9, <1>10
  DEF Next, Step, Call
<1> QED
  BY <1>11

\* deregister_callback is a barrier: when it returns, the callback is not
\* running on another thread, and it never runs again.
THEOREM DeregistrationIsBarrier == Spec => DeregisterIsBarrier
<1>1. BarrierInv /\ [Next]_vars =>
        [\A r \in Regs :
           /\ dereg'[r] = "done" /\ dereg[r] # "done" =>
                \A t \in Threads : inv[t] = "exec" /\ cb[t] = r => dr[t] = r
           /\ dereg[r] = "done" => calls'[r] = calls[r]]_vars
  BY BarrierStep
<1> QED
  BY <1>1, BarrierInvariant, PTL DEF Spec, DeregisterIsBarrier

----------------------------------------------------------------------------
(* Reference counts *)

LEMMA RefInvInit == Init => RefInv
  BY BarrierInvInit, TokenAssumption
  DEF Init, RefInv, Listed, RefBalance, Owned, One

\* Every step of the code preserves RefInv.
LEMMA RefInvStep == RefInv /\ [Next]_vars => RefInv'
<1> SUFFICES ASSUME RefInv, [Next]_vars
             PROVE  Listed' /\ RefBalance'
  BY BarrierInvStep, TokenAssumption DEF RefInv
<1>0. BarrierInv'
  BY BarrierInvStep DEF RefInv
<1> USE TokenAssumption DEF RefInv, BarrierInv, TypeOK, tokenVars, regVars,
                            threadVars
<1>1. ASSUME NEW t \in Threads, RegisterListed(t)
      PROVE  Listed' /\ RefBalance'
  <2> USE <1>1 DEF RegisterListed
  <2>1. Listed'
    BY DEF Listed, ThreadShape, CancelShape, OwnerShape, DeregShape
  <2>2. RefBalance'
    BY DEF RefBalance, Owned, One, Listed, ThreadShape, CancelShape, OwnerShape, DeregShape
  <2> QED
    BY <2>1, <2>2
<1>2. ASSUME NEW t \in Threads, RegisterTooLate(t)
      PROVE  Listed' /\ RefBalance'
  <2> USE <1>2 DEF RegisterTooLate
  <2>1. Listed'
    BY DEF Listed, ThreadShape, CancelShape, OwnerShape, DeregShape
  <2>2. RefBalance'
    BY DEF RefBalance, Owned, One, Listed, ThreadShape, CancelShape, OwnerShape, DeregShape
  <2> QED
    BY <2>1, <2>2
<1>3. ASSUME NEW t \in Threads, RegisterReturn(t)
      PROVE  Listed' /\ RefBalance'
  <2> USE <1>3 DEF RegisterReturn
  <2>1. Listed'
    BY DEF Listed, ThreadShape, CancelShape, OwnerShape, DeregShape
  <2>2. RefBalance'
    BY DEF RefBalance, Owned, One, Listed, ThreadShape, CancelShape, OwnerShape, DeregShape
  <2> QED
    BY <2>1, <2>2
<1>4. ASSUME NEW t \in Threads, InvokeClaim(t)
      PROVE  Listed' /\ RefBalance'
  <2> USE <1>4 DEF InvokeClaim
  <2>1. Listed'
    BY DEF Listed, ThreadShape, CancelShape, OwnerShape, DeregShape
  <2>2. RefBalance'
    BY DEF RefBalance, Owned, One, Listed, ThreadShape, CancelShape, OwnerShape, DeregShape
  <2> QED
    BY <2>1, <2>2
<1>5. ASSUME NEW t \in Threads, InvokeSkip(t)
      PROVE  Listed' /\ RefBalance'
  <2> USE <1>5 DEF InvokeSkip
  <2>1. Listed'
    BY DEF Listed, ThreadShape, CancelShape, OwnerShape, DeregShape
  <2>2. RefBalance'
    BY DEF RefBalance, Owned, One, Listed, ThreadShape, CancelShape, OwnerShape, DeregShape
  <2> QED
    BY <2>1, <2>2
<1>6. ASSUME NEW t \in Threads, ExecReturn(t)
      PROVE  Listed' /\ RefBalance'
  <2> USE <1>6 DEF ExecReturn
  <2>1. Listed'
    BY DEF Listed, ThreadShape, CancelShape, OwnerShape, DeregShape
  <2>2. RefBalance'
    BY DEF RefBalance, Owned, One, Listed, ThreadShape, CancelShape, OwnerShape, DeregShape
  <2> QED
    BY <2>1, <2>2
<1>7. ASSUME NEW t \in Threads, InvokeSignal(t)
      PROVE  Listed' /\ RefBalance'
  <2> USE <1>7 DEF InvokeSignal
  <2>1. Listed'
    BY DEF Listed, ThreadShape, CancelShape, OwnerShape, DeregShape
  <2>2. RefBalance'
    BY DEF RefBalance, Owned, One, Listed, ThreadShape, CancelShape, OwnerShape, DeregShape
  <2> QED
    BY <2>1, <2>2
<1>8. ASSUME NEW t \in Threads, InvokeRelease(t)
      PROVE  Listed' /\ RefBalance'
  <2> USE <1>8 DEF InvokeRelease, Release
  <2>1. Listed'
    BY DEF Listed, ThreadShape, CancelShape, OwnerShape, DeregShape
  <2>2. RefBalance'
    BY DEF RefBalance, Owned, One, Listed, ThreadShape, CancelShape, OwnerShape, DeregShape
  <2> QED
    BY <2>1, <2>2
<1>9. ASSUME NEW t \in Threads, CancelSwap(t)
      PROVE  Listed' /\ RefBalance'
  <2> USE <1>9 DEF CancelSwap
  <2>1. Listed'
    BY DEF Listed, ThreadShape, CancelShape, OwnerShape, DeregShape
  <2>2. RefBalance'
    BY DEF RefBalance, Owned, One, Listed, ThreadShape, CancelShape, OwnerShape, DeregShape
  <2> QED
    BY <2>1, <2>2
<1>10. ASSUME NEW t \in Threads, CancelReturn(t)
      PROVE  Listed' /\ RefBalance'
  <2> USE <1>10 DEF CancelReturn
  <2>1. Listed'
    BY DEF Listed, ThreadShape, CancelShape, OwnerShape, DeregShape
  <2>2. RefBalance'
    BY DEF RefBalance, Owned, One, Listed, ThreadShape, CancelShape, OwnerShape, DeregShape
  <2> QED
    BY <2>1, <2>2
<1>11. ASSUME NEW t \in Threads, NEW r \in Regs, CancelNext(t, r)
      PROVE  Listed' /\ RefBalance'
  <2> USE <1>11 DEF CancelNext
  <2>1. Listed'
    BY DEF Listed, ThreadShape, CancelShape, OwnerShape, DeregShape
  <2>2. RefBalance'
    BY DEF RefBalance, Owned, One, Listed, ThreadShape, CancelShape, OwnerShape, DeregShape
  <2> QED
    BY <2>1, <2>2
<1>12. ASSUME NEW t \in Threads, DeregisterCas(t)
      PROVE  Listed' /\ RefBalance'
  <2> USE <1>12 DEF DeregisterCas, DeregisterReturn
  <2>1. Listed'
    BY DEF Listed, ThreadShape, CancelShape, OwnerShape, DeregShape
  <2>2. RefBalance'
    BY DEF RefBalance, Owned, One, Listed, ThreadShape, CancelShape, OwnerShape, DeregShape
  <2> QED
    BY <2>1, <2>2
<1>13. ASSUME NEW t \in Threads, DeregisterExchange(t)
      PROVE  Listed' /\ RefBalance'
  <2> USE <1>13 DEF DeregisterExchange, DeregisterReturn
  <2>1. Listed'
    BY DEF Listed, ThreadShape, CancelShape, OwnerShape, DeregShape
  <2>2. RefBalance'
    BY DEF RefBalance, Owned, One, Listed, ThreadShape, CancelShape, OwnerShape, DeregShape
  <2> QED
    BY <2>1, <2>2
<1>14. ASSUME NEW t \in Threads, DeregisterWoken(t)
      PROVE  Listed' /\ RefBalance'
  <2> USE <1>14 DEF DeregisterWoken, DeregisterReturn
  <2>1. Listed'
    BY DEF Listed, ThreadShape, CancelShape, OwnerShape, DeregShape
  <2>2. RefBalance'
    BY DEF RefBalance, Owned, One, Listed, ThreadShape, CancelShape, OwnerShape, DeregShape
  <2> QED
    BY <2>1, <2>2
<1>15. ASSUME NEW t \in Threads, CancelBegin(t)
      PROVE  Listed' /\ RefBalance'
  <2> USE <1>15 DEF CancelBegin, Free
  <2>1. Listed'
    <3>1. /\ flag' = 1 /\ UNCHANGED <<list, handle, dereg>>
          /\ ~late' => ~late /\ \A s \in Threads : op[s] # "register"
      BY DEF regVars
    <3>2. \A s \in Threads : op'[s] = IF s = t THEN "swap" ELSE op[s]
      BY DEF ThreadShape
    <3>3. ASSUME ~late'
          PROVE  \A s \in Threads : op'[s] # "inline" /\ op'[s] # "register"
      BY <3>1, <3>2, <3>3 DEF Listed
    <3>4. ASSUME ~late', list' # {}
          PROVE  \A r \in handle' : dereg'[r] = "no" => r \in list'
      BY <3>1, <3>4 DEF Listed
    <3> QED
      BY <3>1, <3>3, <3>4 DEF Listed
  <2>2. RefBalance'
    BY DEF RefBalance, Owned, One, Listed, ThreadShape, CancelShape, OwnerShape, DeregShape
  <2> QED
    BY <2>1, <2>2
<1>16. ASSUME NEW t \in Threads, NEW r \in Regs, Register(t, r)
      PROVE  Listed' /\ RefBalance'
  <2> USE <1>16 DEF Register, Free
  <2>1. ~late' => ~late /\ flag = 0
    OBVIOUS
  <2>2. Listed'
    BY <2>1 DEF Listed, ThreadShape, CancelShape, OwnerShape, DeregShape
  <2>3. RefBalance'
    BY <2>1 DEF RefBalance, Owned, One, Listed, ThreadShape, CancelShape, OwnerShape, DeregShape
  <2> QED
    BY <2>2, <2>3
<1>17. ASSUME NEW t \in Threads, NEW r \in Regs, DeregisterFromList(t, r)
      PROVE  Listed' /\ RefBalance'
  <2> USE <1>17 DEF DeregisterFromList, CanDeregister, InClientCode, Free, Release
  <2>1. Listed'
    BY DEF Listed, ThreadShape, CancelShape, OwnerShape, DeregShape
  <2>2. RefBalance'
    BY DEF RefBalance, Owned, One, Listed, ThreadShape, CancelShape, OwnerShape, DeregShape
  <2> QED
    BY <2>1, <2>2
<1>18. ASSUME NEW t \in Threads, NEW r \in Regs, DeregisterSynchronize(t, r)
      PROVE  Listed' /\ RefBalance'
  <2> USE <1>18 DEF DeregisterSynchronize, CanDeregister, InClientCode, Free
  <2>1. Listed'
    BY DEF Listed, ThreadShape, CancelShape, OwnerShape, DeregShape
  <2>2. RefBalance'
    BY DEF RefBalance, Owned, One, Listed, ThreadShape, CancelShape, OwnerShape, DeregShape
  <2> QED
    BY <2>1, <2>2
<1>19. ASSUME NEW t \in Threads, NEW r \in Regs, DropHandle(t, r)
      PROVE  Listed' /\ RefBalance'
  <2> USE <1>19 DEF DropHandle, InClientCode, Free, Release
  <2>1. Listed'
    BY DEF Listed, ThreadShape, CancelShape, OwnerShape, DeregShape
  <2>2. RefBalance'
    BY DEF RefBalance, Owned, One, Listed, ThreadShape, CancelShape, OwnerShape, DeregShape
  <2> QED
    BY <2>1, <2>2
<1>20. ASSUME DestroyToken
      PROVE  Listed' /\ RefBalance'
  <2> USE <1>20 DEF DestroyToken, Free
  <2>1. \A t \in Threads : op[t] = "idle" /\ cb[t] = NoReg
    BY DEF ThreadShape
  <2>2. Listed'
    BY <2>1 DEF Listed
  <2>3. RefBalance'
    BY <2>1 DEF RefBalance, Owned, One
  <2> QED
    BY <2>2, <2>3
<1>21. ASSUME UNCHANGED vars
      PROVE  Listed' /\ RefBalance'
  BY <1>21 DEF vars, Listed, RefBalance, Owned, One
<1> QED
  BY <1>1, <1>2, <1>3, <1>4, <1>5, <1>6, <1>7, <1>8, <1>9, <1>10, <1>11, <1>12, <1>13, <1>14, <1>15, <1>16, <1>17, <1>18, <1>19, <1>20, <1>21 DEF Next, Step, Call

\* If no registration overlaps or follows cancel(), the reference counts are
\* balanced in every reachable state.
THEOREM RefsBalanced == Spec => []RefBalance
  BY RefInvInit, RefInvStep, PTL DEF Spec, RefInv

\* If no registration overlaps or follows cancel(), nothing deleted is used.
THEOREM NoneUsedAfterFree == Spec => []NoUseAfterFree
<1>1. RefInv => NoUseAfterFree
  BY TokenAssumption
  DEF RefInv, BarrierInv, TypeOK, RefBalance, NoUseAfterFree, Owned, One,
      ThreadShape, OwnerShape, DeregShape
<1> QED
  BY <1>1, RefInvInit, RefInvStep, PTL DEF Spec

----------------------------------------------------------------------------
(* Callbacks *)

\* A registration whose callback is still to be made, by the thread that cancels
\* or by the one that registers it.
ToBeCalled(r) ==
  \/ r \in list \cup rundown
  \/ \E t \in Threads : cb[t] = r /\ (op[t] = "register" \/ inv[t] = "cas")

\* A callback was made if _M_state says that it was claimed, and is to be made if
\* not, unless somebody deregistered it or the token was destroyed uncanceled.
CallShape ==
  /\ flag = 1 => \E t \in Threads : op[t] \in {"swap", "rundown"}
  /\ \A r \in Regs : r \notin made \/ rst[r] = "clear" => calls[r] = 0
  /\ \A r \in made : dereg[r] = "no" =>
       IF rst[r] = "clear" THEN ToBeCalled(r)
                           ELSE calls[r] = 1 \/ (flag = 0 /\ ~alive)

CallInv == BarrierInv /\ CallShape

\* CallInv holds initially: nothing is registered.
LEMMA CallInvInit == Init => CallInv
  BY BarrierInvInit DEF Init, CallInv, CallShape

\* Every step of the code preserves CallInv.
LEMMA CallInvStep == CallInv /\ [Next]_vars => CallInv'
<1> SUFFICES ASSUME CallInv, [Next]_vars
             PROVE  CallShape'
  BY BarrierInvStep DEF CallInv
<1> USE TokenAssumption DEF CallInv, BarrierInv, TypeOK, tokenVars, regVars,
                            threadVars
<1>1. ASSUME NEW t \in Threads, RegisterListed(t)
      PROVE  CallShape'
  BY <1>1 DEF RegisterListed, CallShape, ToBeCalled, ThreadShape, CancelShape, OwnerShape, DeregShape, StateShape
<1>2. ASSUME NEW t \in Threads, RegisterTooLate(t)
      PROVE  CallShape'
  BY <1>2 DEF RegisterTooLate, CallShape, ToBeCalled, ThreadShape, CancelShape, OwnerShape, DeregShape, StateShape
<1>3. ASSUME NEW t \in Threads, RegisterReturn(t)
      PROVE  CallShape'
  BY <1>3 DEF RegisterReturn, CallShape, ToBeCalled, ThreadShape, CancelShape, OwnerShape, DeregShape, StateShape
<1>4. ASSUME NEW t \in Threads, InvokeClaim(t)
      PROVE  CallShape'
  BY <1>4 DEF InvokeClaim, CallShape, ToBeCalled, ThreadShape, CancelShape, OwnerShape, DeregShape, StateShape
<1>5. ASSUME NEW t \in Threads, InvokeSkip(t)
      PROVE  CallShape'
  BY <1>5 DEF InvokeSkip, CallShape, ToBeCalled, ThreadShape, CancelShape, OwnerShape, DeregShape, StateShape
<1>6. ASSUME NEW t \in Threads, ExecReturn(t)
      PROVE  CallShape'
  BY <1>6 DEF ExecReturn, CallShape, ToBeCalled, ThreadShape, CancelShape, OwnerShape, DeregShape, StateShape
<1>7. ASSUME NEW t \in Threads, InvokeSignal(t)
      PROVE  CallShape'
  BY <1>7 DEF InvokeSignal, CallShape, ToBeCalled, ThreadShape, CancelShape, OwnerShape, DeregShape, StateShape
<1>8. ASSUME NEW t \in Threads, InvokeRelease(t)
      PROVE  CallShape'
  BY <1>8 DEF InvokeRelease, Release, CallShape, ToBeCalled, ThreadShape, CancelShape, OwnerShape, DeregShape, StateShape
<1>9. ASSUME NEW t \in Threads, CancelSwap(t)
      PROVE  CallShape'
  BY <1>9 DEF CancelSwap, CallShape, ToBeCalled, ThreadShape, CancelShape, OwnerShape, DeregShape, StateShape
<1>10. ASSUME NEW t \in Threads, CancelReturn(t)
      PROVE  CallShape'
  BY <1>10 DEF CancelReturn, CallShape, ToBeCalled, ThreadShape, CancelShape, OwnerShape, DeregShape, StateShape
<1>11. ASSUME NEW t \in Threads, NEW r \in Regs, CancelNext(t, r)
      PROVE  CallShape'
  BY <1>11 DEF CancelNext, CallShape, ToBeCalled, ThreadShape, CancelShape, OwnerShape, DeregShape, StateShape
<1>12. ASSUME NEW t \in Threads, DeregisterCas(t)
      PROVE  CallShape'
  BY <1>12 DEF DeregisterCas, DeregisterReturn, CallShape, ToBeCalled, ThreadShape, CancelShape, OwnerShape, DeregShape, StateShape
<1>13. ASSUME NEW t \in Threads, DeregisterExchange(t)
      PROVE  CallShape'
  BY <1>13 DEF DeregisterExchange, DeregisterReturn, CallShape, ToBeCalled, ThreadShape, CancelShape, OwnerShape, DeregShape, StateShape
<1>14. ASSUME NEW t \in Threads, DeregisterWoken(t)
      PROVE  CallShape'
  BY <1>14 DEF DeregisterWoken, DeregisterReturn, CallShape, ToBeCalled, ThreadShape, CancelShape, OwnerShape, DeregShape, StateShape
<1>15. ASSUME NEW t \in Threads, CancelBegin(t)
      PROVE  CallShape'
  BY <1>15 DEF CancelBegin, Free, CallShape, ToBeCalled, ThreadShape, CancelShape, OwnerShape, DeregShape, StateShape
<1>16. ASSUME NEW t \in Threads, NEW r \in Regs, Register(t, r)
      PROVE  CallShape'
  BY <1>16 DEF Register, Free, CallShape, ToBeCalled, ThreadShape, CancelShape, OwnerShape, DeregShape, StateShape
<1>17. ASSUME NEW t \in Threads, NEW r \in Regs, DeregisterFromList(t, r)
      PROVE  CallShape'
  BY <1>17 DEF DeregisterFromList, CanDeregister, InClientCode, Free, Release, CallShape, ToBeCalled, ThreadShape, CancelShape, OwnerShape, DeregShape, StateShape
<1>18. ASSUME NEW t \in Threads, NEW r \in Regs, DeregisterSynchronize(t, r)
      PROVE  CallShape'
  BY <1>18 DEF DeregisterSynchronize, CanDeregister, InClientCode, Free, CallShape, ToBeCalled, ThreadShape, CancelShape, OwnerShape, DeregShape, StateShape
<1>19. ASSUME NEW t \in Threads, NEW r \in Regs, DropHandle(t, r)
      PROVE  CallShape'
  BY <1>19 DEF DropHandle, InClientCode, Free, Release, CallShape, ToBeCalled, ThreadShape, CancelShape, OwnerShape, DeregShape, StateShape
<1>20. ASSUME DestroyToken
      PROVE  CallShape'
  BY <1>20 DEF DestroyToken, Free, CallShape, ToBeCalled, ThreadShape, CancelShape, OwnerShape
<1>21. ASSUME UNCHANGED vars
      PROVE  CallShape'
  BY <1>21 DEF vars, CallShape, ToBeCalled
<1> QED
  BY <1>1, <1>2, <1>3, <1>4, <1>5, <1>6, <1>7, <1>8, <1>9, <1>10, <1>11, <1>12, <1>13, <1>14, <1>15, <1>16, <1>17, <1>18, <1>19, <1>20, <1>21 DEF Next, Step, Call

\* Once cancel() has returned, every callback that nobody deregistered and whose
\* registration is complete has been made exactly once.
THEOREM CancelReachesEveryCallback == Spec => []CancelReachesAll
<1>1. CallInv => CancelReachesAll
  BY DEF CallInv, BarrierInv, CallShape, ToBeCalled, CancelShape, CancelReachesAll
<1> QED
  BY <1>1, CallInvInit, CallInvStep, PTL DEF Spec

----------------------------------------------------------------------------
(* Waiting *)

\* A thread that found its callback running on another one waits, or is about to.
Waits(t) == der[t] \in {"exchange", "wait"}

\* _M_state names the thread that runs the callback, so that nobody waits for
\* itself; whoever waits is signaled already or has somebody to do it.  The thread
\* that cancels has nobody to wait for: a handle is not there before its
\* registration has returned, so that no other thread runs a callback that has one.
WaitShape ==
  /\ \A r \in Regs, t \in Threads : rst[r] = t => inv[t] = "exec" /\ cb[t] = r
  /\ \A t \in Threads : Waits(t) => op[t] # "rundown"
  /\ \A t \in Threads : der[t] = "exchange" => rst[dr[t]] \in {"called"} \cup (Threads \ {t})
  /\ \A t \in Threads : der[t] = "wait" =>
       /\ rst[dr[t]] = "sync"
       /\ \/ dr[t] \in event
          \/ \E u \in Threads : cb[u] = dr[t] /\ inv[u] \in {"exec", "signal"}

WaitInv == BarrierInv /\ WaitShape

\* A thread in deregister_callback waits for the thread that cancels, which waits
\* for nobody: the wait in _DeregisterCallback cannot close a circle, though
\* callbacks deregister others and threads wait inside of callbacks.
WaitsForCanceler ==
  \A t \in Threads : der[t] = "wait" /\ dr[t] \notin event =>
    \E u \in Threads :
      /\ op[u] = "rundown" /\ cb[u] = dr[t] /\ inv[u] \in {"exec", "signal"}
      /\ ~Waits(u)

\* WaitInv holds initially: no thread is in a method.
LEMMA WaitInvInit == Init => WaitInv
  BY BarrierInvInit, TokenAssumption DEF Init, WaitInv, WaitShape, Waits

\* Every step of the code preserves WaitInv.
LEMMA WaitInvStep == WaitInv /\ [Next]_vars => WaitInv'
<1> SUFFICES ASSUME WaitInv, [Next]_vars
             PROVE  WaitShape'
  BY BarrierInvStep DEF WaitInv
<1> USE TokenAssumption DEF WaitInv, BarrierInv, TypeOK, tokenVars, regVars,
                            threadVars
<1>1. ASSUME NEW t \in Threads, RegisterListed(t)
      PROVE  WaitShape'
  BY <1>1 DEF RegisterListed, WaitShape, Waits, ThreadShape, CancelShape, OwnerShape, DeregShape, StateShape
<1>2. ASSUME NEW t \in Threads, RegisterTooLate(t)
      PROVE  WaitShape'
  BY <1>2 DEF RegisterTooLate, WaitShape, Waits, ThreadShape, CancelShape, OwnerShape, DeregShape, StateShape
<1>3. ASSUME NEW t \in Threads, RegisterReturn(t)
      PROVE  WaitShape'
  BY <1>3 DEF RegisterReturn, WaitShape, Waits, ThreadShape, CancelShape, OwnerShape, DeregShape, StateShape
<1>4. ASSUME NEW t \in Threads, InvokeClaim(t)
      PROVE  WaitShape'
  BY <1>4 DEF InvokeClaim, WaitShape, Waits, ThreadShape, CancelShape, OwnerShape, DeregShape, StateShape
<1>5. ASSUME NEW t \in Threads, InvokeSkip(t)
      PROVE  WaitShape'
  BY <1>5 DEF InvokeSkip, WaitShape, Waits, ThreadShape, CancelShape, OwnerShape, DeregShape, StateShape
<1>6. ASSUME NEW t \in Threads, ExecReturn(t)
      PROVE  WaitShape'
  BY <1>6 DEF ExecReturn, WaitShape, Waits, ThreadShape, CancelShape, OwnerShape, DeregShape, StateShape
<1>7. ASSUME NEW t \in Threads, InvokeSignal(t)
      PROVE  WaitShape'
  BY <1>7 DEF InvokeSignal, WaitShape, Waits, ThreadShape, CancelShape, OwnerShape, DeregShape, StateShape
<1>8. ASSUME NEW t \in Threads, InvokeRelease(t)
      PROVE  WaitShape'
  BY <1>8 DEF InvokeRelease, Release, WaitShape, Waits, ThreadShape, CancelShape, OwnerShape, DeregShape, StateShape
<1>9. ASSUME NEW t \in Threads, CancelSwap(t)
      PROVE  WaitShape'
  BY <1>9 DEF CancelSwap, WaitShape, Waits, ThreadShape, CancelShape, OwnerShape, DeregShape, StateShape
<1>10. ASSUME NEW t \in Threads, CancelReturn(t)
      PROVE  WaitShape'
  BY <1>10 DEF CancelReturn, WaitShape, Waits, ThreadShape, CancelShape, OwnerShape, DeregShape, StateShape
<1>11. ASSUME NEW t \in Threads, NEW r \in Regs, CancelNext(t, r)
      PROVE  WaitShape'
  BY <1>11 DEF CancelNext, WaitShape, Waits, ThreadShape, CancelShape, OwnerShape, DeregShape, StateShape
<1>12. ASSUME NEW t \in Threads, DeregisterCas(t)
      PROVE  WaitShape'
  BY <1>12 DEF DeregisterCas, DeregisterReturn, WaitShape, Waits, ThreadShape, CancelShape, OwnerShape, DeregShape, StateShape
<1>13. ASSUME NEW t \in Threads, DeregisterExchange(t)
      PROVE  WaitShape'
  BY <1>13 DEF DeregisterExchange, DeregisterReturn, WaitShape, Waits, ThreadShape, CancelShape, OwnerShape, DeregShape, StateShape
<1>14. ASSUME NEW t \in Threads, DeregisterWoken(t)
      PROVE  WaitShape'
  BY <1>14 DEF DeregisterWoken, DeregisterReturn, WaitShape, Waits, ThreadShape, CancelShape, OwnerShape, DeregShape, StateShape
<1>15. ASSUME NEW t \in Threads, CancelBegin(t)
      PROVE  WaitShape'
  BY <1>15 DEF CancelBegin, Free, WaitShape, Waits, ThreadShape, CancelShape, OwnerShape, DeregShape, StateShape
<1>16. ASSUME NEW t \in Threads, NEW r \in Regs, Register(t, r)
      PROVE  WaitShape'
  BY <1>16 DEF Register, Free, WaitShape, Waits, ThreadShape, CancelShape, OwnerShape, DeregShape, StateShape
<1>17. ASSUME NEW t \in Threads, NEW r \in Regs, DeregisterFromList(t, r)
      PROVE  WaitShape'
  BY <1>17 DEF DeregisterFromList, CanDeregister, InClientCode, Free, Release, WaitShape, Waits, ThreadShape, CancelShape, OwnerShape, DeregShape, StateShape
<1>18. ASSUME NEW t \in Threads, NEW r \in Regs, DeregisterSynchronize(t, r)
      PROVE  WaitShape'
  BY <1>18 DEF DeregisterSynchronize, CanDeregister, InClientCode, Free, WaitShape, Waits, ThreadShape, CancelShape, OwnerShape, DeregShape, StateShape
<1>19. ASSUME NEW t \in Threads, NEW r \in Regs, DropHandle(t, r)
      PROVE  WaitShape'
  BY <1>19 DEF DropHandle, InClientCode, Free, Release, WaitShape, Waits, ThreadShape, CancelShape, OwnerShape, DeregShape, StateShape
<1>20. ASSUME DestroyToken
      PROVE  WaitShape'
  BY <1>20 DEF DestroyToken, Free, WaitShape, Waits, ThreadShape, CancelShape, OwnerShape
<1>21. ASSUME UNCHANGED vars
      PROVE  WaitShape'
  BY <1>21 DEF vars, WaitShape, Waits
<1> QED
  BY <1>1, <1>2, <1>3, <1>4, <1>5, <1>6, <1>7, <1>8, <1>9, <1>10, <1>11, <1>12, <1>13, <1>14, <1>15, <1>16, <1>17, <1>18, <1>19, <1>20, <1>21 DEF Next, Step, Call

\* deregister_callback cannot deadlock, for any number of threads that deregister,
\* inside of callbacks and outside.
THEOREM DeregistersDoNotDeadlock == Spec => []WaitsForCanceler
<1>1. WaitInv => WaitsForCanceler
  BY DEF WaitInv, BarrierInv, WaitShape, WaitsForCanceler, ThreadShape, OwnerShape, DeregShape
<1> QED
  BY <1>1, WaitInvInit, WaitInvStep, PTL DEF Spec

=============================================================================
