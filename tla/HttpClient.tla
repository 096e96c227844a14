------------------------------ MODULE HttpClient ------------------------------
(***************************************************************************)
(* The HTTP client over asio: the queue that orders requests, the pool of   *)
(* connections, and the life of a request from propagate() to the           *)
(* destruction of its context.  A context has one asynchronous operation    *)
(* outstanding at a time; its handler may find that the timer or a          *)
(* cancellation has closed the connection meanwhile.                        *)
(*                                                                         *)
(* The network may refuse, fail, close or stall at any point.  Plain HTTP,  *)
(* without proxy or TLS; the headers and the body of a request are one      *)
(* write, the body of a response is one read.                               *)
(***************************************************************************)
EXTENDS Integers, Sequences, FiniteSets

CONSTANTS
  Requests,
  Cancelable,     \* the requests made with a cancellation token
  Conns,          \* bound on the connections that exist at a time
  NoConn,
  MaxEndpoints    \* bound on the addresses a name resolves to

ASSUME ClientAssumption ==
  /\ Cancelable \subseteq Requests
  /\ NoConn \notin Conns
  /\ MaxEndpoints \in Nat \ {0}

VARIABLES
  order,       \* client_config().guarantee_order()
  scheduled,   \* m_scheduled
  queue,       \* m_requests_queue
  phase,       \* where each request is
  conn,        \* m_connection of its context, NoConn if there is no context
  op,          \* the operation the context waits for
  timer,       \* m_timer.m_state
  token,       \* the request's cancellation token
  due,         \* the operation is started, the token's callback not yet registered
  reg,         \* m_cancellationRegistration
  conns,       \* the connections
  pool,        \* asio_connection_pool
  outcome,     \* m_request_completion
  body,        \* the completion of the response's body
  finishes,    \* calls of finish() (history)
  unsupported, \* responses in an encoding that is not supported (history)
  lost         \* timeouts that closed a connection then replaced (history)

vars == <<order, scheduled, queue, phase, conn, op, timer, token, due, reg,
          conns, pool, outcome, body, finishes, unsupported, lost>>

orderVars == <<order, scheduled, queue, phase>>
tokenVars == <<token, due, reg>>
answerVars == <<outcome, body, finishes>>
historyVars == <<unsupported, lost>>

Phase == {"unsent", "queued", "ready", "active", "done"}
Connection == [sock : {"none", "new", "connecting", "open", "closed"},
               keep : BOOLEAN, reused : BOOLEAN]
Op == [kind : {"none", "resolve", "connect", "write", "status", "body"},
       res  : {"none", "pending", "ok", "failed", "eof", "aborted"},
       left : 0..MaxEndpoints]

NoOp == [kind |-> "none", res |-> "none", left |-> 0]
Pending(k) == [kind |-> k, res |-> "pending", left |-> 0]

\* A socket not yet opened, that has not been in the pool.
NewConnection == [sock |-> "new", keep |-> TRUE, reused |-> FALSE]
NoConnection == [sock |-> "none", keep |-> FALSE, reused |-> FALSE]

\* The types of the variables: the addresses an operation has left to try stay
\* below their bound, and the timer and the outcomes take their named values.
TypeOK ==
  /\ order \in BOOLEAN
  /\ scheduled \in Int
  /\ queue \in Seq(Requests)
  /\ phase \in [Requests -> Phase]
  /\ conn \in [Requests -> Conns \cup {NoConn}]
  /\ op \in [Requests -> Op]
  /\ timer \in [Requests -> {"created", "started", "timedout", "stopped"}]
  /\ token \in [Requests -> {"none", "live", "canceled"}]
  /\ due \in [Requests -> BOOLEAN]
  /\ reg \in [Requests -> {"none", "yes", "stale", "gone"}]
  /\ conns \in [Conns -> Connection]
  /\ pool \in [idle     : Seq([conn : Conns, fresh : BOOLEAN]),
               released : BOOLEAN, ticking : BOOLEAN]
  /\ outcome \in [Requests -> {"none", "response", "canceled", "timedout", "error"}]
  /\ body \in [Requests -> {"none", "complete", "error"}]
  /\ finishes \in [Requests -> Nat]
  /\ unsupported \subseteq Requests
  /\ lost \subseteq Requests

Init ==
  /\ order \in BOOLEAN
  /\ scheduled = 0
  /\ queue = <<>>
  /\ phase = [r \in Requests |-> "unsent"]
  /\ conn = [r \in Requests |-> NoConn]
  /\ op = [r \in Requests |-> NoOp]
  /\ timer = [r \in Requests |-> "created"]
  /\ token = [r \in Requests |-> IF r \in Cancelable THEN "live" ELSE "none"]
  /\ due = [r \in Requests |-> FALSE]
  /\ reg = [r \in Requests |-> "none"]
  /\ conns = [c \in Conns |-> NoConnection]
  /\ pool = [idle |-> <<>>, released |-> FALSE, ticking |-> FALSE]
  /\ outcome = [r \in Requests |-> "none"]
  /\ body = [r \in Requests |-> "none"]
  /\ finishes = [r \in Requests |-> 0]
  /\ unsupported = {}
  /\ lost = {}

----------------------------------------------------------------------------
(* Connections and the pool *)

\* asio_connection::close
Closed(c) == [c EXCEPT !.sock = "closed", !.keep = FALSE]

CanObtain == pool.idle # <<>> \/ \E c \in Conns : conns[c].sock = "none"

\* Mutant of Obtained: the connection is left in the pool.
ObtainedCopy ==
  IF pool.idle # <<>>
    THEN LET c == pool.idle[Len(pool.idle)].conn
         IN [conn |-> c, conns |-> [conns EXCEPT ![c].reused = TRUE], pool |-> pool]
    ELSE LET c == CHOOSE c \in Conns : conns[c].sock = "none"
         IN [conn |-> c, conns |-> [conns EXCEPT ![c] = NewConnection], pool |-> pool]

\* obtain_connection: the one released last, or a new one.
Obtained ==
  IF pool.idle # <<>>
    THEN LET c == pool.idle[Len(pool.idle)].conn
         IN [conn  |-> c,
             conns |-> [conns EXCEPT ![c].reused = TRUE],
             pool  |-> [pool EXCEPT !.idle = SubSeq(@, 1, Len(@) - 1)]]
    ELSE LET c == CHOOSE c \in Conns : conns[c].sock = "none"
         IN [conn  |-> c,
             conns |-> [conns EXCEPT ![c] = NewConnection],
             pool  |-> pool]

\* Mutant of Pooled: the connection goes in at the other end.
PooledFirst(c) ==
  [idle     |-> <<[conn |-> c, fresh |-> TRUE]>> \o pool.idle,
   released |-> TRUE, ticking |-> TRUE]

\* asio_connection_pool::release of a connection that is kept.  An entry is
\* fresh if its epoch is later than m_prev_epoch; "released" says that some
\* connection was released since, m_epoch # m_prev_epoch.
Pooled(c) ==
  [idle     |-> Append(pool.idle, [conn |-> c, fresh |-> TRUE]),
   released |-> TRUE, ticking |-> TRUE]

----------------------------------------------------------------------------
(* The ends of a request *)

\* finish_request, n times over: each time another request is taken from the
\* queue.
FinishRequest(r, n) ==
  LET waiting == IF order THEN Len(queue) ELSE 0
      popped == IF n < waiting THEN n ELSE waiting
  IN /\ scheduled' = IF order THEN scheduled - n ELSE scheduled
     /\ queue' = SubSeq(queue, popped + 1, Len(queue))
     /\ phase' = [q \in Requests |->
                    CASE q = r /\ n > 0                       -> "done"
                      [] \E i \in 1..popped : queue[i] = q    -> "ready"
                      [] OTHER                                -> phase[q]]
     /\ UNCHANGED order

\* finish, n times over: the token's callback is deregistered if the context
\* knows by now that it is registered.
Finish(r, n) ==
  /\ finishes' = [finishes EXCEPT ![r] = @ + n]
  /\ reg' = [reg EXCEPT ![r] = IF n > 0 /\ @ # "none" THEN "gone" ELSE @]
  /\ FinishRequest(r, n)

\* An exception completes the response, or the body if the response is there.
Settle(r, told) ==
  /\ outcome' = [outcome EXCEPT ![r] = IF @ = "none" THEN told ELSE @]
  /\ body' = [body EXCEPT ![r] =
                CASE @ # "none"            -> @
                  [] outcome[r] = "none"   -> "complete"
                  [] OTHER                 -> "error"]

\* Mutant of Fail: the connection is not closed.
FailOpen(r, err) ==
  /\ UNCHANGED conns
  /\ Settle(r, IF token[r] = "canceled" THEN "canceled" ELSE err)
  /\ Finish(r, 1)
  /\ op' = [op EXCEPT ![r] = NoOp]
  /\ UNCHANGED <<conn, timer, token, due, pool, historyVars>>

\* asio_context::report_exception: the connection is closed, and whatever went
\* wrong a canceled request is told that it was canceled.
Fail(r, err) ==
  /\ conns' = [conns EXCEPT ![conn[r]] = Closed(@)]
  /\ Settle(r, IF token[r] = "canceled" THEN "canceled" ELSE err)
  /\ Finish(r, 1)
  /\ op' = [op EXCEPT ![r] = NoOp]
  /\ UNCHANGED <<conn, timer, token, due, pool, historyVars>>

\* asio_context::report_error tells a timeout from other errors.
Error(r) == IF timer[r] = "timedout" THEN "timedout" ELSE "error"

\* complete_request
Complete(r) ==
  /\ body' = [body EXCEPT ![r] = IF @ = "none" THEN "complete" ELSE @]
  /\ Finish(r, 1)
  /\ op' = [op EXCEPT ![r] = NoOp]
  /\ UNCHANGED <<conn, timer, token, due, conns, pool, outcome, historyVars>>

----------------------------------------------------------------------------
(* Sending *)

\* Mutant of PushRequest: a request that is sent at once is not counted.
PushRequestUncounted(r) ==
  IF order /\ scheduled > 0
    THEN /\ scheduled' = scheduled + 1
         /\ queue' = Append(queue, r)
         /\ phase' = [phase EXCEPT ![r] = "queued"]
    ELSE /\ phase' = [phase EXCEPT ![r] = "ready"]
         /\ UNCHANGED <<scheduled, queue>>

\* async_send_request, push_request: with guarantee_order a request is sent at
\* once only if none is scheduled.
PushRequest(r) ==
  /\ scheduled' = IF order THEN scheduled + 1 ELSE scheduled
  /\ IF order /\ scheduled' # 1
       THEN /\ queue' = Append(queue, r)
            /\ phase' = [phase EXCEPT ![r] = "queued"]
       ELSE /\ phase' = [phase EXCEPT ![r] = "ready"]
            /\ UNCHANGED queue

\* asio_client::propagate: the context obtains its connection before the request
\* waits for its turn.
Propagate(r) ==
  /\ phase[r] = "unsent" /\ CanObtain
  /\ conn' = [conn EXCEPT ![r] = Obtained.conn]
  /\ conns' = Obtained.conns
  /\ pool' = Obtained.pool
  /\ PushRequest(r)
  /\ UNCHANGED <<order, op, timer, tokenVars, answerVars, historyVars>>

\* open_and_send_request, start_request: the timer is started, and a connection
\* from the pool is written to at once.  The token's callback is registered
\* afterwards.
Start(r) ==
  /\ phase[r] = "ready" /\ token[r] # "canceled"
  /\ phase' = [phase EXCEPT ![r] = "active"]
  /\ timer' = [timer EXCEPT ![r] = "started"]
  /\ op' = [op EXCEPT ![r] =
              Pending(IF conns[conn[r]].reused THEN "write" ELSE "resolve")]
  /\ due' = [due EXCEPT ![r] = token[r] # "none"]
  /\ UNCHANGED <<order, scheduled, queue, conn, token, reg, conns, pool,
                 answerVars, historyVars>>

\* The client's callback for the socket throws, or the method is not valid.
StartFails(r) == phase[r] = "ready" /\ token[r] # "canceled" /\ Fail(r, "error")

\* start_request of a request canceled before.
StartCanceled(r) == phase[r] = "ready" /\ token[r] = "canceled" /\ Fail(r, "canceled")

\* register_callback in start_request; a token already canceled calls back now.
Register(r) ==
  /\ due[r]
  /\ due' = [due EXCEPT ![r] = FALSE]
  /\ reg' = [reg EXCEPT ![r] = IF token[r] = "canceled" THEN "gone" ELSE "yes"]
  /\ conns' = IF token[r] = "canceled"
                THEN [conns EXCEPT ![conn[r]] = Closed(@)] ELSE conns
  /\ UNCHANGED <<orderVars, conn, op, timer, token, pool, answerVars, historyVars>>

----------------------------------------------------------------------------
(* Handlers *)

Completed(r, k, results) == op[r].kind = k /\ op[r].res \in results

\* async_connect opens a socket that is closed, and one that is open it finds
\* connected.
Connecting(c) == IF c.sock = "open" THEN c ELSE [c EXCEPT !.sock = "connecting"]

\* Mutant of HandleResolve: a timeout during the resolution is not looked at.
HandleResolveNoCheck(r) ==
  \E left \in 0..(MaxEndpoints - 1) :
    /\ Completed(r, "resolve", {"ok"})
    /\ op' = [op EXCEPT ![r] = [Pending("connect") EXCEPT !.left = left]]
    /\ conns' = [conns EXCEPT ![conn[r]] = Connecting(@)]
    /\ UNCHANGED <<orderVars, conn, timer, tokenVars, pool, answerVars, historyVars>>

\* handle_resolve.  The timer may have closed the socket before it was opened,
\* and is looked at again; a cancellation that did is not.
HandleResolve(r) ==
  \E left \in 0..(MaxEndpoints - 1) :
    /\ Completed(r, "resolve", {"ok"})
    /\ op' = [op EXCEPT ![r] = [Pending("connect") EXCEPT !.left = left]]
    /\ conns' = [conns EXCEPT ![conn[r]] =
                   IF timer[r] = "timedout" THEN Closed(Connecting(@))
                                            ELSE Connecting(@)]
    /\ UNCHANGED <<orderVars, conn, timer, tokenVars, pool, answerVars, historyVars>>

HandleResolveError(r) == Completed(r, "resolve", {"failed"}) /\ Fail(r, Error(r))

\* handle_connect
HandleConnect(r) ==
  /\ Completed(r, "connect", {"ok"})
  /\ op' = [op EXCEPT ![r] = Pending("write")]
  /\ UNCHANGED <<orderVars, conn, timer, tokenVars, conns, pool, answerVars, historyVars>>

\* A connect that was aborted was canceled, and a timeout aborts it too.
HandleConnectAborted(r) == Completed(r, "connect", {"aborted"}) /\ Fail(r, "canceled")

HandleConnectError(r) ==
  Completed(r, "connect", {"failed"}) /\ op[r].left = 0 /\ Fail(r, Error(r))

\* Mutant of HandleConnectNext: the end of the addresses is passed.
HandleConnectNextPast(r) ==
  /\ Completed(r, "connect", {"failed"}) /\ CanObtain
  /\ LET o == Obtained IN
       /\ conn' = [conn EXCEPT ![r] = o.conn]
       /\ conns' = [o.conns EXCEPT ![o.conn] = Connecting(@),
                                   ![conn[r]] = NoConnection]
       /\ pool' = o.pool
  /\ op' = [op EXCEPT ![r].left = @ - 1, ![r].res = "pending"]
  /\ lost' = IF timer[r] = "timedout" THEN lost \cup {r} ELSE lost
  /\ UNCHANGED <<orderVars, timer, tokenVars, answerVars, unsupported>>

\* The next address is tried on another connection, which may come from the pool.
HandleConnectNext(r) ==
  /\ Completed(r, "connect", {"failed"}) /\ op[r].left > 0 /\ CanObtain
  /\ LET o == Obtained IN
       /\ conn' = [conn EXCEPT ![r] = o.conn]
       /\ conns' = [o.conns EXCEPT ![o.conn] = Connecting(@),
                                   ![conn[r]] = NoConnection]
       /\ pool' = o.pool
  /\ op' = [op EXCEPT ![r].left = @ - 1, ![r].res = "pending"]
  /\ lost' = IF timer[r] = "timedout" THEN lost \cup {r} ELSE lost
  /\ UNCHANGED <<orderVars, timer, tokenVars, answerVars, unsupported>>

\* handle_write_headers to handle_write_body
HandleWrite(r) ==
  /\ Completed(r, "write", {"ok"})
  /\ op' = [op EXCEPT ![r] = Pending("status")]
  /\ UNCHANGED <<orderVars, conn, timer, tokenVars, conns, pool, answerVars, historyVars>>

\* The request's body cannot be read, or the progress handler throws.
HandleWriteThrows(r) == Completed(r, "write", {"ok"}) /\ Fail(r, "error")

HandleWriteError(r) == Completed(r, "write", {"failed", "aborted"}) /\ Fail(r, Error(r))

\* handle_status_line of something that is not HTTP.
HandleStatusInvalid(r) == Completed(r, "status", {"ok"}) /\ Fail(r, Error(r))

\* Mutant of ReadHeaders: the response is complete although its body is not read.
ReadHeadersOnward(r) ==
  \E bodyless \in BOOLEAN :
    /\ Completed(r, "status", {"ok"})
    /\ outcome' = [outcome EXCEPT ![r] = "response"]
    /\ body' = [body EXCEPT ![r] = "complete"]
    /\ Finish(r, 1)
    /\ op' = [op EXCEPT ![r] = IF bodyless THEN NoOp ELSE Pending("body")]
    /\ UNCHANGED <<conn, conns, timer, token, due, pool, historyVars>>

\* read_headers: the headers may say whether the connection is to be kept.  A
\* response in an unsupported encoding is failed, and then read all the same.
ReadHeaders(r) ==
  \E keep \in {"unsaid", "yes", "no"}, supported, bodyless, throws \in BOOLEAN :
    LET fails == ~supported \/ (bodyless /\ throws)
        kept == IF keep = "unsaid" THEN conns[conn[r]]
                ELSE [conns[conn[r]] EXCEPT !.keep = (keep = "yes")]
    IN
    /\ Completed(r, "status", {"ok"})
    /\ conns' = [conns EXCEPT ![conn[r]] = IF fails THEN Closed(kept) ELSE kept]
    /\ outcome' = [outcome EXCEPT ![r] = "response"]
    /\ body' = [body EXCEPT ![r] =
                  CASE fails -> "error" [] bodyless -> "complete" [] OTHER -> @]
    /\ Finish(r, (IF supported THEN 0 ELSE 1) + (IF bodyless THEN 1 ELSE 0))
    /\ op' = [op EXCEPT ![r] = IF bodyless THEN NoOp ELSE Pending("body")]
    /\ unsupported' = IF supported THEN unsupported ELSE unsupported \cup {r}
    /\ UNCHANGED <<conn, timer, token, due, pool, lost>>

\* handle_status_line when the server has closed a connection that was in the
\* pool: a new context sends the request again.
Resend(r) ==
  /\ Completed(r, "status", {"eof"}) /\ conns[conn[r]].reused /\ CanObtain
  /\ LET o == Obtained IN
       /\ conn' = [conn EXCEPT ![r] = o.conn]
       /\ conns' = [o.conns EXCEPT ![conn[r]] = NoConnection]
       /\ pool' = o.pool
  /\ op' = [op EXCEPT ![r] = NoOp]
  /\ timer' = [timer EXCEPT ![r] = "created"]
  /\ phase' = [phase EXCEPT ![r] = "ready"]
  /\ due' = [due EXCEPT ![r] = FALSE]
  /\ reg' = [reg EXCEPT ![r] = IF @ = "yes" THEN "stale" ELSE @]
  /\ UNCHANGED <<order, scheduled, queue, token, answerVars, historyVars>>

HandleStatusError(r) ==
  /\ \/ Completed(r, "status", {"failed", "aborted"})
     \/ Completed(r, "status", {"eof"}) /\ ~conns[conn[r]].reused
  /\ Fail(r, Error(r))

\* handle_read_content or handle_chunk of the last part.
HandleBody(r) == Completed(r, "body", {"ok"}) /\ Complete(r)

\* The body cannot be written or decompressed, or the progress handler throws.
HandleBodyThrows(r) == Completed(r, "body", {"ok"}) /\ Fail(r, "error")

HandleBodyError(r) == Completed(r, "body", {"failed", "aborted"}) /\ Fail(r, Error(r))

Handle(r) ==
  \/ Start(r) \/ StartFails(r) \/ StartCanceled(r) \/ Register(r)
  \/ HandleResolve(r) \/ HandleResolveError(r)
  \/ HandleConnect(r) \/ HandleConnectAborted(r) \/ HandleConnectError(r)
  \/ HandleConnectNext(r)
  \/ HandleWrite(r) \/ HandleWriteThrows(r) \/ HandleWriteError(r)
  \/ HandleStatusInvalid(r) \/ ReadHeaders(r) \/ Resend(r) \/ HandleStatusError(r)
  \/ HandleBody(r) \/ HandleBodyThrows(r) \/ HandleBodyError(r)

----------------------------------------------------------------------------
(* Timer, cancellation, destruction, the pool's timer *)

\* handle_timeout
Timeout(r) ==
  /\ timer[r] = "started" /\ conn[r] # NoConn
  /\ timer' = [timer EXCEPT ![r] = "timedout"]
  /\ conns' = [conns EXCEPT ![conn[r]] = Closed(@)]
  /\ UNCHANGED <<orderVars, conn, op, tokenVars, pool, answerVars, historyVars>>

\* The user cancels the token, which first sets its flag ...
Cancel(r) ==
  /\ token[r] = "live"
  /\ token' = [token EXCEPT ![r] = "canceled"]
  /\ UNCHANGED <<orderVars, conn, op, timer, due, reg, conns, pool, answerVars,
                 historyVars>>

\* ... and then makes the callback, which closes the context's connection.
CancelCallback(r) ==
  /\ token[r] = "canceled" /\ reg[r] = "yes"
  /\ reg' = [reg EXCEPT ![r] = "gone"]
  /\ conns' = IF conn[r] = NoConn THEN conns
              ELSE [conns EXCEPT ![conn[r]] = Closed(@)]
  /\ UNCHANGED <<orderVars, conn, op, timer, token, due, pool, answerVars,
                 historyVars>>

\* ~asio_context: nobody refers to the context any more; its timer is stopped, and
\* the connection goes to the pool if it is to be kept.
Destroy(r) ==
  /\ phase[r] = "done" /\ op[r] = NoOp /\ ~due[r] /\ conn[r] # NoConn
  /\ timer' = [timer EXCEPT ![r] = "stopped"]
  /\ conn' = [conn EXCEPT ![r] = NoConn]
  /\ IF conns[conn[r]].keep
       THEN pool' = Pooled(conn[r]) /\ UNCHANGED conns
       ELSE conns' = [conns EXCEPT ![conn[r]] = NoConnection] /\ UNCHANGED pool
  /\ UNCHANGED <<orderVars, op, tokenVars, answerVars, historyVars>>

\* The pool's timer: if nothing was released since it last fired the pool is
\* emptied, else the connections that were there then are dropped from the front.
EpochTick ==
  LET stale == {i \in 1..Len(pool.idle) :
                  pool.released => \A j \in 1..i : ~pool.idle[j].fresh}
      n == Cardinality(stale)
      rest == SubSeq(pool.idle, n + 1, Len(pool.idle))
  IN /\ pool.ticking
     /\ pool' = [idle     |-> [i \in 1..Len(rest) |-> [rest[i] EXCEPT !.fresh = FALSE]],
                 released |-> FALSE,
                 ticking  |-> pool.released]
     /\ conns' = [c \in Conns |->
                    IF \E i \in stale : pool.idle[i].conn = c THEN NoConnection
                    ELSE conns[c]]
     /\ UNCHANGED <<orderVars, conn, op, timer, tokenVars, answerVars, historyVars>>

----------------------------------------------------------------------------
(* The network *)

\* What the pending operation of a context may come to.  Closing the connection
\* aborts it, except that the rest of a body may have been received before.
Results(r) ==
  LET s == IF conn[r] = NoConn THEN "none" ELSE conns[conn[r]].sock
      k == op[r].kind
  IN CASE k = "resolve"                         -> {"ok", "failed"}
       [] s = "closed" /\ k = "body"            -> {"ok", "aborted"}
       [] s = "closed" /\ k # "body"            -> {"aborted"}
       [] k = "connect" /\ s = "connecting"     -> {"ok", "failed"}
       [] k = "connect" /\ s = "open"           -> {"failed"}
       [] k = "status"                          -> {"ok", "eof", "failed"}
       [] OTHER                                 -> {"ok", "failed"}

Network(r, res) ==
  /\ op[r].res = "pending" /\ res \in Results(r)
  /\ op' = [op EXCEPT ![r].res = res]
  /\ conns' = IF op[r].kind = "connect" /\ res = "ok"
                THEN [conns EXCEPT ![conn[r]].sock = "open"] ELSE conns
  /\ UNCHANGED <<orderVars, conn, timer, tokenVars, pool, answerVars, historyVars>>

NetworkStep(r) == \E res \in {"ok", "failed", "eof", "aborted"} : Network(r, res)

Next ==
  \/ \E r \in Requests :
       Propagate(r) \/ Handle(r) \/ Timeout(r) \/ Cancel(r) \/ CancelCallback(r)
         \/ Destroy(r) \/ NetworkStep(r)
  \/ EpochTick

Spec == Init /\ [][Next]_vars

\* Operations that end whatever the peer does: name resolution, the system's own
\* attempt to connect, and anything whose connection was closed.
Ends(r) ==
  /\ op[r].res = "pending"
  /\ op[r].kind \in {"resolve", "connect"} \/ conns[conn[r]].sock = "closed"
  /\ NetworkStep(r)

\* The thread pool does not idle while there is something to do, and a timer
\* that is not reset for ever fires.
FairSpec ==
  /\ Spec
  /\ WF_vars(\E r \in Requests :
               Handle(r) \/ CancelCallback(r) \/ Destroy(r) \/ Ends(r))
  /\ WF_vars(\E r \in Requests : Timeout(r))

----------------------------------------------------------------------------
(* Properties *)

Live(r) == conn[r] # NoConn
Idle == {pool.idle[i].conn : i \in DOMAIN pool.idle}
Underway == {r \in Requests : phase[r] \in {"ready", "active"}}

\* A connection serves one request at a time: no two contexts have the same
\* one, and a connection in the pool is there once and is nobody's.
NoSharing ==
  /\ \A r, q \in Requests : r # q /\ Live(r) => conn[r] # conn[q]
  /\ \A r \in Requests : conn[r] \notin Idle
  /\ \A i, j \in DOMAIN pool.idle :
       pool.idle[i].conn = pool.idle[j].conn => i = j

\* A connection is pooled only if it was connected.
PooledWasConnected == \A c \in Idle : conns[c].sock \in {"open", "closed"}

\* "LIFO usage guarantees that the elements remain sorted based on epoch": what
\* the pool's timer has seen lies in front of what was released since.
PoolSorted ==
  \A i, j \in DOMAIN pool.idle :
    i < j /\ pool.idle[i].fresh => pool.idle[j].fresh

\* With guarantee_order one request is under way at a time, and a request waits
\* only for one that is, as long as every encoding is supported.
Serialized ==
  order /\ unsupported = {} =>
    /\ Cardinality(Underway) <= 1
    /\ queue # <<>> => Underway # {}
    /\ scheduled = Cardinality(Underway) + Len(queue)

\* A request is finished once, with its response and its body answered and
\* nothing left to be handled.
FinishedOnce ==
  \A r \in Requests \ unsupported :
    /\ finishes[r] <= 1
    /\ finishes[r] = 1 <=> phase[r] = "done"
    /\ phase[r] = "done" => outcome[r] # "none" /\ body[r] # "none" /\ op[r] = NoOp
    /\ body[r] # "none" => phase[r] = "done"

\* Whatever was sent comes to an end, however the network stalls: the timer closes
\* its connection, and a queued request gets its turn.  Excepted are timeouts
\* lost when a connection was replaced, and the unsupported encodings.
Completes ==
  (\E r \in Requests : phase[r] \notin {"unsent", "done"})
    ~> \/ \A r \in Requests : phase[r] \in {"unsent", "done"}
       \/ unsupported # {} \/ lost # {}

\* "Ensures closed connections owned by request_context will not be put to pool
\* when they are released."
ClosedNotPooled == \A c \in Idle : conns[c].sock # "closed"

\* guarantee_order: a queued request has one before it that is under way.
QueueServed == order /\ queue # <<>> => Underway # {}

=============================================================================
