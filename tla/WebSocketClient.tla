--------------------------- MODULE WebSocketClient ---------------------------
(***************************************************************************)
(* The websocket client over websocketpp: wspp_callback_client, whose sends  *)
(* go out one at a time, and the queues of websocket_client_task_impl (here: *)
(* the front), in which messages and receives wait for each other.           *)
(*                                                                         *)
(* Threads: the callers of send, receive and close; m_thread, which runs     *)
(* websocketpp and calls the open, fail, message and close handlers; tasks   *)
(* of the pool.  The program drops its client outside the handlers and when  *)
(* no call is in progress.  The network may refuse the connection or end it  *)
(* at any point.                                                           *)
(***************************************************************************)
EXTENDS Integers, Sequences, FiniteSets

CONSTANTS
  Sends,       \* the messages that are sent, each by a thread of its own
  Receives,    \* the calls of receive
  MaxMessages  \* bound on the messages that come in

ASSUME WebSocketAssumption == MaxMessages \in Nat /\ IsFiniteSet(Sends)

VARIABLES
  state,       \* m_state
  link,        \* the connection, as websocketpp has it
  thread,      \* m_thread: assigned, and still in run()
  client,      \* m_client is there
  opened,      \* m_connect_tce
  closed,      \* m_close_tce
  shut,        \* the task of shutdown_wspp_impl
  owner,       \* who holds the client, up to the end of its destructor
  numSends,    \* m_num_sends
  outgoing,    \* m_outgoing_msg_queue
  send,        \* where each message is
  accepted,    \* the order in which messages were taken (history)
  answers,     \* the order in which sends were answered (history)
  front,       \* websocket_client_task_impl is there
  incoming,    \* m_receive_msg_queue
  waiting,     \* m_receive_task_queue
  setting,     \* the event the message handler has popped and has yet to set
  frontClosed, \* m_client_closed
  receive,     \* the answer of each call of receive
  arrived,     \* messages that came in (history)
  broken       \* the undefined behaviour met, after which nothing is known

linkVars == <<state, link, thread, client, opened, closed, shut>>
sendVars == <<numSends, outgoing, send, accepted, answers>>
frontVars == <<front, incoming, waiting, setting, frontClosed, receive, arrived>>
vars == <<linkVars, owner, sendVars, frontVars, broken>>

Messages == 1..MaxMessages

\* What a call of receive has when it has no message.
NotCalled == 0
Waiting == -1
Error == -2

\* A message is unsent, counted but not yet queued, queued, or in a chain of
\* tasks, which holds a reference to the client: until its stream is read and it
\* is handed over, until m_num_sends is lowered, and until the next is taken.
\* "stalled" is a chain that ended early.
InChain == {"reading", "answered", "next"}

\* The connection is up: open; open after a close of the client that websocketpp
\* has refused; in the closing handshake, which has a timer.
Up == {"open", "refused", "closing"}

\* The types of the variables.
TypeOK ==
  /\ state \in {"CREATED", "CONNECTING", "CONNECTED", "CLOSING", "CLOSED", "DESTROYED"}
  /\ link \in {"none", "connecting"} \cup Up \cup {"ended"}
  /\ thread \in [assigned : BOOLEAN, running : BOOLEAN]
  /\ client \in BOOLEAN /\ closed \in BOOLEAN /\ front \in BOOLEAN
  /\ opened \in {"none", "set", "failed"}
  /\ shut \in {"none", "failing", "closing", "handler", "last", "done"}
  /\ owner \in {"program", "front", "sends", "destructor", "none"}
  /\ numSends \in 0..Cardinality(Sends)
  /\ outgoing \in Seq(Sends) /\ accepted \in Seq(Sends) /\ answers \in Seq(Sends)
  /\ send \in [Sends -> InChain \cup {"unsent", "counted", "queued", "stalled", "done"}]
  /\ incoming \in Seq(Messages) /\ waiting \in Seq(Receives)
  /\ setting \in Seq(Receives \X Messages)
  /\ frontClosed \in BOOLEAN
  /\ receive \in [Receives -> Error..MaxMessages]
  /\ arrived \in 0..MaxMessages
  /\ broken \in {"no", "queue", "client", "front", "thread"}

Init ==
  /\ state = "CREATED" /\ link = "none"
  /\ thread = [assigned |-> FALSE, running |-> FALSE]
  /\ client = FALSE /\ opened = "none" /\ closed = FALSE
  /\ shut = "none" /\ owner = "program"
  /\ numSends = 0 /\ outgoing = <<>> /\ accepted = <<>> /\ answers = <<>>
  /\ send = [s \in Sends |-> "unsent"]
  /\ front = TRUE /\ incoming = <<>> /\ waiting = <<>> /\ setting = <<>>
  /\ frontClosed = FALSE
  /\ receive = [r \in Receives |-> NotCalled]
  /\ arrived = 0
  /\ broken = "no"

Sane == broken = "no"

----------------------------------------------------------------------------
(* Connecting and closing *)

\* close_pending_tasks_with_error
ClosePending ==
  /\ frontClosed' = TRUE
  /\ waiting' = <<>>
  /\ receive' = [r \in Receives |->
                   IF \E i \in DOMAIN waiting : waiting[i] = r THEN Error ELSE receive[r]]
  /\ UNCHANGED <<incoming, setting, arrived>>

\* connect_impl returns an error before it begins to connect: the state is as it
\* was, and the continuation of websocket_client::connect closes the front.
ConnectRefused ==
  /\ Sane /\ owner = "program" /\ state = "CREATED"
  /\ client' = TRUE
  /\ ClosePending
  /\ UNCHANGED <<state, link, thread, opened, closed, shut, owner, sendVars,
                 front, broken>>

\* connect_impl up to the construction of the thread.
Connect ==
  /\ Sane /\ owner = "program" /\ state = "CREATED"
  /\ state' = "CONNECTING" /\ link' = "connecting" /\ client' = TRUE
  /\ thread' = [assigned |-> FALSE, running |-> TRUE]
  /\ UNCHANGED <<opened, closed, shut, owner, sendVars, frontVars, broken>>

\* Its assignment to m_thread.
AssignThread ==
  /\ Sane /\ state # "CREATED" /\ ~thread.assigned
  /\ thread' = [thread EXCEPT !.assigned = TRUE]
  /\ UNCHANGED <<state, link, client, opened, closed, shut, owner, sendVars,
                 frontVars, broken>>

\* The handlers run on m_thread, one at a time.
OnThread == Sane /\ thread.running /\ setting = <<>>

OpenHandler ==
  /\ OnThread /\ link = "connecting"
  /\ link' = "open" /\ state' = "CONNECTED" /\ opened' = "set"
  /\ UNCHANGED <<thread, client, closed, shut, owner, sendVars, frontVars, broken>>

\* The fail and the close handler: shutdown_wspp_impl, up to its task.  The close
\* handler runs when the closing handshake ends or takes too long, or the connection
\* breaks.
Shutdown ==
  /\ OnThread /\ link \in {"connecting"} \cup Up
  /\ shut' = IF link = "connecting" THEN "failing" ELSE "closing"
  /\ link' = "ended" /\ state' = "CLOSED"
  /\ UNCHANGED <<thread, client, opened, closed, owner, sendVars, frontVars, broken>>

\* stop_perpetual() has left run() without work.
ThreadReturns ==
  /\ OnThread /\ link = "ended"
  /\ thread' = [thread EXCEPT !.running = FALSE]
  /\ UNCHANGED <<state, link, client, opened, closed, shut, owner, sendVars,
                 frontVars, broken>>

\* Mutant of Join: a connection that failed ends here.
JoinFailed ==
  /\ Sane /\ shut \in {"failing", "closing"}
  /\ thread.assigned => ~thread.running
  /\ client' = FALSE
  /\ broken' = IF thread.running THEN "thread" ELSE "no"
  /\ opened' = IF shut = "failing" THEN "failed" ELSE opened
  /\ shut' = IF shut = "failing" THEN "done" ELSE "handler"
  /\ UNCHANGED <<state, link, thread, closed, owner, sendVars, frontVars>>

\* The task of shutdown_wspp_impl joins m_thread, if it is joinable by now, and
\* destroys the client.
Join ==
  /\ Sane /\ shut \in {"failing", "closing"}
  /\ thread.assigned => ~thread.running
  /\ client' = FALSE
  /\ broken' = IF thread.running THEN "thread" ELSE "no"
  /\ opened' = IF shut = "failing" THEN "failed" ELSE opened
  /\ shut' = "handler"
  /\ UNCHANGED <<state, link, thread, closed, owner, sendVars, frontVars>>

\* m_external_close_handler, whose "this" is the front.
CloseHandler ==
  /\ Sane /\ shut = "handler"
  /\ shut' = "last"
  /\ IF front THEN ClosePending /\ UNCHANGED <<front, broken>>
     ELSE broken' = "front" /\ UNCHANGED frontVars
  /\ UNCHANGED <<state, link, thread, client, opened, closed, owner, sendVars>>

CloseSet ==
  /\ Sane /\ shut = "last"
  /\ shut' = "done" /\ closed' = TRUE
  /\ UNCHANGED <<state, link, thread, client, opened, owner, sendVars, frontVars,
                 broken>>

\* The peer closes, and websocketpp answers: the closing handshake of a connection
\* that is open, or the rest of one that is under way.
PeerCloses ==
  /\ OnThread /\ link \in {"open", "refused"}
  /\ link' = "closing"
  /\ UNCHANGED <<state, thread, client, opened, closed, shut, owner, sendVars,
                 frontVars, broken>>

\* close(), by the program or by the destructor, begins the closing handshake,
\* unless the peer has; in any other state it does nothing but return the task of
\* m_close_tce.
Close ==
  /\ Sane /\ owner \in {"program", "destructor"} /\ state = "CONNECTED"
  /\ state' = "CLOSING" /\ link' = "closing"
  /\ UNCHANGED <<thread, client, opened, closed, shut, owner, sendVars,
                 frontVars, broken>>

\* close() of the program with a code that may not be sent, as abnormal_close: no
\* handshake begins, and the error is not looked at.
CloseRefused ==
  /\ Sane /\ owner = "program" /\ state = "CONNECTED" /\ link = "open"
  /\ state' = "CLOSING" /\ link' = "refused"
  /\ UNCHANGED <<thread, client, opened, closed, shut, owner, sendVars,
                 frontVars, broken>>

\* The program drops its websocket_client.
Drop ==
  /\ Sane /\ owner = "program"
  /\ \A s \in Sends : send[s] # "counted"
  /\ owner' = "front"
  /\ UNCHANGED <<linkVars, sendVars, frontVars, broken>>

ChainHolds == \E s \in Sends : send[s] \in InChain

\* ~websocket_client_task_impl, when the continuation of connect() has let go of
\* it: it stays until the callback client is destroyed, unless a chain holds that.
DestroyFront ==
  /\ Sane /\ owner = "front" /\ (opened # "none" \/ state = "CREATED")
  /\ owner' = IF ChainHolds THEN "sends" ELSE "destructor"
  /\ front' = ~ChainHolds
  /\ ClosePending
  /\ UNCHANGED <<linkVars, sendVars, broken>>

\* The last chain lets go of the callback client.
LastSend ==
  /\ Sane /\ owner = "sends" /\ ~ChainHolds
  /\ owner' = "destructor"
  /\ UNCHANGED <<linkVars, sendVars, frontVars, broken>>

\* ~wspp_callback_client returns once its close() has.
Destroy ==
  /\ Sane /\ owner = "destructor" /\ (state = "CREATED" \/ closed)
  /\ owner' = "none" /\ state' = "DESTROYED" /\ front' = FALSE
  /\ UNCHANGED <<link, thread, client, opened, closed, shut, sendVars, incoming,
                 waiting, setting, frontClosed, receive, arrived, broken>>

----------------------------------------------------------------------------
(* Sending *)

\* Mutant of Send: a send that finds the queue empty starts at once.
SendEager(s) ==
  /\ Sane /\ owner = "program" /\ opened # "none" /\ send[s] = "unsent"
  /\ numSends' = numSends + 1
  /\ IF outgoing = <<>>
       THEN /\ send' = [send EXCEPT ![s] = "reading"]
            /\ accepted' = Append(accepted, s)
       ELSE /\ send' = [send EXCEPT ![s] = "counted"]
            /\ UNCHANGED accepted
  /\ UNCHANGED <<linkVars, owner, outgoing, answers, frontVars, broken>>

\* send(): the first one starts at once, any other goes on to the queue.
Send(s) ==
  /\ Sane /\ owner = "program" /\ opened # "none" /\ send[s] = "unsent"
  /\ numSends' = numSends + 1
  /\ IF numSends = 0
       THEN /\ send' = [send EXCEPT ![s] = "reading"]
            /\ accepted' = Append(accepted, s)
       ELSE /\ send' = [send EXCEPT ![s] = "counted"]
            /\ UNCHANGED accepted
  /\ UNCHANGED <<linkVars, owner, outgoing, answers, frontVars, broken>>

Push(s) ==
  /\ Sane /\ send[s] = "counted"
  /\ send' = [send EXCEPT ![s] = "queued"]
  /\ outgoing' = Append(outgoing, s)
  /\ accepted' = Append(accepted, s)
  /\ UNCHANGED <<linkVars, owner, numSends, answers, frontVars, broken>>

\* send_msg finds no length: the stream is larger than SIZE_MAX, or cannot be
\* read to its end.  The sender is answered and m_num_sends stays.
StreamFails(s) ==
  /\ Sane /\ send[s] = "reading"
  /\ send' = [send EXCEPT ![s] = "stalled"]
  /\ answers' = Append(answers, s)
  /\ UNCHANGED <<linkVars, owner, numSends, outgoing, accepted, frontVars, broken>>

AfterConnected == state \in {"CLOSING", "CLOSED", "DESTROYED"}

\* Mutant of HandOver: the state is not tested under the lock.
HandOverAnyway(s) ==
  /\ Sane /\ send[s] = "reading"
  /\ send' = [send EXCEPT ![s] = "answered"]
  /\ answers' = Append(answers, s)
  /\ broken' = IF client THEN "no" ELSE "client"
  /\ UNCHANGED <<linkVars, owner, numSends, outgoing, accepted, frontVars>>

\* The stream is read, and the message handed to m_client under the lock unless
\* the client is closing by now; the sender is answered.
HandOver(s) ==
  /\ Sane /\ send[s] = "reading"
  /\ send' = [send EXCEPT ![s] = "answered"]
  /\ answers' = Append(answers, s)
  /\ broken' = IF AfterConnected \/ client THEN "no" ELSE "client"
  /\ UNCHANGED <<linkVars, owner, numSends, outgoing, accepted, frontVars>>

\* Mutant of CountDown: the queue is looked at only if two are left.
CountDownLate(s) ==
  /\ Sane /\ send[s] = "answered"
  /\ numSends' = numSends - 1
  /\ send' = [send EXCEPT ![s] = IF numSends > 2 THEN "next" ELSE "done"]
  /\ UNCHANGED <<linkVars, owner, outgoing, accepted, answers, frontVars, broken>>

\* --m_num_sends > 0
CountDown(s) ==
  /\ Sane /\ send[s] = "answered"
  /\ numSends' = numSends - 1
  /\ send' = [send EXCEPT ![s] = IF numSends > 1 THEN "next" ELSE "done"]
  /\ UNCHANGED <<linkVars, owner, outgoing, accepted, answers, frontVars, broken>>

\* front() and pop(), then send_msg.
TakeNext(s) ==
  /\ Sane /\ send[s] = "next"
  /\ IF outgoing = <<>>
       THEN broken' = "queue" /\ UNCHANGED <<outgoing, send>>
       ELSE /\ send' = [send EXCEPT ![s] = "done", ![Head(outgoing)] = "reading"]
            /\ outgoing' = Tail(outgoing)
            /\ UNCHANGED broken
  /\ UNCHANGED <<linkVars, owner, numSends, accepted, answers, frontVars>>

----------------------------------------------------------------------------
(* Receiving *)

\* Mutant of MessageHandler: the message is queued, whoever waits.
MessageQueued ==
  /\ OnThread /\ link \in Up /\ front /\ arrived < MaxMessages
  /\ arrived' = arrived + 1
  /\ incoming' = Append(incoming, arrived + 1)
  /\ UNCHANGED <<linkVars, owner, sendVars, front, waiting, setting, frontClosed,
                 receive, broken>>

\* The message handler: the event of the first receive that waits, or the queue.
\* websocketpp tests that the connection is open before it calls the handler, and a
\* close() may come in between.
MessageHandler ==
  /\ OnThread /\ link \in Up /\ front /\ arrived < MaxMessages
  /\ arrived' = arrived + 1
  /\ IF waiting = <<>>
       THEN /\ incoming' = Append(incoming, arrived + 1)
            /\ UNCHANGED <<waiting, setting>>
       ELSE /\ setting' = <<<<Head(waiting), arrived + 1>>>>
            /\ waiting' = Tail(waiting)
            /\ UNCHANGED incoming
  /\ UNCHANGED <<linkVars, owner, sendVars, front, frontClosed, receive, broken>>

\* The front it is bound to is gone.
MessageOrphaned ==
  /\ OnThread /\ link \in Up /\ ~front /\ arrived < MaxMessages
  /\ broken' = "front"
  /\ UNCHANGED <<linkVars, owner, sendVars, frontVars>>

SetReceive ==
  /\ Sane /\ setting # <<>>
  /\ receive' = [receive EXCEPT ![setting[1][1]] = setting[1][2]]
  /\ setting' = <<>>
  /\ UNCHANGED <<linkVars, owner, sendVars, front, incoming, waiting, frontClosed,
                 arrived, broken>>

\* Mutant of Receive: m_client_closed is not looked at.
ReceiveAnyway(r) ==
  /\ Sane /\ owner = "program" /\ receive[r] = NotCalled
  /\ IF incoming = <<>>
       THEN /\ receive' = [receive EXCEPT ![r] = Waiting]
            /\ waiting' = Append(waiting, r) /\ UNCHANGED incoming
       ELSE /\ receive' = [receive EXCEPT ![r] = Head(incoming)]
            /\ incoming' = Tail(incoming) /\ UNCHANGED waiting
  /\ UNCHANGED <<linkVars, owner, sendVars, front, setting, frontClosed, arrived, broken>>

\* receive(): an error once the client is closed, whatever is in the queue.
Receive(r) ==
  /\ Sane /\ owner = "program" /\ receive[r] = NotCalled
  /\ \/ /\ frontClosed
        /\ receive' = [receive EXCEPT ![r] = Error]
        /\ UNCHANGED <<incoming, waiting>>
     \/ /\ ~frontClosed /\ incoming = <<>>
        /\ receive' = [receive EXCEPT ![r] = Waiting]
        /\ waiting' = Append(waiting, r)
        /\ UNCHANGED incoming
     \/ /\ ~frontClosed /\ incoming # <<>>
        /\ receive' = [receive EXCEPT ![r] = Head(incoming)]
        /\ incoming' = Tail(incoming)
        /\ UNCHANGED waiting
  /\ UNCHANGED <<linkVars, owner, sendVars, front, setting, frontClosed, arrived, broken>>

----------------------------------------------------------------------------
(* The specification *)

TaskStep == Join \/ CloseHandler \/ CloseSet
DropStep == DestroyFront \/ LastSend \/ Destroy \/ (owner = "destructor" /\ Close)
SendStep(s) ==
  Push(s) \/ StreamFails(s) \/ HandOver(s) \/ CountDown(s) \/ TakeNext(s)

Next ==
  \/ ConnectRefused \/ Connect \/ AssignThread
  \/ OpenHandler \/ PeerCloses \/ Shutdown \/ ThreadReturns
  \/ Join \/ CloseHandler \/ CloseSet
  \/ Close \/ CloseRefused \/ Drop \/ DestroyFront \/ LastSend \/ Destroy
  \/ \E s \in Sends : \/ Send(s) \/ Push(s) \/ StreamFails(s) \/ HandOver(s)
                      \/ CountDown(s) \/ TakeNext(s)
  \/ MessageHandler \/ MessageOrphaned \/ SetReceive
  \/ \E r \in Receives : Receive(r)

Spec == Init /\ [][Next]_vars

\* Threads and tasks that can take a step take one.  Connecting ends; so does the
\* closing handshake, which has a timer; so does the reading of a stream.
Fairness ==
  /\ WF_vars(AssignThread) /\ WF_vars(OpenHandler \/ (link = "connecting" /\ Shutdown))
  /\ WF_vars(link = "closing" /\ Shutdown)
  /\ WF_vars(ThreadReturns) /\ WF_vars(SetReceive) /\ WF_vars(TaskStep)
  /\ WF_vars(DropStep)
  /\ \A s \in Sends : WF_vars(SendStep(s))

FairSpec == Spec /\ Fairness

----------------------------------------------------------------------------
(* Properties *)

\* Sends go out one at a time and are answered in the order in which they were
\* taken, though each is counted and queued in two steps that other senders and
\* the end of the one before come between.
SendsInOrder ==
  /\ \A s, t \in Sends : send[s] \in InChain /\ send[t] \in InChain => s = t
  /\ Len(answers) =< Len(accepted)
  /\ \A i \in 1..Len(answers) : answers[i] = accepted[i]

\* A message that is handed over finds the client there: the state that
\* shutdown_wspp_impl sets under the lock keeps it from being used later.
ClientThere == broken # "client"

\* The completion of a send takes the next message from a queue that has one
\* ("Number of sends in progress and queued up").
QueueHasNext == broken # "queue"

\* No message is lost or doubled between the queue, the event that is being set
\* and the receives; none waits while a receive does; no receive is left to wait
\* once the client is closed.
ReceivesMatch ==
  /\ \A m \in 1..arrived :
       Cardinality({i \in DOMAIN incoming : incoming[i] = m})
         + Cardinality({r \in Receives : receive[r] = m})
         + Cardinality({i \in DOMAIN setting : setting[i][2] = m}) = 1
  /\ waiting # <<>> => incoming = <<>> /\ ~frontClosed

\* Every send is answered, unless the stream of an earlier one failed.
SendsAnswered ==
  \A s \in Sends :
    send[s] # "unsent" ~>
      \/ \E i \in DOMAIN answers : answers[i] = s
      \/ \E t \in Sends : send[t] = "stalled"
      \/ ~Sane

\* websocketpp has refused the code of close(), and the peer has not closed.
Refused == link = "refused"

\* Once a closing handshake has begun, by either side, the task of close()
\* completes, and a client that is dropped is destroyed, wherever its connection
\* and its sends are; a close that was refused is excepted, for then only the peer
\* or the network can end the connection.
CloseReturns ==
  /\ link = "closing" ~> closed \/ ~Sane
  /\ owner # "program" ~> owner = "none" \/ ~Sane \/ Refused

\* The same without the exception of a close that was refused.
CloseAlwaysReturns == state = "CLOSING" ~> closed \/ ~Sane

=============================================================================
