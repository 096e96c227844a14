------------------------------ MODULE HttpServer ------------------------------
(***************************************************************************)
(* The HTTP server over asio: the registration of listeners, one host and   *)
(* port, its connections, and the life of a request from its first line to  *)
(* the last use of the connection.  A connection is shared by the chain of  *)
(* its reads and writes and by the threads that run a handler: m_refs       *)
(* counts both.  close() is called from the chain and from stop().          *)
(*                                                                         *)
(* A program awaits the task of open() or close() of a listener before it   *)
(* calls the other ("Not thread safe").  Plain HTTP; the headers and the    *)
(* body of a response are one write, the body of a request is one read.     *)
(***************************************************************************)
EXTENDS Integers, FiniteSets

CONSTANTS
  Listeners,
  NoListener,
  Conns,
  MaxRequests     \* bound on the requests that a connection carries

ASSUME ServerAssumption ==
  /\ IsFiniteSet(Listeners)
  /\ NoListener \notin Listeners
  /\ MaxRequests \in Nat \ {0}

VARIABLES
  clash,       \* the listeners have the same path, or each one its own
  lst,         \* where the program is with each listener
  api,         \* the operation that holds s_lock
  count,       \* s_registrations
  started,     \* m_started
  registered,  \* the keys of m_registered_listeners
  host,        \* the hostport_listener: absent, without or with an acceptor
  paths,       \* its m_listeners, as the listeners in it
  accepting,   \* the async_accepts that wait, and whether one failed since start()
  listed,      \* m_connections
  conn,        \* the connections
  rq,          \* their requests
  crashed      \* an exception left a handler of asio, and the process is gone

vars == <<clash, lst, api, count, started, registered, host, paths, accepting,
          listed, conn, rq, crashed>>
apiVars == <<clash, lst, api, count, started, registered, host, paths>>

Numbers == 1..MaxRequests

\* The requests of a connection; number 0 stands for those that are answered as
\* soon as they are made and for those that nobody waits for.
Requests == 0..MaxRequests
SamePath(l, m) == l = m \/ clash

\* The chain of a connection: it reads, has read, looks for the listener,
\* waits for the answer, writes, has written.
Chain == {"none", "reading", "data", "eof", "error", "line", "found", "waiting",
          "writing", "written", "failed", "restart", "over"}
Connection == [life : {"none", "ready", "orphan", "live", "deleted"}, chain : Chain,
               refs : Int, leaked : Nat, sock : BOOLEAN, mclose : BOOLEAN,
               late : BOOLEAN, req : Requests]
Request == [disp : {"none", "check", "handling", "end", "over"},
            target : Listeners \cup {NoListener},
            replied : BOOLEAN, body : {"none", "reading", "done"}]
Pc == {"idle", "start", "insert", "erasing", "remove", "unlist", "barrier",
       "uncount", "stopping"}

NewConnection == [life |-> "none", chain |-> "none", refs |-> 1, leaked |-> 0,
                  sock |-> TRUE, mclose |-> FALSE, late |-> FALSE, req |-> 0]
NewRequests == [n \in Requests |-> [disp |-> "none", target |-> NoListener,
                                    replied |-> n = 0, body |-> "none"]]

\* The acceptor is reset; hostport_listener::start has made it.
NoAccept == [waiting |-> 0, failed |-> FALSE]
Listening == [waiting |-> 1, failed |-> FALSE]

\* The types of the variables; the registrations are never fewer than none.
TypeOK ==
  /\ clash \in BOOLEAN
  /\ lst \in [Listeners -> {"closed", "opening", "open", "closing"}]
  /\ api \in [pc : Pc, l : Listeners \cup {NoListener}, ok : BOOLEAN]
  /\ count \in 0..Cardinality(Listeners)
  /\ started \in BOOLEAN
  /\ registered \subseteq Listeners
  /\ host \in {"none", "idle", "listening"}
  /\ paths \subseteq Listeners
  /\ accepting \in [waiting : Nat, failed : BOOLEAN]
  /\ listed \subseteq Conns
  /\ conn \in [Conns -> Connection]
  /\ rq \in [Conns -> [Requests -> Request]]
  /\ crashed \in BOOLEAN

Init ==
  /\ clash \in BOOLEAN
  /\ lst = [l \in Listeners |-> "closed"]
  /\ api = [pc |-> "idle", l |-> NoListener, ok |-> TRUE]
  /\ count = 0 /\ started = FALSE /\ registered = {}
  /\ host = "none" /\ paths = {} /\ accepting = NoAccept
  /\ listed = {}
  /\ conn = [c \in Conns |-> NewConnection]
  /\ rq = [c \in Conns |-> NewRequests]
  /\ crashed = FALSE

----------------------------------------------------------------------------
(* Connections *)

\* _reply_if_not_already of the request that is m_request now.
AnswerCurrent(c) == [rq[c] EXCEPT ![conn[c].req].replied = TRUE]

\* connection::close, but for the answer
Shut(r) == [r EXCEPT !.sock = FALSE, !.mclose = TRUE]

\* Mutant of Dropped: the last reference does not delete.
DroppedOnly(r) == [r EXCEPT !.refs = @ - 1]

\* if (--m_refs == 0) delete this
Dropped(r) ==
  [r EXCEPT !.refs = @ - 1, !.life = IF r.refs = 1 THEN "deleted" ELSE @]

\* start_request_response: a read begun on a closed socket fails at once, with
\* an error that is none of those of a connection that ended.
Reading(r) == [r EXCEPT !.chain = IF r.sock THEN "reading" ELSE "error"]

\* do_response
Responding(r) == [r EXCEPT !.refs = @ + 1, !.chain = "waiting"]

\* do_response for a request that is malformed: the reference of the chain that
\* read it is not given up, for no dispatch follows.
RespondingBad(r) == [Responding(r) EXCEPT !.leaked = @ + 1, !.mclose = TRUE]

\* A client connects.
Connect(c) ==
  /\ ~crashed /\ accepting.waiting > 0 /\ conn[c].life \in {"none", "deleted"}
  /\ accepting' = [accepting EXCEPT !.waiting = @ - 1]
  /\ conn' = [conn EXCEPT ![c] = [NewConnection EXCEPT !.life = "ready"]]
  /\ rq' = [rq EXCEPT ![c] = NewRequests]
  /\ UNCHANGED <<apiVars, listed, crashed>>

\* on_accept with an error: it begins no other async_accept.
AcceptFails ==
  /\ ~crashed /\ accepting.waiting > 0
  /\ accepting' = [waiting |-> accepting.waiting - 1, failed |-> TRUE]
  /\ UNCHANGED <<apiVars, listed, conn, rq, crashed>>

\* on_accept without an error: the constructor begins to read, and the next
\* connection is waited for if there is an acceptor.
OnAccept(c) ==
  /\ ~crashed /\ conn[c].life = "ready"
  /\ conn' = [conn EXCEPT ![c] = [Reading(@) EXCEPT
                !.life = "live", !.late = host # "listening"]]
  /\ listed' = listed \cup {c}
  /\ accepting' = IF host = "listening" THEN [accepting EXCEPT !.waiting = @ + 1]
                                        ELSE accepting
  /\ UNCHANGED <<apiVars, rq, crashed>>

\* on_accept of a hostport_listener that is gone.
OrphanAccept(c) ==
  /\ ~crashed /\ conn[c].life = "orphan"
  /\ crashed' = TRUE
  /\ UNCHANGED <<apiVars, accepting, listed, conn, rq>>

\* The read ends: with a request, or because either side closed.
Sent(c) ==
  /\ ~crashed /\ conn[c].life = "live" /\ conn[c].chain = "reading"
  /\ conn[c].sock /\ conn[c].req < MaxRequests
  /\ conn' = [conn EXCEPT ![c].chain = "data"]
  /\ UNCHANGED <<apiVars, accepting, listed, rq, crashed>>

ReadEnds(c) ==
  /\ ~crashed /\ conn[c].chain = "reading"
  /\ conn' = [conn EXCEPT ![c].chain = "eof"]
  /\ UNCHANGED <<apiVars, accepting, listed, rq, crashed>>

\* handle_http_line: a new m_request.
HandleLine(c) ==
  /\ ~crashed /\ conn[c].chain = "data"
  /\ conn' = [conn EXCEPT ![c].chain = "line", ![c].req = @ + 1]
  /\ UNCHANGED <<apiVars, accepting, listed, rq, crashed>>

\* handle_http_line with an error other than those of a connection that ended.
HandleError(c) ==
  /\ ~crashed /\ conn[c].chain = "error"
  /\ conn' = [conn EXCEPT ![c] = [RespondingBad(@) EXCEPT !.req = 0]]
  /\ UNCHANGED <<apiVars, accepting, listed, rq, crashed>>

\* reply() of a handler of asio: it throws if the request has its answer, and
\* nothing catches it before thread_start, which is noexcept.
ReplyOrCrash(c, n) ==
  /\ crashed' = rq[c][n].replied
  /\ rq' = [rq EXCEPT ![c][n].replied = TRUE]

\* The request line or a header is malformed.
Malformed(c) ==
  /\ ~crashed /\ conn[c].chain = "line"
  /\ ReplyOrCrash(c, conn[c].req)
  /\ conn' = [conn EXCEPT ![c] = RespondingBad(@)]
  /\ UNCHANGED <<apiVars, accepting, listed>>

\* handle_headers, with HTTP/1.0 or the connection header setting or clearing
\* m_close, then the lookup of dispatch_request_to_listener: none has the path.
NotFound(c) ==
  LET n == conn[c].req IN
  /\ ~crashed /\ conn[c].chain = "line"
  /\ \E close \in BOOLEAN, body \in {"reading", "done"} :
       /\ crashed' = rq[c][n].replied
       /\ conn' = [conn EXCEPT ![c] = [Responding(@) EXCEPT !.mclose = close]]
       /\ rq' = [rq EXCEPT ![c][n] = [@ EXCEPT !.replied = TRUE, !.body = body,
                                               !.disp = "end"]]
  /\ UNCHANGED <<apiVars, accepting, listed>>

\* The same, when the map of the host has a listener for the path.
Found(c) ==
  /\ ~crashed /\ conn[c].chain = "line"
  /\ \E l \in paths, close \in BOOLEAN, body \in {"reading", "done"} :
       /\ conn' = [conn EXCEPT ![c] = [@ EXCEPT !.chain = "found", !.mclose = close]]
       /\ rq' = [rq EXCEPT ![c][conn[c].req] =
                   [@ EXCEPT !.target = l, !.body = body]]
  /\ UNCHANGED <<apiVars, accepting, listed, crashed>>

\* pListener->uri(), then do_response.
Respond(c) ==
  /\ ~crashed /\ conn[c].chain = "found"
  /\ conn' = [conn EXCEPT ![c] = Responding(@)]
  /\ rq' = [rq EXCEPT ![c][conn[c].req].disp = "check"]
  /\ UNCHANGED <<apiVars, accepting, listed, crashed>>

\* register_listener destroys the hostport_listener with the server's lock held.
Locked == api.pc = "erasing"

\* The listener is still registered: take its lock and call handle_request.
EnterHandler(c, n) ==
  /\ ~crashed /\ rq[c][n].disp = "check" /\ ~Locked
  /\ rq[c][n].target \in registered
  /\ rq' = [rq EXCEPT ![c][n].disp = "handling"]
  /\ UNCHANGED <<apiVars, accepting, listed, conn, crashed>>

\* It is not: answer and return, without giving up the reference.
Unregistered(c, n) ==
  /\ ~crashed /\ rq[c][n].disp = "check" /\ ~Locked
  /\ rq[c][n].target \notin registered
  /\ crashed' = rq[c][n].replied
  /\ rq' = [rq EXCEPT ![c][n] = [@ EXCEPT !.replied = TRUE, !.disp = "over",
                                          !.target = NoListener]]
  /\ conn' = [conn EXCEPT ![c].leaked = @ + 1]
  /\ UNCHANGED <<apiVars, accepting, listed>>

\* The handler replies, or a task it left behind does.
HandlerReplies(c, n) ==
  /\ ~crashed /\ rq[c][n].disp \in {"handling", "end", "over"} /\ ~rq[c][n].replied
  /\ rq' = [rq EXCEPT ![c][n].replied = TRUE]
  /\ UNCHANGED <<apiVars, accepting, listed, conn, crashed>>

\* The handler returns and the lock of its listener is let go of, which is not
\* used any more.
HandlerReturns(c, n) ==
  /\ ~crashed /\ rq[c][n].disp = "handling"
  /\ rq' = [rq EXCEPT ![c][n] = [@ EXCEPT !.disp = "end", !.target = NoListener]]
  /\ UNCHANGED <<apiVars, accepting, listed, conn, crashed>>

\* The handler throws: the same, and the answer goes to m_request, whichever that
\* is now.
HandlerThrows(c, n) ==
  /\ ~crashed /\ rq[c][n].disp = "handling"
  /\ rq' = [rq EXCEPT ![c] = [AnswerCurrent(c) EXCEPT
                ![n] = [@ EXCEPT !.disp = "end", !.target = NoListener]]]
  /\ UNCHANGED <<apiVars, accepting, listed, conn, crashed>>

\* The end of dispatch_request_to_listener.
EndDispatch(c, n) ==
  /\ ~crashed /\ rq[c][n].disp = "end"
  /\ conn' = [conn EXCEPT ![c] = Dropped(@)]
  /\ rq' = [rq EXCEPT ![c][n].disp = "over"]
  /\ UNCHANGED <<apiVars, accepting, listed, crashed>>

\* The body of the current request is read, or cannot be read.
BodyEnds(c) ==
  LET n == conn[c].req IN
  /\ ~crashed /\ rq[c][n].body = "reading"
  /\ rq' = [rq EXCEPT ![c][n].body = "done"]
  /\ UNCHANGED <<apiVars, accepting, listed, conn, crashed>>

\* async_process_response, when the request has its answer and, unless it is
\* malformed, its body.
Process(c) ==
  /\ ~crashed /\ conn[c].chain = "waiting"
  /\ rq[c][conn[c].req].replied /\ rq[c][conn[c].req].body # "reading"
  /\ \E close \in BOOLEAN :
       conn' = [conn EXCEPT ![c].chain = "writing", ![c].mclose = @ \/ close]
  /\ UNCHANGED <<apiVars, accepting, listed, rq, crashed>>

\* The write ends, and fails if this side has closed the socket.
WriteEnds(c) ==
  /\ ~crashed /\ conn[c].chain = "writing"
  /\ \E r \in IF conn[c].sock THEN {"written", "failed"} ELSE {"failed"} :
       conn' = [conn EXCEPT ![c].chain = r]
  /\ UNCHANGED <<apiVars, accepting, listed, rq, crashed>>

\* handle_response_written tests m_close, and begins the next read later.
KeepAlive(c) ==
  /\ ~crashed /\ conn[c].chain = "written" /\ ~conn[c].mclose
  /\ conn' = [conn EXCEPT ![c].chain = "restart"]
  /\ UNCHANGED <<apiVars, accepting, listed, rq, crashed>>

Restart(c) ==
  /\ ~crashed /\ conn[c].chain = "restart"
  /\ conn' = [conn EXCEPT ![c] = Reading(@)]
  /\ UNCHANGED <<apiVars, accepting, listed, rq, crashed>>

\* Mutant of FinishRequestResponse: the connection stays in the set.
FinishStaysListed(c) ==
  /\ ~crashed
  /\ \/ conn[c].chain \in {"eof", "failed"}
     \/ conn[c].chain = "written" /\ conn[c].mclose
  /\ conn' = [conn EXCEPT ![c] = Dropped([Shut(@) EXCEPT !.chain = "over"])]
  /\ UNCHANGED <<apiVars, accepting, listed, rq, crashed>>

\* finish_request_response: its close() finds an answered request, or the new
\* one of a read that ended, which nobody waits for.
FinishRequestResponse(c) ==
  /\ ~crashed
  /\ \/ conn[c].chain \in {"eof", "failed"}
     \/ conn[c].chain = "written" /\ conn[c].mclose
  /\ listed' = listed \ {c}
  /\ conn' = [conn EXCEPT ![c] = Dropped([Shut(@) EXCEPT !.chain = "over"])]
  /\ UNCHANGED <<apiVars, accepting, rq, crashed>>

----------------------------------------------------------------------------
(* The registration of listeners, under s_lock *)

\* The program opens a listener that is closed, or closes one that is open.
OpenOrClose(l) ==
  /\ ~crashed
  /\ \/ lst[l] = "closed" /\ lst' = [lst EXCEPT ![l] = "opening"]
     \/ lst[l] = "open" /\ lst' = [lst EXCEPT ![l] = "closing"]
  /\ UNCHANGED <<clash, api, count, started, registered, host, paths, accepting,
                 listed, conn, rq, crashed>>

At(pc) == api' = [api EXCEPT !.pc = pc]
Failed(pc) == api' = [api EXCEPT !.pc = pc, !.ok = FALSE]

\* The operation returns: its listener is open if an open() went well.
Return ==
  /\ api' = [pc |-> "idle", l |-> NoListener, ok |-> TRUE]
  /\ lst' = [lst EXCEPT ![api.l] =
               IF lst[api.l] = "opening" /\ api.ok THEN "open" ELSE "closed"]

\* hostport_listener::stop, up to its wait.
CloseAll ==
  /\ accepting' = NoAccept
  /\ conn' = [c \in Conns |-> IF c \in listed THEN Shut(conn[c]) ELSE conn[c]]
  /\ rq' = [c \in Conns |-> IF c \in listed THEN AnswerCurrent(c) ELSE rq[c]]

\* The task of open() or close() takes s_lock.  The first registration starts
\* the server; hostport_listener::start may fail.
Begin(l) ==
  /\ ~crashed /\ api.pc = "idle" /\ lst[l] \in {"opening", "closing"}
  /\ \/ /\ lst[l] = "closing"
        /\ api' = [pc |-> "remove", l |-> l, ok |-> TRUE]
        /\ UNCHANGED <<count, started, host, accepting>>
     \/ /\ lst[l] = "opening" /\ count # 0
        /\ api' = [pc |-> "insert", l |-> l, ok |-> TRUE]
        /\ count' = count + 1
        /\ UNCHANGED <<started, host, accepting>>
     \/ /\ lst[l] = "opening" /\ count = 0
        /\ api' = [pc |-> "insert", l |-> l, ok |-> TRUE]
        /\ count' = 1 /\ started' = TRUE
        /\ host' = IF host = "none" THEN "none" ELSE "listening"
        /\ accepting' = IF host = "none" THEN NoAccept ELSE Listening
     \/ /\ lst[l] = "opening" /\ count = 0 /\ host # "none"
        /\ api' = [pc |-> "uncount", l |-> l, ok |-> FALSE]
        /\ count' = 1
        /\ UNCHANGED <<started, host, accepting>>
  /\ UNCHANGED <<clash, lst, registered, paths, listed, conn, rq, crashed>>

\* register_listener; a host that is new is started, which may fail.
Insert ==
  LET l == api.l
      new == host = "none" IN
  /\ ~crashed /\ api.pc = "insert"
  /\ \/ /\ l \in registered
        /\ Failed("uncount")
        /\ UNCHANGED <<lst, registered, host, paths, accepting, conn, rq>>
     \/ /\ l \notin registered /\ \A m \in paths : ~SamePath(l, m)
        /\ registered' = registered \cup {l}
        /\ paths' = paths \cup {l}
        /\ host' = IF ~new THEN host ELSE IF started THEN "listening" ELSE "idle"
        /\ accepting' = IF new /\ started THEN Listening ELSE accepting
        /\ Return
        /\ UNCHANGED <<conn, rq>>
     \/ /\ l \notin registered
        /\ (new /\ started) \/ \E m \in paths : SamePath(l, m)
        /\ Failed("erasing")
        /\ host' = "idle"
        /\ CloseAll
        /\ UNCHANGED <<lst, registered, paths>>
  /\ UNCHANGED <<clash, count, started, listed, crashed>>

\* The failed registration has destroyed the hostport_listener of the address,
\* with every listener in it, when its connections are gone.
Erased ==
  /\ ~crashed /\ api.pc = "erasing" /\ listed = {}
  /\ At("uncount")
  /\ host' = "none" /\ paths' = {}
  /\ conn' = [c \in Conns |-> IF conn[c].life = "ready"
                                THEN [conn[c] EXCEPT !.life = "orphan"]
                                ELSE conn[c]]
  /\ UNCHANGED <<clash, lst, count, started, registered, accepting, listed, rq,
                 crashed>>

\* unregister_listener, first from the host: an exception skips the rest.
Remove ==
  /\ ~crashed /\ api.pc = "remove"
  /\ \/ /\ \A m \in paths : ~SamePath(api.l, m)
        /\ Failed("uncount")
        /\ UNCHANGED paths
     \/ /\ \E m \in paths : SamePath(api.l, m)
        /\ At("unlist")
        /\ paths' = {m \in paths : ~SamePath(api.l, m)}
  /\ UNCHANGED <<clash, lst, count, started, registered, host, accepting,
                 listed, conn, rq, crashed>>

\* Then from the server.
Unlist ==
  /\ ~crashed /\ api.pc = "unlist"
  /\ registered' = registered \ {api.l}
  /\ At("barrier")
  /\ UNCHANGED <<clash, lst, count, started, host, paths, accepting, listed,
                 conn, rq, crashed>>

Handling(l) ==
  \E c \in Conns, n \in Numbers :
    rq[c][n].disp = "handling" /\ rq[c][n].target = l

\* Mutant of Barrier: the lock of the listener is not taken.
NoBarrier ==
  /\ ~crashed /\ api.pc = "barrier"
  /\ At("uncount")
  /\ UNCHANGED <<clash, lst, count, started, registered, host, paths, accepting,
                 listed, conn, rq, crashed>>

\* The lock of the listener is taken for writing: no handler of it runs.
Barrier ==
  /\ ~crashed /\ api.pc = "barrier" /\ ~Handling(api.l)
  /\ At("uncount")
  /\ UNCHANGED <<clash, lst, count, started, registered, host, paths, accepting,
                 listed, conn, rq, crashed>>

\* Mutant of Uncount: the server is stopped with one listener left.
UncountEarly ==
  /\ ~crashed /\ api.pc = "uncount"
  /\ count' = count - 1
  /\ IF count' > 1 \/ host = "none"
       THEN Return /\ UNCHANGED <<host, accepting, conn, rq>>
       ELSE At("stopping") /\ host' = "idle" /\ CloseAll /\ UNCHANGED lst
  /\ started' = (started /\ count' # 0)
  /\ UNCHANGED <<clash, registered, paths, listed, crashed>>

\* The count goes down; the last listener stops the server.
Uncount ==
  /\ ~crashed /\ api.pc = "uncount"
  /\ count' = count - 1
  /\ IF count' # 0 \/ host = "none"
       THEN Return /\ UNCHANGED <<host, accepting, conn, rq>>
       ELSE At("stopping") /\ host' = "idle" /\ CloseAll /\ UNCHANGED lst
  /\ started' = (started /\ count' # 0)
  /\ UNCHANGED <<clash, registered, paths, listed, crashed>>

\* m_all_connections_complete.wait() returns.
Stopped ==
  /\ ~crashed /\ api.pc = "stopping" /\ listed = {}
  /\ Return
  /\ UNCHANGED <<clash, count, started, registered, host, paths, accepting,
                 listed, conn, rq, crashed>>

----------------------------------------------------------------------------
(* The specification *)

\* The steps that the program and its threads always take once they can, and the
\* end of what waits on a socket that this side has closed.
ChainStep(c) ==
  \/ OnAccept(c) \/ HandleLine(c) \/ HandleError(c)
  \/ Malformed(c) \/ NotFound(c) \/ Found(c) \/ Respond(c)
  \/ Process(c) \/ WriteEnds(c) \/ KeepAlive(c) \/ Restart(c)
  \/ FinishRequestResponse(c)
  \/ ~conn[c].sock /\ ReadEnds(c)
  \/ ~conn[c].sock /\ BodyEnds(c)

DispatchStep(c, n) ==
  \/ EnterHandler(c, n) \/ Unregistered(c, n) \/ EndDispatch(c, n)
  \/ HandlerReturns(c, n) \/ HandlerThrows(c, n)

ApiStep ==
  \/ \E l \in Listeners : Begin(l)
  \/ Insert \/ Erased \/ Remove \/ Unlist \/ Barrier \/ Uncount \/ Stopped

Next ==
  \/ \E l \in Listeners : OpenOrClose(l) \/ Begin(l)
  \/ Insert \/ Erased \/ Remove \/ Unlist \/ Barrier \/ Uncount \/ Stopped
  \/ AcceptFails
  \/ \E c \in Conns :
       \/ Connect(c) \/ OnAccept(c) \/ OrphanAccept(c) \/ Sent(c) \/ ReadEnds(c)
       \/ HandleLine(c) \/ HandleError(c) \/ Malformed(c) \/ NotFound(c)
       \/ Found(c) \/ Respond(c) \/ BodyEnds(c) \/ Process(c) \/ WriteEnds(c)
       \/ KeepAlive(c) \/ Restart(c) \/ FinishRequestResponse(c)
  \/ \E c \in Conns, n \in Numbers :
       \/ EnterHandler(c, n) \/ Unregistered(c, n) \/ HandlerReplies(c, n)
       \/ HandlerReturns(c, n) \/ HandlerThrows(c, n) \/ EndDispatch(c, n)

Spec == Init /\ [][Next]_vars

\* A handler returns, whether or not it replies.
Fairness ==
  /\ \A l \in Listeners : SF_vars(Begin(l))
  /\ WF_vars(ApiStep)
  /\ \A c \in Conns :
       /\ WF_vars(ChainStep(c))
       /\ \A n \in Numbers : WF_vars(DispatchStep(c, n))

FairSpec == Spec /\ Fairness

----------------------------------------------------------------------------
(* Properties *)

\* The chain of a connection and each thread in dispatch_request_to_listener
\* refer to it; until do_response that thread is the chain.
Users(c) ==
  (IF conn[c].chain = "over" THEN 0 ELSE 1)
    + Cardinality({n \in Numbers : rq[c][n].disp \in {"check", "handling", "end"}})

\* m_refs counts the threads that refer to a connection, and those that returned
\* without saying so; a connection that was deleted has none.
RefsCountUsers ==
  \A c \in Conns :
    /\ conn[c].refs = Users(c) + conn[c].leaked
    /\ conn[c].life = "deleted" <=> conn[c].refs = 0

\* A connection that no thread refers to is deleted ("track how many threads are
\* still referring to this").
UnusedIsDeleted ==
  \A c \in Conns : Users(c) = 0 => conn[c].life = "deleted"

\* A listener that is closed runs no handler, and its lock is gone: close()
\* waits "for all outstanding handler calls to finish before completing".
CloseIsBarrier ==
  ~clash => \A l \in Listeners :
              lst[l] = "closed" => ~Handling(l) /\ l \notin registered

\* The next connection is waited for, or has come in and on_accept is to run,
\* which begins the wait for the one after it.
Accepts == accepting.waiting > 0 \/ \E c \in Conns : conn[c].life = "ready"

\* The requests to a listener get to it, unless an async_accept has failed: on_accept
\* then begins no other until the host is stopped and started again.
Served(l) ==
  /\ l \in registered /\ l \in paths /\ host = "listening" /\ started
  /\ Accepts \/ accepting.failed

\* A listener that is open is in both maps of a host that is started and takes
\* connections, whatever opens, failures to open, closes of the others and late
\* accepts came before it; a host whose async_accept has failed is excepted, for
\* it takes no further connection.
OpenIsServed == ~clash => \A l \in Listeners : lst[l] = "open" => Served(l)

\* OpenIsServed without the exception of a failed async_accept.
OpenAlwaysAccepts == ~clash => \A l \in Listeners : lst[l] = "open" => Accepts

\* OpenIsServed of listeners that may have the same path: open() returns "A task
\* that will be completed once this listener is actually opened, accepting
\* requests".
OpenAlwaysServed == \A l \in Listeners : lst[l] = "open" => Served(l)

LateAccept == \E c \in listed : conn[c].late

\* close() returns, though connections are in the middle of a request, unless
\* the process crashed or a connection came in after the others were closed.
CloseReturns ==
  \A l \in Listeners :
    ~clash /\ lst[l] = "closing" ~> lst[l] = "closed" \/ crashed \/ LateAccept

=============================================================================
