--------------------------- MODULE HttpServerProofs ---------------------------
(***************************************************************************)
(* Proofs about HttpServer, for any number of listeners, connections and     *)
(* requests.  ApiShape says where the operation under s_lock is, CountShape  *)
(* what s_registrations counts, PathShape how the two maps of listeners and  *)
(* the state of the host follow the listeners, HandlerShape which listener   *)
(* may run a handler, and ConnShape who refers to a connection.  AcceptShape *)
(* is added for the next connection, StopShape for what a stop waits for.   *)
(***************************************************************************)
EXTENDS HttpServer, FiniteSetTheorems, TLAPS

\* The operation that holds s_lock, and the listener it works on.  It cannot
\* succeed any more once something has failed.
ApiShape ==
  /\ lst \in [Listeners -> {"closed", "opening", "open", "closing"}]
  /\ api \in [pc : Pc, l : Listeners \cup {NoListener}, ok : BOOLEAN]
  /\ started \in BOOLEAN
  /\ host \in {"none", "idle", "listening"}
  /\ api.pc = "idle" <=> api.l = NoListener
  /\ api.pc \in {"insert", "erasing"} => lst[api.l] = "opening"
  /\ api.pc \in {"remove", "unlist", "barrier"} => lst[api.l] = "closing"
  /\ api.pc \in {"uncount", "stopping"} =>
       lst[api.l] = "closing" \/ (lst[api.l] = "opening" /\ ~api.ok)
  /\ api.pc = "insert" => api.ok
  /\ api.pc = "erasing" => ~api.ok

\* The listeners that s_registrations counts.
Counted ==
  {l \in Listeners : /\ lst[l] \in {"open", "closing"} \/ api.l = l
                     /\ ~(api.l = l /\ api.pc = "stopping")}

CountShape == count = Cardinality(Counted)

\* The listeners that are open are in both maps, and so are those whose close
\* has not got past the maps; none is there without a host that listens.
PathShape ==
  ~clash =>
    /\ \A l \in Listeners :
         l \in registered <=>
           \/ lst[l] = "open"
           \/ lst[l] = "closing" /\ ~(api.l = l /\ api.pc \in {"barrier", "uncount", "stopping"})
    /\ paths = registered \ (IF api.pc = "unlist" THEN {api.l} ELSE {})
    /\ registered # {} => host = "listening" /\ started
    /\ api.pc = "insert" => started /\ host # "idle"
    /\ api.pc = "erasing" => registered = {}

\* A handler runs only for a listener that is registered, or whose close waits
\* for it.
MayRun(l) == l \in registered \/ (api.l = l /\ api.pc = "barrier")

HandlerShape ==
  ~clash => \A c \in Conns, n \in Numbers :
              rq[c][n].disp = "handling" => MayRun(rq[c][n].target)

\* The requests in dispatch_request_to_listener.
Busy(s) == {n \in Numbers : s[n].disp \in {"check", "handling", "end"}}

\* A connection reads only once it was accepted, and a request was not dispatched
\* before it was read.  There are requests later than m_request only when an error
\* has put one that nobody waits for in its place, and then nothing more is read.
NotYet(r, s) ==
  /\ r.life \in {"live", "deleted"} \/ r.chain = "none"
  /\ r.chain = "data" => r.req < MaxRequests
  /\ r.chain \in {"line", "found"} => r.req \in Numbers /\ s[r.req].disp = "none"
  /\ \A n \in Numbers : n > r.req /\ s[n].disp # "none" =>
       r.mclose /\ r.chain \in {"waiting", "writing", "written", "failed", "over"}

\* What holds of a connection and its requests.
Good(r, s) ==
  /\ r.refs = (IF r.chain = "over" THEN 0 ELSE 1) + Cardinality(Busy(s)) + r.leaked
  /\ r.life = "deleted" <=> r.refs = 0
  /\ NotYet(r, s)

ConnShape ==
  /\ conn \in [Conns -> Connection]
  /\ rq \in [Conns -> [Requests -> Request]]
  /\ \A c \in Conns : Good(conn[c], rq[c])

\* The keys of the two maps are listeners.
MapTypes == registered \subseteq Listeners /\ paths \subseteq Listeners

IInv == MapTypes /\ ApiShape /\ CountShape /\ PathShape /\ HandlerShape /\ ConnShape

\* A step of a connection leaves the registrations alone.
LEMMA ApiLeft ==
  ASSUME [Next]_vars
  PROVE  \/ UNCHANGED apiVars
         \/ \E l \in Listeners : OpenOrClose(l) \/ Begin(l)
         \/ Insert \/ Erased \/ Remove \/ Unlist \/ Barrier \/ Uncount \/ Stopped
<1>1. ASSUME NEW c \in Conns,
             \/ Connect(c) \/ OnAccept(c) \/ OrphanAccept(c) \/ Sent(c) \/ ReadEnds(c)
             \/ HandleLine(c) \/ HandleError(c) \/ Malformed(c) \/ NotFound(c)
             \/ Found(c) \/ Respond(c) \/ BodyEnds(c) \/ Process(c) \/ WriteEnds(c)
             \/ KeepAlive(c) \/ Restart(c) \/ FinishRequestResponse(c)
      PROVE  UNCHANGED apiVars
  BY <1>1, Zenon DEF Connect, OnAccept, OrphanAccept, Sent, ReadEnds, HandleLine, HandleError,
     Malformed, NotFound, Found, Respond, BodyEnds, Process, WriteEnds, KeepAlive, Restart,
     FinishRequestResponse
<1>2. ASSUME NEW c \in Conns, NEW n \in Numbers,
             \/ EnterHandler(c, n) \/ Unregistered(c, n) \/ HandlerReplies(c, n)
             \/ HandlerReturns(c, n) \/ HandlerThrows(c, n) \/ EndDispatch(c, n)
      PROVE  UNCHANGED apiVars
  BY <1>2, Zenon DEF EnterHandler, Unregistered, HandlerReplies, HandlerReturns, HandlerThrows,
     EndDispatch
<1>3. CASE AcceptFails \/ UNCHANGED vars
  BY <1>3 DEF AcceptFails, vars, apiVars
<1> QED
  BY <1>1, <1>2, <1>3, Zenon DEF Next

LEMMA ClashLeft ==
  ASSUME [Next]_vars
  PROVE  clash' = clash
<1>1. CASE UNCHANGED apiVars
  BY <1>1 DEF apiVars
<1>2. CASE \E l \in Listeners : OpenOrClose(l) \/ Begin(l)
  BY <1>2 DEF OpenOrClose, Begin
<1>3. CASE Insert \/ Erased \/ Remove \/ Unlist \/ Barrier \/ Uncount \/ Stopped
  BY <1>3, Zenon DEF Insert, Erased, Remove, Unlist, Barrier, Uncount, Stopped
<1> QED
  BY <1>1, <1>2, <1>3, ApiLeft

\* Where the operation that holds s_lock is.
LEMMA ApiShapeStep ==
  ASSUME ApiShape, [Next]_vars
  PROVE  ApiShape'
<1> USE ServerAssumption DEF ApiShape, Pc, At, Failed, Return
<1>1. CASE UNCHANGED apiVars
  BY <1>1 DEF apiVars
<1>2. ASSUME NEW l \in Listeners, OpenOrClose(l)
      PROVE  ApiShape'
  BY <1>2 DEF OpenOrClose
<1>3. ASSUME NEW l \in Listeners, Begin(l)
      PROVE  ApiShape'
  <2>1. api.pc = "idle" /\ l # NoListener /\ lst' = lst
    BY <1>3 DEF Begin
  <2>2. host' \in {"none", "idle", "listening"} /\ started' \in BOOLEAN
    BY <1>3 DEF Begin
  <2>3. \/ lst[l] = "closing" /\ api' = [pc |-> "remove", l |-> l, ok |-> TRUE]
        \/ lst[l] = "opening" /\ api' = [pc |-> "insert", l |-> l, ok |-> TRUE]
        \/ lst[l] = "opening" /\ api' = [pc |-> "uncount", l |-> l, ok |-> FALSE]
    BY <1>3 DEF Begin
  <2>4. CASE lst[l] = "closing" /\ api' = [pc |-> "remove", l |-> l, ok |-> TRUE]
    BY <2>1, <2>2, <2>4
  <2>5. CASE lst[l] = "opening" /\ api' = [pc |-> "insert", l |-> l, ok |-> TRUE]
    BY <2>1, <2>2, <2>5
  <2>6. CASE lst[l] = "opening" /\ api' = [pc |-> "uncount", l |-> l, ok |-> FALSE]
    BY <2>1, <2>2, <2>6
  <2> QED
    BY <2>3, <2>4, <2>5, <2>6
<1>4. CASE Insert
  <2>1. api.l \in Listeners /\ api.pc = "insert"
    BY <1>4 DEF Insert
  <2>2. host' \in {"none", "idle", "listening"}
    BY <1>4 DEF Insert
  <2>3. CASE Return
    BY <1>4, <2>1, <2>2, <2>3 DEF Insert
  <2>4. CASE UNCHANGED lst /\ (Failed("uncount") \/ Failed("erasing"))
    BY <1>4, <2>1, <2>2, <2>4 DEF Insert
  <2> QED
    BY <1>4, <2>3, <2>4 DEF Insert
<1>5. CASE Erased \/ Remove \/ Unlist \/ Barrier
  <2>1. UNCHANGED <<lst, started>> /\ (host' = host \/ host' = "none")
    BY <1>5, Zenon DEF Erased, Remove, Unlist, Barrier
  <2>2. CASE api.pc = "erasing" /\ At("uncount")
    BY <2>1, <2>2
  <2>3. CASE api.pc = "remove" /\ Failed("uncount")
    BY <2>1, <2>3
  <2>4. CASE api.pc = "remove" /\ At("unlist")
    BY <2>1, <2>4
  <2>5. CASE api.pc = "unlist" /\ At("barrier")
    BY <2>1, <2>5
  <2>6. CASE api.pc = "barrier" /\ At("uncount")
    BY <2>1, <2>6
  <2> QED
    BY <1>5, <2>2, <2>3, <2>4, <2>5, <2>6, Zenon DEF Erased, Remove, Unlist, Barrier
<1>6. CASE Uncount
  <2>1. api.l \in Listeners /\ api.pc = "uncount" /\ started' \in BOOLEAN
    BY <1>6 DEF Uncount
  <2>2. CASE Return
    BY <1>6, <2>1, <2>2 DEF Uncount
  <2>3. CASE UNCHANGED lst /\ At("stopping")
    BY <1>6, <2>1, <2>3 DEF Uncount
  <2> QED
    BY <1>6, <2>2, <2>3 DEF Uncount
<1>7. CASE Stopped
  BY <1>7 DEF Stopped
<1> QED
  BY <1>1, <1>2, <1>3, <1>4, <1>5, <1>6, <1>7, ApiLeft

LEMMA CountedFinite ==
  /\ IsFiniteSet(Counted) /\ Cardinality(Counted) \in Nat
  /\ \A l : l \in Counted => Cardinality(Counted \ {l}) = Cardinality(Counted) - 1
  /\ \A l : l \notin Counted => Cardinality(Counted \cup {l}) = Cardinality(Counted) + 1
<1>1. Counted \in SUBSET Listeners
  BY DEF Counted
<1>2. IsFiniteSet(Counted)
  BY <1>1, FS_Subset, ServerAssumption
<1> QED
  BY <1>2, FS_CardinalityType, FS_AddElement, FS_RemoveElement

\* What s_registrations counts.
LEMMA CountStep ==
  ASSUME ApiShape, CountShape, [Next]_vars
  PROVE  CountShape'
<1> USE ServerAssumption DEF At, Failed
<1>0. ApiShape'
  BY ApiShapeStep
<1>1. CASE UNCHANGED apiVars
  BY <1>1, Zenon DEF apiVars, CountShape, Counted
<1>2. ASSUME NEW l \in Listeners, OpenOrClose(l)
      PROVE  CountShape'
  <2>1. Counted' = Counted
    BY <1>2 DEF OpenOrClose, Counted, ApiShape, Pc
  <2> QED
    BY <1>2, <2>1 DEF OpenOrClose, CountShape
<1>3. ASSUME NEW l \in Listeners, Begin(l)
      PROVE  CountShape'
  <2>0. /\ api.pc = "idle" /\ lst' = lst /\ api'.l = l /\ api'.pc # "stopping"
        /\ \/ lst[l] = "closing" /\ count' = count
           \/ lst[l] = "opening" /\ count' = count + 1
    BY <1>3 DEF Begin, CountShape
  <2>1. CASE lst[l] = "closing"
    <3>1. Counted' = Counted
      BY <2>0, <2>1 DEF Counted, ApiShape
    <3> QED
      BY <2>0, <2>1, <3>1 DEF CountShape
  <2>2. CASE lst[l] = "opening"
    <3>1. Counted' = Counted \cup {l} /\ l \notin Counted
      BY <2>0, <2>2 DEF Counted, ApiShape
    <3> QED
      BY <2>0, <2>2, <3>1, CountedFinite DEF CountShape
  <2> QED
    BY <2>0, <2>1, <2>2
<1>4. CASE Insert
  <2>1. api.l \in Listeners /\ api.pc = "insert" /\ api.ok /\ count' = count
    BY <1>4 DEF Insert, ApiShape
  <2>2. CASE Return
    <3>1. Counted' = Counted
      BY <2>1, <2>2 DEF Return, Counted, ApiShape
    <3> QED
      BY <2>1, <3>1 DEF CountShape
  <2>3. CASE UNCHANGED lst /\ (Failed("uncount") \/ Failed("erasing"))
    <3>1. Counted' = Counted
      BY <2>1, <2>3 DEF Counted, ApiShape
    <3> QED
      BY <2>1, <3>1 DEF CountShape
  <2> QED
    BY <1>4, <2>2, <2>3 DEF Insert
<1>5. CASE Erased \/ Remove \/ Unlist \/ Barrier
  <2>1. UNCHANGED <<lst, count>>
    BY <1>5, Zenon DEF Erased, Remove, Unlist, Barrier
  <2>2. /\ api.pc \in {"erasing", "remove", "unlist", "barrier"}
        /\ \E pc \in {"uncount", "unlist", "barrier"} : At(pc) \/ Failed(pc)
    BY <1>5, Zenon DEF Erased, Remove, Unlist, Barrier
  <2>3. api.pc # "stopping" /\ api'.pc # "stopping" /\ api'.l = api.l
    BY <2>2 DEF ApiShape
  <2>4. Counted' = Counted
    BY <2>1, <2>3 DEF Counted
  <2> QED
    BY <2>1, <2>4 DEF CountShape
<1>6. CASE Uncount
  <2>1. /\ api.l \in Listeners /\ api.pc = "uncount" /\ count' = count - 1
        /\ lst[api.l] = "closing" \/ (lst[api.l] = "opening" /\ ~api.ok)
    BY <1>6 DEF Uncount, ApiShape
  <2>2. Counted' = Counted \ {api.l} /\ api.l \in Counted
    <3>1. CASE Return
      BY <2>1, <3>1 DEF Return, Counted, ApiShape
    <3>2. CASE At("stopping") /\ UNCHANGED lst
      BY <2>1, <3>2 DEF Counted, ApiShape
    <3> QED
      BY <1>6, <3>1, <3>2 DEF Uncount
  <2> QED
    BY <2>1, <2>2, CountedFinite DEF CountShape
<1>7. CASE Stopped
  <2>1. Counted' = Counted
    BY <1>7 DEF Stopped, Return, Counted, ApiShape
  <2> QED
    BY <1>7, <2>1 DEF Stopped, CountShape
<1> QED
  BY <1>1, <1>2, <1>3, <1>4, <1>5, <1>6, <1>7, ApiLeft

\* Both maps follow the listeners, and the host is there for them.
LEMMA PathStep ==
  ASSUME ApiShape, CountShape, PathShape, MapTypes, [Next]_vars
  PROVE  PathShape'
<1> SUFFICES ASSUME ~clash'
             PROVE  PathShape'
  BY DEF PathShape
<1>0. clash' = clash
  BY ClashLeft
<1> USE <1>0, ServerAssumption DEF At, Failed, MapTypes
<1>1. CASE UNCHANGED apiVars
  BY <1>1 DEF apiVars, PathShape
<1>2. ASSUME NEW l \in Listeners, OpenOrClose(l)
      PROVE  PathShape'
  BY <1>2 DEF OpenOrClose, PathShape, ApiShape
<1>3. ASSUME NEW l \in Listeners, Begin(l)
      PROVE  PathShape'
  <2>0. /\ api.pc = "idle" /\ api.l = NoListener /\ UNCHANGED <<lst, registered, paths>>
        /\ api'.l = l /\ api'.pc \in {"remove", "insert", "uncount"}
        /\ lst[l] \in {"opening", "closing"}
        /\ api'.pc = "remove" <=> lst[l] = "closing"
    BY <1>3 DEF Begin, ApiShape
  <2>1. count = 0 => registered = {}
    <3>1. registered \subseteq Counted
      BY <2>0 DEF PathShape, Counted
    <3>2. count = 0 => Counted = {}
      BY CountedFinite, FS_EmptySet DEF CountShape
    <3> QED
      BY <3>1, <3>2
  <2>2. count # 0 => registered # {}
    <3>1. Counted \subseteq registered
      BY <2>0 DEF PathShape, Counted
    <3>2. Counted = {} => count = 0
      BY FS_EmptySet DEF CountShape
    <3> QED
      BY <3>1, <3>2
  <2>3. registered # {} => host' = host /\ started' = started
    BY <1>3, <2>0, <2>1 DEF Begin
  <2>4. api'.pc = "insert" => started' /\ host' # "idle"
    BY <1>3, <2>0, <2>2 DEF Begin, PathShape
  <2>5. \A m \in Listeners :
          m \in registered <=>
            \/ lst[m] = "open"
            \/ lst[m] = "closing" /\ ~(l = m /\ api'.pc \in {"barrier", "uncount", "stopping"})
    BY <2>0 DEF PathShape
  <2> QED
    BY <2>0, <2>3, <2>4, <2>5 DEF PathShape
<1>4. CASE Insert
  <2>1. /\ api.l \in Listeners /\ api.pc = "insert" /\ api.ok /\ lst[api.l] = "opening"
        /\ started' = started /\ started /\ host # "idle"
    BY <1>4 DEF Insert, ApiShape, PathShape
  <2>2. api.l \notin registered /\ paths = registered
    BY <2>1 DEF PathShape
  <2>3. CASE /\ registered' = registered \cup {api.l} /\ paths' = paths \cup {api.l}
             /\ host' = IF host # "none" THEN host ELSE IF started THEN "listening" ELSE "idle"
             /\ Return
    <3>1. lst' = [lst EXCEPT ![api.l] = "open"] /\ api'.pc = "idle" /\ api'.l = NoListener
      BY <2>1, <2>3 DEF Return
    <3>2. host' = "listening"
      BY <2>1, <2>3 DEF ApiShape
    <3> QED
      BY <2>1, <2>2, <2>3, <3>1, <3>2 DEF PathShape, ApiShape
  <2>4. CASE /\ (host = "none" /\ started) \/ \E m \in paths : SamePath(api.l, m)
             /\ Failed("erasing") /\ UNCHANGED <<lst, registered, paths>>
    <3>1. host = "none" /\ registered = {}
      BY <2>1, <2>2, <2>4 DEF PathShape, SamePath
    <3>2. api'.pc = "erasing" /\ api'.l = api.l
      BY <2>4 DEF ApiShape
    <3> QED
      BY <2>1, <2>2, <2>4, <3>1, <3>2 DEF PathShape
  <2> QED
    BY <1>4, <2>2, <2>3, <2>4, Zenon DEF Insert
<1>5. CASE Erased
  BY <1>5 DEF Erased, PathShape, ApiShape
<1>6. CASE Remove
  <2>1. /\ api.l \in Listeners /\ api.pc = "remove" /\ lst[api.l] = "closing"
        /\ UNCHANGED <<lst, registered, host, started>>
    BY <1>6 DEF Remove, ApiShape
  <2>2. api.l \in paths /\ paths = registered
    BY <2>1 DEF PathShape
  <2>3. paths' = paths \ {api.l} /\ At("unlist")
    BY <1>6, <2>2 DEF Remove, SamePath
  <2>4. api'.pc = "unlist" /\ api'.l = api.l
    BY <2>3 DEF ApiShape
  <2> QED
    BY <2>1, <2>2, <2>3, <2>4 DEF PathShape
<1>7. CASE Unlist
  <2>1. /\ api.l \in Listeners /\ api.pc = "unlist" /\ lst[api.l] = "closing"
        /\ UNCHANGED <<lst, paths, host, started>> /\ registered' = registered \ {api.l}
        /\ api'.pc = "barrier" /\ api'.l = api.l
    BY <1>7 DEF Unlist, ApiShape
  <2> QED
    BY <2>1 DEF PathShape
<1>8. CASE Barrier
  <2>1. /\ api.pc = "barrier" /\ UNCHANGED <<lst, registered, paths, host, started>>
        /\ api'.pc = "uncount" /\ api'.l = api.l
    BY <1>8 DEF Barrier, ApiShape
  <2> QED
    BY <2>1 DEF PathShape
<1>9. CASE Uncount
  <2>1. /\ api.l \in Listeners /\ api.pc = "uncount" /\ UNCHANGED <<registered, paths>>
        /\ lst[api.l] = "closing" \/ (lst[api.l] = "opening" /\ ~api.ok)
        /\ count' = count - 1 /\ started' = (started /\ count' # 0)
    BY <1>9 DEF Uncount, ApiShape
  <2>2. api.l \in Counted /\ api.l \notin registered /\ paths = registered
    BY <2>1 DEF Counted, PathShape
  <2>3. count' = 0 => registered = {}
    <3>1. registered \subseteq Counted \ {api.l}
      BY <2>1, <2>2 DEF PathShape, Counted
    <3>2. count' = 0 => Cardinality(Counted \ {api.l}) = 0
      BY <2>1, <2>2, CountedFinite DEF CountShape
    <3>3. IsFiniteSet(Counted \ {api.l})
      BY CountedFinite, FS_RemoveElement
    <3> QED
      BY <3>1, <3>2, <3>3, FS_EmptySet
  <2>4. CASE (count' # 0 \/ host = "none") /\ Return /\ UNCHANGED host
    <3>1. lst' = [lst EXCEPT ![api.l] = "closed"] /\ api'.pc = "idle" /\ api'.l = NoListener
      BY <2>1, <2>4 DEF Return
    <3>2. registered # {} => started' = started
      BY <2>1, <2>3 DEF ApiShape
    <3> QED
      BY <2>1, <2>2, <2>4, <3>1, <3>2 DEF PathShape, ApiShape
  <2>5. CASE count' = 0 /\ At("stopping") /\ UNCHANGED lst
    <3>1. api'.pc = "stopping" /\ api'.l = api.l
      BY <2>5 DEF ApiShape
    <3> QED
      BY <2>1, <2>2, <2>3, <2>5, <3>1 DEF PathShape
  <2> QED
    BY <1>9, <2>4, <2>5 DEF Uncount
<1>10. CASE Stopped
  <2>1. /\ api.l \in Listeners /\ api.pc = "stopping"
        /\ UNCHANGED <<registered, paths, host, started>>
        /\ lst[api.l] = "closing" \/ (lst[api.l] = "opening" /\ ~api.ok)
        /\ lst' = [lst EXCEPT ![api.l] = "closed"] /\ api'.pc = "idle" /\ api'.l = NoListener
    BY <1>10 DEF Stopped, Return, ApiShape
  <2> QED
    BY <2>1 DEF PathShape, ApiShape
<1> QED
  BY <1>1, <1>2, <1>3, <1>4, <1>5, <1>6, <1>7, <1>8, <1>9, <1>10, ApiLeft

\* The dispatchers of a connection are finite in number, and one more or one
\* less counts for one.
LEMMA BusyFinite ==
  ASSUME NEW s
  PROVE  /\ IsFiniteSet(Busy(s)) /\ Cardinality(Busy(s)) \in Nat
         /\ Cardinality(Busy(s)) = 0 <=> Busy(s) = {}
         /\ \A n : n \in Busy(s) => Cardinality(Busy(s) \ {n}) = Cardinality(Busy(s)) - 1
         /\ \A n : n \notin Busy(s) => Cardinality(Busy(s) \cup {n}) = Cardinality(Busy(s)) + 1
<1>1. IsFiniteSet(Numbers)
  BY FS_Interval, ServerAssumption DEF Numbers
<1>2. Busy(s) \in SUBSET Numbers
  BY DEF Busy
<1>3. IsFiniteSet(Busy(s))
  BY <1>1, <1>2, FS_Subset
<1> QED
  BY <1>3, FS_CardinalityType, FS_AddElement, FS_RemoveElement, FS_EmptySet

\* A step of one connection that leaves it good.
LEMMA OneConnection ==
  ASSUME ConnShape, NEW c \in Conns, NEW r \in Connection, NEW s \in [Requests -> Request],
         conn' = [conn EXCEPT ![c] = r], rq' = [rq EXCEPT ![c] = s], Good(r, s)
  PROVE  ConnShape'
<1>1. conn' \in [Conns -> Connection] /\ rq' \in [Conns -> [Requests -> Request]]
  BY DEF ConnShape
<1>2. ASSUME NEW d \in Conns
      PROVE  Good(conn'[d], rq'[d])
  <2>1. CASE d = c
    BY <2>1 DEF ConnShape
  <2>2. CASE d # c
    <3>1. conn'[d] = conn[d] /\ rq'[d] = rq[d]
      BY <2>2 DEF ConnShape
    <3> QED
      BY <3>1 DEF ConnShape
  <2> QED
    BY <2>1, <2>2
<1> QED
  BY <1>1, <1>2 DEF ConnShape

\* The references of a connection are right while it keeps those it has.
LEMMA GoodKept ==
  ASSUME NEW r, NEW s, NEW q, NEW t, Good(r, s), NotYet(q, t),
         q.refs = r.refs, q.leaked = r.leaked,
         q.chain = "over" <=> r.chain = "over",
         q.life = "deleted" <=> r.life = "deleted",
         \A n \in Numbers : t[n].disp = s[n].disp
  PROVE  Good(q, t)
<1>1. Busy(t) = Busy(s)
  BY DEF Busy
<1> QED
  BY <1>1 DEF Good

\* A step of one connection that leaves its requests and its references alone.
LEMMA OneMoves ==
  ASSUME ConnShape, NEW c \in Conns, NEW q \in Connection,
         conn' = [conn EXCEPT ![c] = q], rq' = rq, NotYet(q, rq[c]),
         q.refs = conn[c].refs, q.leaked = conn[c].leaked,
         q.chain = "over" <=> conn[c].chain = "over",
         q.life = "deleted" <=> conn[c].life = "deleted"
  PROVE  ConnShape'
<1>1. rq' = [rq EXCEPT ![c] = rq[c]] /\ rq[c] \in [Requests -> Request]
  BY DEF ConnShape
<1>2. Good(q, rq[c])
  BY GoodKept DEF ConnShape
<1> QED
  BY <1>1, <1>2, OneConnection

\* The chain of a connection reads and writes.
LEMMA ChainMoves ==
  ASSUME ConnShape, NEW c \in Conns,
         \/ OnAccept(c) \/ Sent(c) \/ ReadEnds(c) \/ HandleLine(c) \/ Process(c)
         \/ WriteEnds(c) \/ KeepAlive(c) \/ Restart(c)
  PROVE  ConnShape'
<1> DEFINE r == conn[c]
<1>0. r \in Connection /\ NotYet(r, rq[c])
  BY DEF ConnShape, Good
<1> USE DEF Connection, Chain
<1>1. CASE OnAccept(c)
  <2> DEFINE q == [Reading(r) EXCEPT !.life = "live", !.late = host # "listening"]
  <2>1. conn' = [conn EXCEPT ![c] = q] /\ rq' = rq /\ r.life = "ready"
    BY <1>1 DEF OnAccept
  <2>2. q \in Connection /\ q.life = "live" /\ q.chain \in {"reading", "error"}
        /\ q.req = r.req /\ q.refs = r.refs /\ q.leaked = r.leaked
    BY <1>0 DEF Reading
  <2>3. NotYet(q, rq[c])
    BY <1>0, <2>1, <2>2 DEF NotYet
  <2> HIDE DEF q
  <2> QED
    BY <1>0, <2>1, <2>2, <2>3, OneMoves DEF NotYet
<1>2. CASE Sent(c)
  <2> DEFINE q == [r EXCEPT !.chain = "data"]
  <2>1. /\ conn' = [conn EXCEPT ![c] = q] /\ rq' = rq
        /\ r.life = "live" /\ r.chain = "reading" /\ r.req < MaxRequests
    BY <1>2 DEF Sent
  <2>2. q \in Connection /\ q.chain = "data" /\ q.life = r.life
        /\ q.req = r.req /\ q.refs = r.refs /\ q.leaked = r.leaked
    BY <1>0
  <2>3. NotYet(q, rq[c])
    BY <1>0, <2>1, <2>2 DEF NotYet
  <2> HIDE DEF q
  <2> QED
    BY <2>1, <2>2, <2>3, OneMoves
<1>3. CASE ReadEnds(c)
  <2> DEFINE q == [r EXCEPT !.chain = "eof"]
  <2>1. conn' = [conn EXCEPT ![c] = q] /\ rq' = rq /\ r.chain = "reading"
    BY <1>3 DEF ReadEnds
  <2>2. q \in Connection /\ q.chain = "eof" /\ q.life = r.life
        /\ q.req = r.req /\ q.refs = r.refs /\ q.leaked = r.leaked
    BY <1>0
  <2>3. NotYet(q, rq[c])
    BY <1>0, <2>1, <2>2 DEF NotYet
  <2> HIDE DEF q
  <2> QED
    BY <2>1, <2>2, <2>3, OneMoves
<1>4. CASE HandleLine(c)
  <2> DEFINE q == [r EXCEPT !.chain = "line", !.req = @ + 1]
  <2>1. conn' = [conn EXCEPT ![c] = q] /\ rq' = rq /\ r.chain = "data"
    BY <1>4 DEF HandleLine
  <2>2. r.req + 1 \in Numbers /\ r.req + 1 \in Requests /\ r.req \in Requests
    <3>1. r.req \in 0..MaxRequests
      BY <1>0 DEF Requests
    <3>2. r.req < MaxRequests
      BY <1>0, <2>1 DEF NotYet
    <3> QED
      BY <3>1, <3>2, ServerAssumption DEF Numbers, Requests
  <2>3. q \in Connection
    BY <1>0, <2>2
  <2>4. rq[c] \in [Requests -> Request] /\ rq[c][r.req + 1].disp = "none"
    BY <1>0, <2>1, <2>2 DEF ConnShape, NotYet, Requests
  <2>5. NotYet(q, rq[c])
    BY <1>0, <2>1, <2>2, <2>4 DEF NotYet, Numbers, Requests
  <2> QED
    BY <1>0, <2>1, <2>3, <2>5, OneMoves
<1>5. CASE Process(c)
  <2>1. PICK close \in BOOLEAN :
          conn' = [conn EXCEPT ![c].chain = "writing", ![c].mclose = @ \/ close]
    BY <1>5 DEF Process
  <2> DEFINE q == [r EXCEPT !.chain = "writing", !.mclose = @ \/ close]
  <2>2. conn' = [conn EXCEPT ![c] = q] /\ rq' = rq /\ r.chain = "waiting"
    BY <1>5, <2>1 DEF Process
  <2>3. q \in Connection /\ q.chain = "writing" /\ q.life = r.life
        /\ q.req = r.req /\ q.refs = r.refs /\ q.leaked = r.leaked
        /\ q.mclose = (r.mclose \/ close)
    BY <1>0
  <2>4. NotYet(q, rq[c])
    BY <1>0, <2>2, <2>3 DEF NotYet
  <2> HIDE DEF q
  <2> QED
    BY <2>2, <2>3, <2>4, OneMoves
<1>6. CASE WriteEnds(c)
  <2>1. PICK w \in {"written", "failed"} : conn' = [conn EXCEPT ![c].chain = w]
    BY <1>6 DEF WriteEnds
  <2> DEFINE q == [r EXCEPT !.chain = w]
  <2>2. conn' = [conn EXCEPT ![c] = q] /\ rq' = rq /\ r.chain = "writing"
    BY <1>6, <2>1 DEF WriteEnds
  <2>3. q \in Connection /\ q.chain = w /\ q.life = r.life /\ q.mclose = r.mclose
        /\ q.req = r.req /\ q.refs = r.refs /\ q.leaked = r.leaked
    BY <1>0
  <2>4. NotYet(q, rq[c])
    BY <1>0, <2>2, <2>3 DEF NotYet
  <2> HIDE DEF q
  <2> QED
    BY <2>2, <2>3, <2>4, OneMoves
<1>7. CASE KeepAlive(c)
  <2> DEFINE q == [r EXCEPT !.chain = "restart"]
  <2>1. conn' = [conn EXCEPT ![c] = q] /\ rq' = rq /\ r.chain = "written" /\ ~r.mclose
    BY <1>7 DEF KeepAlive
  <2>2. q \in Connection /\ q.chain = "restart" /\ q.life = r.life
        /\ q.req = r.req /\ q.refs = r.refs /\ q.leaked = r.leaked
    BY <1>0
  <2>3. NotYet(q, rq[c])
    BY <1>0, <2>1, <2>2 DEF NotYet
  <2> HIDE DEF q
  <2> QED
    BY <2>1, <2>2, <2>3, OneMoves
<1>8. CASE Restart(c)
  <2> DEFINE q == Reading(r)
  <2>1. conn' = [conn EXCEPT ![c] = q] /\ rq' = rq /\ r.chain = "restart"
    BY <1>8 DEF Restart
  <2>2. q \in Connection /\ q.chain \in {"reading", "error"} /\ q.life = r.life
        /\ q.req = r.req /\ q.refs = r.refs /\ q.leaked = r.leaked
    BY <1>0 DEF Reading
  <2>3. NotYet(q, rq[c])
    BY <1>0, <2>1, <2>2 DEF NotYet
  <2> HIDE DEF q
  <2> QED
    BY <1>0, <2>1, <2>2, <2>3, OneMoves
<1> QED
  BY <1>1, <1>2, <1>3, <1>4, <1>5, <1>6, <1>7, <1>8

\* What giving up a reference leaves.
LEMMA DroppedShape ==
  ASSUME NEW r \in Connection
  PROVE  /\ Dropped(r) \in Connection
         /\ Dropped(r).refs = r.refs - 1
         /\ Dropped(r).life = IF r.refs = 1 THEN "deleted" ELSE r.life
         /\ Dropped(r).chain = r.chain /\ Dropped(r).leaked = r.leaked
         /\ Dropped(r).mclose = r.mclose /\ Dropped(r).req = r.req
<1>1. PICK life \in {"none", "ready", "orphan", "live", "deleted"} :
        /\ life = IF r.refs = 1 THEN "deleted" ELSE r.life
        /\ Dropped(r) = [r EXCEPT !.refs = r.refs - 1, !.life = life]
  BY DEF Dropped, Connection
<1>2. Dropped(r) \in Connection
  <2> DEFINE w == [r EXCEPT !.refs = r.refs - 1]
  <2>1. w \in Connection
    BY DEF Connection
  <2>2. Dropped(r) = [w EXCEPT !.life = life]
    BY <1>1
  <2> HIDE DEF w
  <2> QED
    BY <2>1, <2>2 DEF Connection
<1>3. Dropped(r).refs = r.refs - 1 /\ Dropped(r).life = life
  BY <1>1 DEF Connection
<1>4. Dropped(r).chain = r.chain /\ Dropped(r).leaked = r.leaked /\ Dropped(r).req = r.req
  BY <1>1 DEF Connection
<1>5. Dropped(r).mclose = r.mclose
  BY <1>1 DEF Connection
<1> QED
  BY <1>1, <1>2, <1>3, <1>4, <1>5

\* A client connects, and the chain ends.
LEMMA ChainBeginsAndEnds ==
  ASSUME ConnShape, MapTypes, NEW c \in Conns, Connect(c) \/ FinishRequestResponse(c)
  PROVE  ConnShape'
<1> DEFINE r == conn[c]
<1>0. r \in Connection /\ NotYet(r, rq[c]) /\ Good(r, rq[c]) /\ rq[c] \in [Requests -> Request]
  BY DEF ConnShape, Good
<1>1. CASE Connect(c)
  <2> DEFINE q == [NewConnection EXCEPT !.life = "ready"]
  <2>1. conn' = [conn EXCEPT ![c] = q] /\ rq' = [rq EXCEPT ![c] = NewRequests]
    BY <1>1 DEF Connect
  <2>2. q \in Connection /\ q.life = "ready" /\ q.chain = "none" /\ q.refs = 1 /\ q.leaked = 0
    <3>1. 0 \in Requests
      BY ServerAssumption DEF Requests
    <3>2. /\ NewConnection \in Connection /\ NewConnection.chain = "none"
          /\ NewConnection.refs = 1 /\ NewConnection.leaked = 0
      BY <3>1 DEF NewConnection, Connection, Chain
    <3> QED
      BY <3>2 DEF Connection
  <2>3. NewRequests \in [Requests -> Request] /\ \A n \in Numbers : NewRequests[n].disp = "none"
    BY DEF NewRequests, Request, Requests, Numbers
  <2>4. Busy(NewRequests) = {}
    BY <2>3 DEF Busy
  <2>5. Cardinality(Busy(NewRequests)) = 0
    BY <2>4, FS_EmptySet
  <2> HIDE DEF q
  <2>6. Good(q, NewRequests)
    BY <2>2, <2>3, <2>5 DEF Good, NotYet
  <2> QED
    BY <2>1, <2>2, <2>3, <2>6, OneConnection
<1>2. CASE FinishRequestResponse(c)
  <2> DEFINE q == Dropped([Shut(r) EXCEPT !.chain = "over"])
  <2>1. /\ conn' = [conn EXCEPT ![c] = q] /\ rq' = [rq EXCEPT ![c] = rq[c]]
        /\ r.chain \in {"eof", "failed", "written"}
    BY <1>2 DEF FinishRequestResponse, ConnShape
  <2>2. q \in Connection /\ q.chain = "over" /\ q.req = r.req /\ q.refs = r.refs - 1
        /\ q.leaked = r.leaked /\ q.mclose
        /\ q.life = IF r.refs = 1 THEN "deleted" ELSE r.life
    <3> DEFINE w == [Shut(r) EXCEPT !.chain = "over"]
    <3>1. w \in Connection /\ w.chain = "over" /\ w.req = r.req /\ w.refs = r.refs
          /\ w.leaked = r.leaked /\ w.mclose /\ w.life = r.life
      BY <1>0 DEF Shut, Connection, Chain
    <3>2. q = Dropped(w)
      OBVIOUS
    <3> HIDE DEF w, q
    <3> QED
      BY <3>1, <3>2, DroppedShape
  <2>3. Cardinality(Busy(rq[c])) \in Nat /\ r.leaked \in Nat /\ r.refs \in Int
    BY <1>0, BusyFinite DEF Connection
  <2> HIDE DEF q
  <2>4. q.refs = Cardinality(Busy(rq[c])) + q.leaked /\ (q.life = "deleted" <=> q.refs = 0)
    BY <1>0, <2>1, <2>2, <2>3 DEF Good
  <2>5. NotYet(q, rq[c])
    BY <1>0, <2>1, <2>2 DEF NotYet
  <2> QED
    <3>1. Good(q, rq[c])
      BY <2>2, <2>3, <2>4, <2>5 DEF Good
    <3> QED
      BY <1>0, <2>1, <2>2, <3>1, OneConnection
<1> QED
  BY <1>1, <1>2

\* Another thread refers to a connection that keeps its chain.
LEMMA OneMore ==
  ASSUME NEW r \in Connection, NEW s \in [Requests -> Request], Good(r, s),
         NEW q \in Connection, NEW t \in [Requests -> Request], NotYet(q, t),
         q.refs = r.refs + 1, q.life = r.life,
         q.chain # "over", r.chain # "over",
         \/ q.leaked = r.leaked + 1 /\ \A n \in Numbers : t[n].disp = s[n].disp
         \/ /\ q.leaked = r.leaked
            /\ \E n \in Numbers : /\ s[n].disp = "none" /\ t[n].disp \in {"check", "end"}
                                  /\ \A m \in Numbers \ {n} : t[m].disp = s[m].disp
  PROVE  Good(q, t)
<1>0. r.leaked \in Nat /\ r.refs \in Int /\ Cardinality(Busy(s)) \in Nat
  BY BusyFinite DEF Connection
<1>1. CASE q.leaked = r.leaked + 1 /\ \A n \in Numbers : t[n].disp = s[n].disp
  <2>1. Busy(t) = Busy(s)
    BY <1>1 DEF Busy
  <2> QED
    BY <1>0, <1>1, <2>1 DEF Good
<1>2. CASE q.leaked = r.leaked
  <2>1. PICK n \in Numbers : /\ s[n].disp = "none" /\ t[n].disp \in {"check", "end"}
                             /\ \A m \in Numbers \ {n} : t[m].disp = s[m].disp
    BY <1>0, <1>2
  <2>2. Busy(t) = Busy(s) \cup {n} /\ n \notin Busy(s)
    BY <2>1 DEF Busy
  <2>3. Cardinality(Busy(t)) = Cardinality(Busy(s)) + 1
    BY <2>2, BusyFinite
  <2> QED
    BY <1>0, <1>2, <2>3 DEF Good
<1> QED
  BY <1>1, <1>2

\* A thread leaves a connection that keeps its chain.
LEMMA OneLess ==
  ASSUME NEW r \in Connection, NEW s \in [Requests -> Request], Good(r, s),
         NEW q, NEW t \in [Requests -> Request], NotYet(q, t),
         NEW n \in Numbers, n \in Busy(s), t[n].disp = "over",
         \A m \in Numbers \ {n} : t[m].disp = s[m].disp,
         q.chain = r.chain,
         \/ q.refs = r.refs /\ q.leaked = r.leaked + 1 /\ q.life = r.life
         \/ /\ q.refs = r.refs - 1 /\ q.leaked = r.leaked
            /\ q.life = IF r.refs = 1 THEN "deleted" ELSE r.life
  PROVE  Good(q, t)
<1>0. r.leaked \in Nat /\ r.refs \in Int /\ Cardinality(Busy(s)) \in Nat
  BY BusyFinite DEF Connection
<1>1. Busy(t) = Busy(s) \ {n}
  BY DEF Busy
<1>2. Cardinality(Busy(t)) = Cardinality(Busy(s)) - 1 /\ Cardinality(Busy(t)) \in Nat
  BY <1>1, BusyFinite
<1>3. CASE q.refs = r.refs /\ q.leaked = r.leaked + 1 /\ q.life = r.life
  BY <1>0, <1>2, <1>3 DEF Good
<1>4. CASE /\ q.refs = r.refs - 1 /\ q.leaked = r.leaked
           /\ q.life = IF r.refs = 1 THEN "deleted" ELSE r.life
  <2>1. q.refs = (IF q.chain = "over" THEN 0 ELSE 1) + Cardinality(Busy(t)) + q.leaked
    BY <1>0, <1>2, <1>4 DEF Good
  <2>2. r.refs # 0
    BY <1>0, <1>2 DEF Good
  <2>3. q.life = "deleted" <=> q.refs = 0
    BY <1>0, <1>4, <2>2 DEF Good
  <2> QED
    BY <2>1, <2>3 DEF Good
<1> QED
  BY <1>3, <1>4

\* A chain hands over to do_response.
LEMMA RespondingShape ==
  ASSUME NEW r \in Connection
  PROVE  /\ Responding(r) \in Connection
         /\ Responding(r).refs = r.refs + 1 /\ Responding(r).chain = "waiting"
         /\ Responding(r).leaked = r.leaked /\ Responding(r).life = r.life
         /\ Responding(r).req = r.req
         /\ RespondingBad(r) \in Connection
         /\ RespondingBad(r).refs = r.refs + 1 /\ RespondingBad(r).chain = "waiting"
         /\ RespondingBad(r).leaked = r.leaked + 1 /\ RespondingBad(r).life = r.life
         /\ RespondingBad(r).req = r.req /\ RespondingBad(r).mclose
<1>1. /\ Responding(r) \in Connection
      /\ Responding(r).refs = r.refs + 1 /\ Responding(r).chain = "waiting"
      /\ Responding(r).leaked = r.leaked /\ Responding(r).life = r.life
      /\ Responding(r).req = r.req
  <2> DEFINE v == [r EXCEPT !.refs = r.refs + 1]
  <2>1. /\ v \in Connection /\ v.refs = r.refs + 1 /\ v.leaked = r.leaked
        /\ v.life = r.life /\ v.req = r.req
    BY DEF Connection
  <2>2. Responding(r) = [v EXCEPT !.chain = "waiting"]
    BY Zenon DEF Responding
  <2>3. "waiting" \in Chain
    BY DEF Chain
  <2> HIDE DEF v
  <2> QED
    BY <2>1, <2>2, <2>3 DEF Connection
<1> DEFINE w == Responding(r)
<1>2. RespondingBad(r) = [w EXCEPT !.leaked = w.leaked + 1, !.mclose = TRUE]
  BY Zenon DEF RespondingBad
<1> HIDE DEF w
<1>3. w \in Connection
  BY <1>1 DEF w
<1>4. /\ RespondingBad(r) \in Connection /\ RespondingBad(r).refs = w.refs
      /\ RespondingBad(r).chain = w.chain /\ RespondingBad(r).leaked = w.leaked + 1
      /\ RespondingBad(r).life = w.life /\ RespondingBad(r).req = w.req
      /\ RespondingBad(r).mclose
  <2> DEFINE v == [w EXCEPT !.leaked = w.leaked + 1]
  <2>1. /\ v \in Connection /\ v.refs = w.refs /\ v.leaked = w.leaked + 1
        /\ v.life = w.life /\ v.req = w.req /\ v.chain = w.chain
    BY <1>3 DEF Connection
  <2>2. RespondingBad(r) = [v EXCEPT !.mclose = TRUE]
    BY <1>2, Zenon
  <2> HIDE DEF v
  <2> QED
    BY <2>1, <2>2 DEF Connection
<1> QED
  BY <1>1, <1>4 DEF w

\* The steps that answer a request which has not come so far.
LEMMA BadResponds ==
  ASSUME ConnShape, NEW c \in Conns, HandleError(c) \/ Malformed(c) \/ NotFound(c)
  PROVE  ConnShape'
<1> DEFINE r == conn[c]
           s == rq[c]
<1>0. r \in Connection /\ s \in [Requests -> Request] /\ NotYet(r, s) /\ Good(r, s)
      /\ r.req \in Requests /\ Numbers \subseteq Requests
  BY DEF ConnShape, Good, Connection, Requests, Numbers
<1>1. CASE HandleError(c)
  <2> DEFINE w == RespondingBad(r)
             q == [w EXCEPT !.req = 0]
  <2>1. conn' = [conn EXCEPT ![c] = q] /\ rq' = [rq EXCEPT ![c] = s] /\ r.chain = "error"
    BY <1>1 DEF HandleError, ConnShape
  <2>2. /\ w \in Connection /\ w.refs = r.refs + 1 /\ w.chain = "waiting"
        /\ w.leaked = r.leaked + 1 /\ w.life = r.life /\ w.mclose
    BY <1>0, RespondingShape
  <2>3. 0 \in Requests
    BY ServerAssumption DEF Requests
  <2> HIDE DEF w
  <2>4. /\ q \in Connection /\ q.refs = r.refs + 1 /\ q.chain = "waiting"
        /\ q.leaked = r.leaked + 1 /\ q.life = r.life /\ q.mclose
    BY <2>2, <2>3 DEF Connection
  <2> HIDE DEF q
  <2>5. NotYet(q, s)
    BY <1>0, <2>1, <2>4 DEF NotYet
  <2>6. Good(q, s)
    BY <1>0, <2>1, <2>4, <2>5, OneMore
  <2> QED
    BY <1>0, <2>1, <2>4, <2>6, OneConnection
<1>2. CASE Malformed(c)
  <2> DEFINE q == RespondingBad(r)
             t == [s EXCEPT ![r.req].replied = TRUE]
  <2>1. conn' = [conn EXCEPT ![c] = q] /\ rq' = [rq EXCEPT ![c] = t] /\ r.chain = "line"
    BY <1>2 DEF Malformed, ReplyOrCrash
  <2>2. /\ q \in Connection /\ q.refs = r.refs + 1 /\ q.chain = "waiting"
        /\ q.leaked = r.leaked + 1 /\ q.life = r.life /\ q.req = r.req /\ q.mclose
    BY <1>0, RespondingShape
  <2>3. t \in [Requests -> Request] /\ \A n \in Numbers : t[n].disp = s[n].disp
    BY <1>0 DEF Request
  <2> HIDE DEF q, t
  <2>4. NotYet(q, t)
    BY <1>0, <2>1, <2>2, <2>3 DEF NotYet
  <2>5. Good(q, t)
    BY <1>0, <2>1, <2>2, <2>3, <2>4, OneMore
  <2> QED
    BY <2>1, <2>2, <2>3, <2>5, OneConnection
<1>3. CASE NotFound(c)
  <2>0. PICK close \in BOOLEAN, body \in {"reading", "done"} :
          /\ conn' = [conn EXCEPT ![c] = [Responding(@) EXCEPT !.mclose = close]]
          /\ rq' = [rq EXCEPT ![c][r.req] = [@ EXCEPT !.replied = TRUE, !.body = body,
                                                      !.disp = "end"]]
    BY <1>3 DEF NotFound
  <2> DEFINE w == Responding(r)
             q == [w EXCEPT !.mclose = close]
             x == s[r.req]
             y == [x EXCEPT !.replied = TRUE, !.body = body, !.disp = "end"]
             t == [s EXCEPT ![r.req] = y]
  <2>1. conn' = [conn EXCEPT ![c] = q] /\ rq' = [rq EXCEPT ![c] = t] /\ r.chain = "line"
    BY <1>3, <2>0 DEF NotFound
  <2>2. r.req \in Numbers /\ s[r.req].disp = "none"
    BY <1>0, <2>1 DEF NotYet
  <2>3. /\ w \in Connection /\ w.refs = r.refs + 1 /\ w.chain = "waiting"
        /\ w.leaked = r.leaked /\ w.life = r.life /\ w.req = r.req
    BY <1>0, RespondingShape
  <2> HIDE DEF w
  <2>4. /\ q \in Connection /\ q.refs = r.refs + 1 /\ q.chain = "waiting"
        /\ q.leaked = r.leaked /\ q.life = r.life /\ q.req = r.req
    BY <2>3 DEF Connection
  <2>5. /\ t \in [Requests -> Request] /\ t[r.req].disp = "end"
        /\ \A n \in Numbers \ {r.req} : t[n].disp = s[n].disp
    <3>1. y \in Request /\ y.disp = "end"
      <4>1. x \in Request
        BY <1>0
      <4> DEFINE z == [x EXCEPT !.replied = TRUE, !.body = body]
      <4> HIDE DEF x
      <4>2. z \in Request
        BY <4>1 DEF Request
      <4>3. y = [z EXCEPT !.disp = "end"]
        BY Zenon
      <4> HIDE DEF y, z
      <4> QED
        BY <4>2, <4>3 DEF Request
    <3> HIDE DEF y
    <3> QED
      BY <1>0, <3>1
  <2> HIDE DEF q, t
  <2>6. NotYet(q, t)
    BY <1>0, <2>1, <2>2, <2>4, <2>5 DEF NotYet, Numbers
  <2>7. Good(q, t)
    BY <1>0, <2>1, <2>2, <2>4, <2>5, <2>6, OneMore
  <2> QED
    BY <2>1, <2>4, <2>5, <2>7, OneConnection
<1> QED
  BY <1>1, <1>2, <1>3

\* The steps that find the listener of a request and dispatch it.
LEMMA FoundResponds ==
  ASSUME ConnShape, MapTypes, NEW c \in Conns, Found(c) \/ Respond(c)
  PROVE  ConnShape'
<1> DEFINE r == conn[c]
           s == rq[c]
<1>0. r \in Connection /\ s \in [Requests -> Request] /\ NotYet(r, s) /\ Good(r, s)
      /\ r.req \in Requests /\ Numbers \subseteq Requests
  BY DEF ConnShape, Good, Connection, Requests, Numbers
<1>1. CASE Found(c)
  <2>0. PICK l \in paths, close \in BOOLEAN, body \in {"reading", "done"} :
          /\ conn' = [conn EXCEPT ![c] = [@ EXCEPT !.chain = "found", !.mclose = close]]
          /\ rq' = [rq EXCEPT ![c][r.req] = [@ EXCEPT !.target = l, !.body = body]]
    BY <1>1, Zenon DEF Found
  <2> DEFINE q == [r EXCEPT !.chain = "found", !.mclose = close]
             t == [s EXCEPT ![r.req] = [s[r.req] EXCEPT !.target = l, !.body = body]]
  <2>1. conn' = [conn EXCEPT ![c] = q] /\ rq' = [rq EXCEPT ![c] = t] /\ r.chain = "line"
    <3>1. r.chain = "line"
      BY <1>1, Zenon DEF Found
    <3>2. conn' = [conn EXCEPT ![c] = q]
      BY <2>0, Zenon
    <3>3. rq' = [rq EXCEPT ![c] = t]
      BY <2>0, Zenon
    <3> QED
      BY <3>1, <3>2, <3>3
  <2>2. /\ q \in Connection /\ q.refs = r.refs /\ q.chain = "found"
        /\ q.leaked = r.leaked /\ q.life = r.life /\ q.req = r.req
    BY <1>0 DEF Connection, Chain
  <2>3. l \in Listeners
    BY <2>0 DEF MapTypes
  <2>4. t \in [Requests -> Request] /\ \A n \in Numbers : t[n].disp = s[n].disp
    BY <1>0, <2>3 DEF Request
  <2> HIDE DEF q, t
  <2>5. NotYet(q, t)
    BY <1>0, <2>1, <2>2, <2>4 DEF NotYet
  <2>6. Good(q, t)
    BY <1>0, <2>1, <2>2, <2>4, <2>5, GoodKept
  <2> QED
    BY <2>1, <2>2, <2>4, <2>6, OneConnection
<1>2. CASE Respond(c)
  <2> DEFINE q == Responding(r)
             t == [s EXCEPT ![r.req].disp = "check"]
  <2>1. conn' = [conn EXCEPT ![c] = q] /\ rq' = [rq EXCEPT ![c] = t] /\ r.chain = "found"
    BY <1>2 DEF Respond
  <2>2. r.req \in Numbers /\ s[r.req].disp = "none"
    BY <1>0, <2>1 DEF NotYet
  <2>3. /\ q \in Connection /\ q.refs = r.refs + 1 /\ q.chain = "waiting"
        /\ q.leaked = r.leaked /\ q.life = r.life /\ q.req = r.req
    BY <1>0, RespondingShape
  <2>4. /\ t \in [Requests -> Request] /\ t[r.req].disp = "check"
        /\ \A n \in Numbers \ {r.req} : t[n].disp = s[n].disp
    BY <1>0 DEF Request
  <2> HIDE DEF q, t
  <2>5. NotYet(q, t)
    BY <1>0, <2>1, <2>2, <2>3, <2>4 DEF NotYet, Numbers
  <2>6. Good(q, t)
    BY <1>0, <2>1, <2>2, <2>3, <2>4, <2>5, OneMore
  <2> QED
    BY <2>1, <2>3, <2>4, <2>6, OneConnection
<1> QED
  BY <1>1, <1>2

\* A step of a thread in dispatch_request_to_listener, or of one it left behind,
\* or of the read of a body, that keeps the references.
LEMMA DispatchKeeps ==
  ASSUME ConnShape, NEW c \in Conns,
         \/ BodyEnds(c)
         \/ \E n \in Numbers : \/ EnterHandler(c, n) \/ HandlerReplies(c, n)
                               \/ HandlerReturns(c, n) \/ HandlerThrows(c, n)
  PROVE  ConnShape'
<1> DEFINE r == conn[c]
           s == rq[c]
           Same(t) == /\ t \in [Requests -> Request]
                      /\ \A n \in Numbers : t[n].disp = s[n].disp \/
                           (s[n].disp # "none" /\ s[n].disp \in {"check", "handling"} /\ t[n].disp \in {"handling", "end"})
<1>0. r \in Connection /\ s \in [Requests -> Request] /\ NotYet(r, s) /\ Good(r, s)
      /\ r.req \in Requests /\ Numbers \subseteq Requests
  BY DEF ConnShape, Good, Connection, Requests, Numbers
<1>1. ASSUME NEW t, Same(t), rq' = [rq EXCEPT ![c] = t], conn' = conn
      PROVE  ConnShape'
  <2>1. Busy(t) = Busy(s)
    BY <1>1 DEF Busy
  <2>2. NotYet(r, t)
    BY <1>0, <1>1 DEF NotYet
  <2>3. Good(r, t)
    BY <1>0, <2>1, <2>2 DEF Good
  <2>4. conn' = [conn EXCEPT ![c] = r]
    BY <1>1 DEF ConnShape
  <2> QED
    BY <1>0, <1>1, <2>3, <2>4, OneConnection
<1>2. CASE BodyEnds(c)
  <2> DEFINE t == [s EXCEPT ![r.req].body = "done"]
  <2>1. rq' = [rq EXCEPT ![c] = t] /\ conn' = conn
    BY <1>2 DEF BodyEnds
  <2>2. Same(t)
    BY <1>0 DEF Request
  <2> HIDE DEF t, Same
  <2> QED
    BY <1>1, <2>1, <2>2
<1>3. ASSUME NEW n \in Numbers, EnterHandler(c, n)
      PROVE  ConnShape'
  <2> DEFINE t == [s EXCEPT ![n].disp = "handling"]
  <2>1. rq' = [rq EXCEPT ![c] = t] /\ conn' = conn /\ s[n].disp = "check"
    BY <1>3 DEF EnterHandler
  <2>2. Same(t)
    BY <1>0, <2>1 DEF Request
  <2> HIDE DEF t, Same
  <2> QED
    BY <1>1, <2>1, <2>2
<1>4. ASSUME NEW n \in Numbers, HandlerReplies(c, n)
      PROVE  ConnShape'
  <2> DEFINE t == [s EXCEPT ![n].replied = TRUE]
  <2>1. rq' = [rq EXCEPT ![c] = t] /\ conn' = conn
    BY <1>4 DEF HandlerReplies
  <2>2. Same(t)
    BY <1>0 DEF Request
  <2> HIDE DEF t, Same
  <2> QED
    BY <1>1, <2>1, <2>2
<1>5. ASSUME NEW n \in Numbers, HandlerReturns(c, n)
      PROVE  ConnShape'
  <2> DEFINE y == [s[n] EXCEPT !.disp = "end", !.target = NoListener]
             t == [s EXCEPT ![n] = y]
  <2>1. rq' = [rq EXCEPT ![c] = t] /\ conn' = conn /\ s[n].disp = "handling"
    <3>1. conn' = conn /\ s[n].disp = "handling"
      BY <1>5, Zenon DEF HandlerReturns
    <3>2. rq' = [rq EXCEPT ![c] = t]
      BY <1>5 DEF HandlerReturns
    <3> QED
      BY <3>1, <3>2
  <2>2. y \in Request /\ y.disp = "end"
    BY <1>0 DEF Request
  <2> HIDE DEF y
  <2>3. Same(t)
    BY <1>0, <2>1, <2>2
  <2> HIDE DEF t, Same
  <2> QED
    BY <1>1, <2>1, <2>3
<1>6. ASSUME NEW n \in Numbers, HandlerThrows(c, n)
      PROVE  ConnShape'
  <2> DEFINE u == [s EXCEPT ![r.req].replied = TRUE]
             y == [u[n] EXCEPT !.disp = "end", !.target = NoListener]
             t == [u EXCEPT ![n] = y]
  <2>1. rq' = [rq EXCEPT ![c] = t] /\ conn' = conn /\ s[n].disp = "handling"
    <3>1. conn' = conn /\ s[n].disp = "handling"
      BY <1>6, Zenon DEF HandlerThrows
    <3>2. rq' = [rq EXCEPT ![c] = t]
      BY <1>6 DEF HandlerThrows, AnswerCurrent
    <3> QED
      BY <3>1, <3>2
  <2>2. u \in [Requests -> Request] /\ \A m \in Numbers : u[m].disp = s[m].disp
    BY <1>0 DEF Request
  <2> HIDE DEF u
  <2>3. y \in Request /\ y.disp = "end"
    <3> DEFINE x == u[n]
    <3>1. x \in Request
      BY <1>0, <2>2
    <3>2. y = [x EXCEPT !.disp = "end", !.target = NoListener]
      OBVIOUS
    <3> HIDE DEF x, y
    <3> QED
      BY <3>1, <3>2 DEF Request
  <2> HIDE DEF y
  <2>4. Same(t)
    BY <1>0, <2>1, <2>2, <2>3
  <2> HIDE DEF t, Same
  <2> QED
    BY <1>1, <2>1, <2>4
<1> QED
  BY <1>2, <1>3, <1>4, <1>5, <1>6

\* A thread leaves dispatch_request_to_listener.
LEMMA DispatchEnds ==
  ASSUME ConnShape, NEW c \in Conns, NEW n \in Numbers, Unregistered(c, n) \/ EndDispatch(c, n)
  PROVE  ConnShape'
<1> DEFINE r == conn[c]
           s == rq[c]
<1>0. r \in Connection /\ s \in [Requests -> Request] /\ NotYet(r, s) /\ Good(r, s)
      /\ r.refs \in Int /\ r.leaked \in Nat /\ Numbers \subseteq Requests
  BY DEF ConnShape, Good, Connection, Requests, Numbers
<1>1. CASE Unregistered(c, n)
  <2> DEFINE q == [r EXCEPT !.leaked = r.leaked + 1]
             y == [s[n] EXCEPT !.replied = TRUE, !.disp = "over", !.target = NoListener]
             t == [s EXCEPT ![n] = y]
  <2>1. conn' = [conn EXCEPT ![c] = q]
    BY <1>1 DEF Unregistered
  <2>2. rq' = [rq EXCEPT ![c] = t] /\ s[n].disp = "check"
    BY <1>1 DEF Unregistered
  <2>3. y \in Request /\ y.disp = "over"
    BY <1>0 DEF Request
  <2> HIDE DEF y
  <2>4. /\ t \in [Requests -> Request] /\ t[n].disp = "over"
        /\ \A m \in Numbers \ {n} : t[m].disp = s[m].disp
    BY <1>0, <2>3
  <2>5. /\ q \in Connection /\ q.chain = r.chain /\ q.refs = r.refs /\ q.leaked = r.leaked + 1
        /\ q.life = r.life /\ q.req = r.req /\ q.mclose = r.mclose
    BY <1>0 DEF Connection
  <2> HIDE DEF q, t
  <2>6. n \in Busy(s)
    BY <2>2 DEF Busy
  <2>7. NotYet(q, t)
    BY <1>0, <2>2, <2>4, <2>5 DEF NotYet
  <2>8. Good(q, t)
    BY <1>0, <2>4, <2>5, <2>6, <2>7, OneLess
  <2> QED
    BY <2>1, <2>2, <2>4, <2>5, <2>8, OneConnection
<1>2. CASE EndDispatch(c, n)
  <2> DEFINE q == Dropped(r)
             t == [s EXCEPT ![n].disp = "over"]
  <2>1. /\ conn' = [conn EXCEPT ![c] = q] /\ rq' = [rq EXCEPT ![c] = t] /\ s[n].disp = "end"
    BY <1>2 DEF EndDispatch
  <2>2. /\ t \in [Requests -> Request] /\ t[n].disp = "over"
        /\ \A m \in Numbers \ {n} : t[m].disp = s[m].disp
    BY <1>0 DEF Request
  <2>3. /\ q \in Connection /\ q.chain = r.chain /\ q.refs = r.refs - 1 /\ q.leaked = r.leaked
        /\ q.life = IF r.refs = 1 THEN "deleted" ELSE r.life
        /\ q.req = r.req /\ q.mclose = r.mclose
    BY <1>0, DroppedShape
  <2> HIDE DEF q, t
  <2>4. n \in Busy(s)
    BY <2>1 DEF Busy
  <2>5. NotYet(q, t)
    BY <1>0, <2>1, <2>2, <2>3 DEF NotYet
  <2>6. Good(q, t)
    BY <1>0, <2>2, <2>3, <2>4, <2>5, OneLess
  <2> QED
    BY <2>1, <2>2, <2>3, <2>6, OneConnection
<1> QED
  BY <1>1, <1>2

\* Connections that are closed, or left without a hostport_listener, keep their
\* references.
LEMMA ManyMove ==
  ASSUME ConnShape, MapTypes, Insert \/ Erased \/ Uncount
  PROVE  ConnShape'
<1>0. \A c \in Conns : /\ conn[c] \in Connection /\ rq[c] \in [Requests -> Request]
                       /\ Good(conn[c], rq[c]) /\ NotYet(conn[c], rq[c])
                       /\ conn[c].req \in Requests
  BY DEF ConnShape, Good, Connection
<1>1. CASE CloseAll
  <2>1. ASSUME NEW c \in Conns
        PROVE  /\ conn'[c] \in Connection /\ rq'[c] \in [Requests -> Request]
               /\ Good(conn'[c], rq'[c])
    <3>1. CASE c \in listed
      <4> DEFINE q == Shut(conn[c])
                 t == AnswerCurrent(c)
      <4>1. conn'[c] = q /\ rq'[c] = t
        BY <1>1, <3>1 DEF CloseAll
      <4>2. /\ q \in Connection /\ q.refs = conn[c].refs /\ q.leaked = conn[c].leaked
            /\ q.chain = conn[c].chain /\ q.life = conn[c].life /\ q.req = conn[c].req
            /\ q.mclose
        <5> DEFINE r == conn[c]
                   w == [r EXCEPT !.sock = FALSE]
        <5>1. /\ w \in Connection /\ w.refs = r.refs /\ w.leaked = r.leaked
              /\ w.chain = r.chain /\ w.life = r.life /\ w.req = r.req
          BY <1>0 DEF Connection
        <5>2. q = [w EXCEPT !.mclose = TRUE]
          BY Zenon DEF Shut
        <5> HIDE DEF w, q
        <5> QED
          BY <5>1, <5>2 DEF Connection
      <4>3. t \in [Requests -> Request] /\ \A n \in Numbers : t[n].disp = rq[c][n].disp
        <5> DEFINE s == rq[c]
                   k == conn[c].req
                   y == [s[k] EXCEPT !.replied = TRUE]
        <5>1. Numbers \subseteq Requests /\ k \in Requests /\ s \in [Requests -> Request]
          BY <1>0 DEF Numbers, Requests
        <5>2. t = [s EXCEPT ![k] = y]
          BY DEF AnswerCurrent
        <5>3. y \in Request /\ y.disp = s[k].disp
          BY <5>1 DEF Request
        <5> HIDE DEF t, y, k, s
        <5>4. t \in [Requests -> Request] /\ \A n \in Numbers : t[n].disp = s[n].disp
          BY <5>1, <5>2, <5>3
        <5> QED
          BY <5>4 DEF s
      <4> HIDE DEF q, t
      <4>4. NotYet(q, t)
        BY <1>0, <4>2, <4>3 DEF NotYet
      <4>5. Good(q, t)
        BY <1>0, <4>2, <4>3, <4>4, GoodKept
      <4> QED
        BY <4>1, <4>2, <4>3, <4>5
    <3>2. CASE c \notin listed
      BY <1>0, <1>1, <3>2 DEF CloseAll
    <3> QED
      BY <3>1, <3>2
  <2>2. conn' \in [Conns -> Connection] /\ rq' \in [Conns -> [Requests -> Request]]
    BY <1>1, <2>1 DEF CloseAll
  <2> QED
    BY <2>1, <2>2 DEF ConnShape
<1>2. CASE UNCHANGED <<conn, rq>>
  BY <1>2 DEF ConnShape
<1>3. CASE Erased
  <2>1. ASSUME NEW c \in Conns
        PROVE  conn'[c] \in Connection /\ Good(conn'[c], rq'[c])
    <3> DEFINE q == [conn[c] EXCEPT !.life = "orphan"]
    <3>1. rq'[c] = rq[c]
      BY <1>3 DEF Erased
    <3>2. CASE conn[c].life = "ready"
      <4>1. conn'[c] = q
        BY <1>3, <3>2 DEF Erased
      <4>2. /\ q \in Connection /\ q.refs = conn[c].refs /\ q.leaked = conn[c].leaked
            /\ q.chain = conn[c].chain /\ q.life = "orphan" /\ q.req = conn[c].req
            /\ q.mclose = conn[c].mclose
        BY <1>0 DEF Connection
      <4> HIDE DEF q
      <4>3. NotYet(q, rq[c])
        BY <1>0, <3>2, <4>2 DEF NotYet
      <4>4. Good(q, rq[c])
        BY <1>0, <3>2, <4>2, <4>3, GoodKept
      <4> QED
        BY <3>1, <4>1, <4>2, <4>4
    <3>3. CASE conn[c].life # "ready"
      BY <1>0, <1>3, <3>1, <3>3 DEF Erased
    <3> QED
      BY <3>2, <3>3
  <2>2. conn' \in [Conns -> Connection] /\ rq' = rq
    BY <1>3, <2>1 DEF Erased
  <2> QED
    BY <2>1, <2>2 DEF ConnShape
<1> QED
  BY <1>1, <1>2, <1>3, Zenon DEF Insert, Uncount

\* The connections, whatever happens to them.
LEMMA ConnStep ==
  ASSUME ConnShape, MapTypes, [Next]_vars
  PROVE  ConnShape'
<1>1. CASE UNCHANGED <<conn, rq>>
  BY <1>1 DEF ConnShape
<1>2. CASE \/ \E l \in Listeners : OpenOrClose(l) \/ Begin(l)
           \/ Remove \/ Unlist \/ Barrier \/ Stopped
  BY <1>1, <1>2, Zenon DEF OpenOrClose, Begin, Remove, Unlist, Barrier, Stopped
<1>3. CASE Insert \/ Erased \/ Uncount
  BY <1>3, ManyMove
<1>4. ASSUME NEW c \in Conns,
             \/ Connect(c) \/ OnAccept(c) \/ OrphanAccept(c) \/ Sent(c) \/ ReadEnds(c)
             \/ HandleLine(c) \/ HandleError(c) \/ Malformed(c) \/ NotFound(c)
             \/ Found(c) \/ Respond(c) \/ BodyEnds(c) \/ Process(c) \/ WriteEnds(c)
             \/ KeepAlive(c) \/ Restart(c) \/ FinishRequestResponse(c)
      PROVE  ConnShape'
  <2>1. CASE OrphanAccept(c)
    BY <1>1, <2>1, Zenon DEF OrphanAccept
  <2> QED
    BY <1>4, <2>1, ChainBeginsAndEnds, ChainMoves, BadResponds, FoundResponds, DispatchKeeps
<1>5. ASSUME NEW c \in Conns, NEW n \in Numbers,
             \/ EnterHandler(c, n) \/ Unregistered(c, n) \/ HandlerReplies(c, n)
             \/ HandlerReturns(c, n) \/ HandlerThrows(c, n) \/ EndDispatch(c, n)
      PROVE  ConnShape'
  BY <1>5, DispatchKeeps, DispatchEnds
<1>6. CASE AcceptFails \/ UNCHANGED vars
  BY <1>1, <1>6 DEF AcceptFails, vars
<1> QED
  BY <1>2, <1>3, <1>4, <1>5, <1>6, Zenon DEF Next

LEMMA MapTypesStep ==
  ASSUME MapTypes, ApiShape, [Next]_vars
  PROVE  MapTypes'
<1>1. CASE UNCHANGED apiVars
  BY <1>1 DEF apiVars, MapTypes
<1>2. CASE \E l \in Listeners : OpenOrClose(l) \/ Begin(l)
  BY <1>2 DEF OpenOrClose, Begin, MapTypes
<1>3. CASE Insert
  <2>1. api.l \in Listeners
    BY <1>3 DEF Insert, ApiShape, Pc
  <2>2. /\ registered' \in {registered, registered \cup {api.l}}
        /\ paths' \in {paths, paths \cup {api.l}}
    BY <1>3, Zenon DEF Insert
  <2> QED
    BY <2>1, <2>2 DEF MapTypes
<1>4. CASE Erased \/ Remove \/ Unlist \/ Barrier \/ Uncount \/ Stopped
  <2>1. CASE Remove
    BY <2>1 DEF Remove, MapTypes
  <2>2. CASE Erased \/ Unlist
    BY <2>2 DEF Erased, Unlist, MapTypes
  <2>3. CASE Barrier \/ Uncount \/ Stopped
    BY <2>3, Zenon DEF Barrier, Uncount, Stopped, MapTypes
  <2> QED
    BY <1>4, <2>1, <2>2, <2>3
<1> QED
  BY <1>1, <1>2, <1>3, <1>4, ApiLeft

\* A request in a handler was in it, or is put there for a listener that is
\* registered.
LEMMA HandlingLeft ==
  ASSUME ConnShape, MapTypes, [Next]_vars, NEW c \in Conns, NEW n \in Numbers,
         rq'[c][n].disp = "handling"
  PROVE  \/ rq[c][n].disp = "handling" /\ rq'[c][n].target = rq[c][n].target
         \/ UNCHANGED apiVars /\ rq'[c][n].target \in registered
<1> DEFINE Left(t, s) == t[n].disp = "handling" => s[n].disp = "handling" /\ t[n].target = s[n].target
<1>0. /\ \A d \in Conns : rq[d] \in [Requests -> Request] /\ conn[d].req \in Requests
      /\ rq \in [Conns -> [Requests -> Request]]
      /\ n \in Requests /\ Numbers \subseteq Requests
  BY DEF ConnShape, Connection, Numbers, Requests
<1>1. CASE UNCHANGED rq
  BY <1>1
<1>2. CASE CloseAll
  <2>1. rq'[c] \in {rq[c], AnswerCurrent(c)}
    BY <1>2 DEF CloseAll
  <2>2. Left(AnswerCurrent(c), rq[c])
    BY <1>0 DEF AnswerCurrent, Request
  <2> QED
    BY <2>1, <2>2
<1>3. ASSUME NEW d \in Conns, NEW m \in Requests,
             NEW y \in Request, rq' = [rq EXCEPT ![d][m] = y],
             y.disp = "handling" => rq[d][m].disp = "handling" /\ y.target = rq[d][m].target
      PROVE  Left(rq'[c], rq[c])
  <2>1. CASE d = c /\ m = n
    BY <1>0, <1>3, <2>1
  <2>2. CASE ~(d = c /\ m = n)
    BY <1>0, <1>3, <2>2
  <2> QED
    BY <2>1, <2>2
<1> HIDE DEF Left
<1>4. CASE AcceptFails \/ UNCHANGED vars
  BY <1>1, <1>4 DEF AcceptFails, vars
<1>5. CASE \/ \E l \in Listeners : OpenOrClose(l) \/ Begin(l)
           \/ Insert \/ Erased \/ Remove \/ Unlist \/ Barrier \/ Uncount \/ Stopped
  <2>1. UNCHANGED rq \/ CloseAll
    BY <1>5, Zenon DEF OpenOrClose, Begin, Insert, Erased, Remove, Unlist, Barrier, Uncount,
       Stopped
  <2> QED
    BY <1>1, <1>2, <2>1
<1>6. ASSUME NEW d \in Conns,
             \/ OnAccept(d) \/ OrphanAccept(d) \/ Sent(d) \/ ReadEnds(d) \/ HandleLine(d)
             \/ HandleError(d) \/ Process(d) \/ WriteEnds(d) \/ KeepAlive(d) \/ Restart(d)
             \/ FinishRequestResponse(d)
      PROVE  UNCHANGED rq
  BY <1>6, Zenon DEF OnAccept, OrphanAccept, Sent, ReadEnds, HandleLine, HandleError, Process,
     WriteEnds, KeepAlive, Restart, FinishRequestResponse
<1>7. ASSUME NEW d \in Conns, Connect(d)
      PROVE  Left(rq'[c], rq[c])
  <2>1. NewRequests[n].disp = "none"
    BY <1>0 DEF NewRequests
  <2>2. rq'[c] \in {rq[c], NewRequests}
    BY <1>0, <1>7 DEF Connect
  <2> QED
    BY <2>1, <2>2 DEF Left
<1>8. ASSUME NEW d \in Conns,
             Malformed(d) \/ NotFound(d) \/ Found(d) \/ Respond(d) \/ BodyEnds(d)
      PROVE  Left(rq'[c], rq[c])
  <2> DEFINE m == conn[d].req
             x == rq[d][m]
  <2>1. m \in Requests /\ x \in Request
    BY <1>0
  <2>2. CASE Malformed(d) \/ BodyEnds(d)
    <3>1. PICK y \in {[x EXCEPT !.replied = TRUE], [x EXCEPT !.body = "done"]} :
            rq' = [rq EXCEPT ![d][m] = y]
      BY <2>2 DEF Malformed, ReplyOrCrash, BodyEnds
    <3>2. y \in Request /\ y.disp = x.disp /\ y.target = x.target
      BY <2>1, <3>1 DEF Request
    <3> QED
      BY <1>3, <2>1, <3>1, <3>2
  <2>3. CASE NotFound(d)
    <3>1. PICK body \in {"reading", "done"} :
            rq' = [rq EXCEPT ![d][m] = [@ EXCEPT !.replied = TRUE, !.body = body, !.disp = "end"]]
      BY <2>3, Zenon DEF NotFound
    <3> DEFINE y == [x EXCEPT !.replied = TRUE, !.body = body, !.disp = "end"]
    <3>2. rq' = [rq EXCEPT ![d][m] = y]
      BY <3>1
    <3>3. y \in Request /\ y.disp = "end"
      BY <2>1 DEF Request
    <3> HIDE DEF y
    <3> QED
      BY <1>3, <2>1, <3>2, <3>3
  <2>4. CASE Found(d)
    <3>1. PICK l \in paths, body \in {"reading", "done"} :
            rq' = [rq EXCEPT ![d][m] = [@ EXCEPT !.target = l, !.body = body]]
      BY <2>4, Zenon DEF Found
    <3>2. conn[d].chain = "line"
      BY <2>4, Zenon DEF Found
    <3>3. x.disp = "none"
      BY <3>2 DEF ConnShape, Good, NotYet
    <3> DEFINE y == [x EXCEPT !.target = l, !.body = body]
    <3>4. rq' = [rq EXCEPT ![d][m] = y]
      BY <3>1
    <3>5. l \in Listeners
      BY <3>1 DEF MapTypes
    <3>6. y \in Request /\ y.disp = "none"
      BY <2>1, <3>3, <3>5 DEF Request
    <3> HIDE DEF y
    <3> QED
      BY <1>3, <2>1, <3>4, <3>6
  <2>5. CASE Respond(d)
    <3> DEFINE y == [x EXCEPT !.disp = "check"]
    <3>1. rq' = [rq EXCEPT ![d][m] = y]
      BY <2>5 DEF Respond
    <3>2. y \in Request /\ y.disp = "check"
      BY <2>1 DEF Request
    <3> HIDE DEF y
    <3> QED
      BY <1>3, <2>1, <3>1, <3>2
  <2> QED
    BY <1>8, <2>2, <2>3, <2>4, <2>5
<1>9. ASSUME NEW d \in Conns, NEW m \in Numbers, EnterHandler(d, m)
      PROVE  Left(rq'[c], rq[c]) \/ (UNCHANGED apiVars /\ rq'[c][n].target \in registered)
  <2>1. /\ rq' = [rq EXCEPT ![d][m].disp = "handling"] /\ UNCHANGED apiVars
        /\ rq[d][m].target \in registered
    BY <1>9, Zenon DEF EnterHandler
  <2>2. rq[d][m] \in Request
    BY <1>0
  <2>3. CASE d = c /\ m = n
    BY <1>0, <2>1, <2>2, <2>3 DEF Request
  <2>4. CASE ~(d = c /\ m = n)
    BY <1>0, <2>1, <2>4 DEF Left
  <2> QED
    BY <2>3, <2>4
<1>10. ASSUME NEW d \in Conns, NEW m \in Numbers,
              Unregistered(d, m) \/ HandlerReplies(d, m) \/ HandlerReturns(d, m) \/ EndDispatch(d, m)
       PROVE  Left(rq'[c], rq[c])
  <2> DEFINE x == rq[d][m]
  <2>1. m \in Requests /\ x \in Request
    BY <1>0
  <2>2. CASE Unregistered(d, m)
    <3> DEFINE y == [x EXCEPT !.replied = TRUE, !.disp = "over", !.target = NoListener]
    <3>1. rq' = [rq EXCEPT ![d][m] = y]
      BY <2>2 DEF Unregistered
    <3>2. y \in Request /\ y.disp = "over"
      BY <2>1 DEF Request
    <3> HIDE DEF y
    <3> QED
      BY <1>3, <2>1, <3>1, <3>2
  <2>3. CASE HandlerReplies(d, m)
    <3> DEFINE y == [x EXCEPT !.replied = TRUE]
    <3>1. rq' = [rq EXCEPT ![d][m] = y]
      BY <2>3 DEF HandlerReplies
    <3>2. y \in Request /\ y.disp = x.disp /\ y.target = x.target
      BY <2>1 DEF Request
    <3> HIDE DEF y
    <3> QED
      BY <1>3, <2>1, <3>1, <3>2
  <2>4. CASE HandlerReturns(d, m)
    <3> DEFINE y == [x EXCEPT !.disp = "end", !.target = NoListener]
    <3>1. rq' = [rq EXCEPT ![d][m] = y]
      BY <2>4 DEF HandlerReturns
    <3>2. y \in Request /\ y.disp # "handling"
      BY <2>1 DEF Request
    <3> HIDE DEF y
    <3> QED
      BY <1>3, <2>1, <3>1, <3>2
  <2>5. CASE EndDispatch(d, m)
    <3> DEFINE y == [x EXCEPT !.disp = "over"]
    <3>1. rq' = [rq EXCEPT ![d][m] = y]
      BY <2>5 DEF EndDispatch
    <3>2. y \in Request /\ y.disp # "handling"
      BY <2>1 DEF Request
    <3> HIDE DEF y
    <3> QED
      BY <1>3, <2>1, <3>1, <3>2
  <2> QED
    BY <1>10, <2>2, <2>3, <2>4, <2>5
<1>11. ASSUME NEW d \in Conns, NEW m \in Numbers, HandlerThrows(d, m)
       PROVE  Left(rq'[c], rq[c])
  <2> DEFINE k == conn[d].req
             u == [rq[d] EXCEPT ![k].replied = TRUE]
             z == [u[m] EXCEPT !.disp = "end", !.target = NoListener]
  <2>1. rq' = [rq EXCEPT ![d] = [u EXCEPT ![m] = z]]
    BY <1>11 DEF HandlerThrows, AnswerCurrent
  <2>2. /\ u \in [Requests -> Request] /\ u[n].disp = rq[d][n].disp
        /\ u[n].target = rq[d][n].target
    <3> DEFINE s == rq[d]
               x == s[k]
               y == [x EXCEPT !.replied = TRUE]
    <3>1. k \in Requests /\ n \in Requests /\ s \in [Requests -> Request] /\ x \in Request
      BY <1>0
    <3>2. u = [s EXCEPT ![k] = y]
      OBVIOUS
    <3> HIDE DEF x
    <3>3. y \in Request /\ y.disp = x.disp /\ y.target = x.target
      BY <3>1 DEF Request
    <3> USE DEF x
    <3> HIDE DEF y, k, s, u
    <3>4. u \in [Requests -> Request] /\ u[n].disp = s[n].disp /\ u[n].target = s[n].target
      BY <3>1, <3>2, <3>3
    <3> QED
      BY <3>4 DEF s
  <2> HIDE DEF u
  <2>0. z.disp = "end"
    BY <1>0, <2>2 DEF Request
  <2> HIDE DEF z
  <2>3. [u EXCEPT ![m] = z][n].disp = "handling" =>
          /\ u[n].disp = "handling"
          /\ [u EXCEPT ![m] = z][n].target = u[n].target
    BY <1>0, <2>0, <2>2
  <2>4. CASE d = c
    BY <1>0, <2>1, <2>2, <2>3, <2>4 DEF Left
  <2>5. CASE d # c
    BY <1>0, <2>1, <2>5 DEF Left
  <2> QED
    BY <2>4, <2>5
<1>12. CASE \E d \in Conns :
             \/ Connect(d) \/ OnAccept(d) \/ OrphanAccept(d) \/ Sent(d) \/ ReadEnds(d)
             \/ HandleLine(d) \/ HandleError(d) \/ Malformed(d) \/ NotFound(d)
             \/ Found(d) \/ Respond(d) \/ BodyEnds(d) \/ Process(d) \/ WriteEnds(d)
             \/ KeepAlive(d) \/ Restart(d) \/ FinishRequestResponse(d)
  <2>1. UNCHANGED rq \/ Left(rq'[c], rq[c])
    BY <1>6, <1>7, <1>8, <1>12, Zenon
  <2> QED
    BY <1>1, <2>1 DEF Left
<1>13. CASE \E d \in Conns, m \in Numbers :
              \/ EnterHandler(d, m) \/ Unregistered(d, m) \/ HandlerReplies(d, m)
              \/ HandlerReturns(d, m) \/ HandlerThrows(d, m) \/ EndDispatch(d, m)
  BY <1>9, <1>10, <1>11, <1>13, Zenon DEF Left
<1> QED
  BY <1>4, <1>5, <1>12, <1>13, Zenon DEF Next

\* A handler runs only for a listener that is registered, or whose close waits.
LEMMA HandlerStep ==
  ASSUME IInv, [Next]_vars, PathShape'
  PROVE  HandlerShape'
<1> SUFFICES ASSUME ~clash', NEW c \in Conns, NEW n \in Numbers,
                    rq'[c][n].disp = "handling"
             PROVE  rq'[c][n].target \in registered' \/
                      (api'.l = rq'[c][n].target /\ api'.pc = "barrier")
  BY DEF HandlerShape, MayRun
<1>1. clash' = clash
  BY ClashLeft
<1> DEFINE l == rq'[c][n].target
<1>2. CASE UNCHANGED apiVars
  BY <1>1, <1>2, HandlingLeft DEF IInv, HandlerShape, MayRun, apiVars
<1>3. CASE ~UNCHANGED apiVars
  <2>1. rq[c][n].disp = "handling" /\ l = rq[c][n].target
    BY <1>3, HandlingLeft DEF IInv
  <2>2. MayRun(l)
    BY <1>1, <2>1 DEF IInv, HandlerShape
  <2>3. CASE \E m \in Listeners : OpenOrClose(m) \/ Begin(m)
    BY <2>2, <2>3 DEF OpenOrClose, Begin, MayRun
  <2>4. CASE Insert
    <3>1. api.pc = "insert" /\ registered \subseteq registered'
      BY <2>4, Zenon DEF Insert
    <3> QED
      BY <2>2, <3>1 DEF MayRun
  <2>5. CASE Erased \/ Remove \/ Uncount \/ Stopped
    <3>1. api.pc # "barrier" /\ registered' = registered
      BY <2>5 DEF Erased, Remove, Uncount, Stopped
    <3> QED
      BY <2>2, <3>1 DEF MayRun
  <2>6. CASE Unlist
    BY <2>2, <2>6 DEF Unlist, At, MayRun, IInv, ApiShape
  <2>7. CASE Barrier
    BY <2>1, <2>2, <2>7 DEF Barrier, Handling, MayRun
  <2> QED
    BY <1>3, <2>3, <2>4, <2>5, <2>6, <2>7, ApiLeft
<1> QED
  BY <1>2, <1>3

\* IInv holds initially.
LEMMA IInvInit == Init => IInv
<1> SUFFICES ASSUME Init
             PROVE  IInv
  OBVIOUS
<1> USE ServerAssumption DEF Init
<1>1. ApiShape /\ MapTypes
  BY DEF ApiShape, MapTypes, Pc
<1>2. CountShape
  <2>1. Counted = {}
    BY DEF Counted
  <2> QED
    BY <2>1, FS_EmptySet DEF CountShape
<1>3. PathShape
  BY DEF PathShape
<1>4. NewRequests \in [Requests -> Request] /\ \A n \in Numbers : NewRequests[n].disp = "none"
  BY DEF NewRequests, Request, Requests, Numbers
<1>5. NewConnection \in Connection
  <2>1. 0 \in Requests
    BY DEF Requests
  <2> QED
    BY <2>1 DEF NewConnection, Connection, Chain
<1>6. HandlerShape
  BY <1>4 DEF HandlerShape
<1>7. Good(NewConnection, NewRequests)
  <2>1. Busy(NewRequests) = {}
    BY <1>4 DEF Busy
  <2>2. Cardinality(Busy(NewRequests)) = 0
    BY <2>1, FS_EmptySet
  <2> QED
    BY <1>4, <2>2 DEF Good, NotYet, NewConnection
<1>8. ConnShape
  BY <1>4, <1>5, <1>7 DEF ConnShape
<1> QED
  BY <1>1, <1>2, <1>3, <1>6, <1>8 DEF IInv

\* IInv holds of every state.
LEMMA IInvariant == Spec => []IInv
<1>1. IInv /\ [Next]_vars => IInv'
  <2> SUFFICES ASSUME IInv, [Next]_vars
               PROVE  IInv'
    OBVIOUS
  <2>1. ApiShape' /\ CountShape' /\ PathShape' /\ MapTypes' /\ ConnShape'
    BY ApiShapeStep, CountStep, PathStep, MapTypesStep, ConnStep DEF IInv
  <2>2. HandlerShape'
    BY <2>1, HandlerStep
  <2> QED
    BY <2>1, <2>2 DEF IInv
<1> QED
  BY <1>1, IInvInit, PTL DEF Spec

\* m_refs counts the threads in a connection and those that left without giving
\* up theirs, and the connection is deleted by the last one and by nobody else,
\* for any number of connections and requests (connection::m_refs).
THEOREM RefsAreCounted == Spec => []RefsCountUsers
<1>1. IInv => RefsCountUsers
  <2> SUFFICES ASSUME IInv, NEW c \in Conns
               PROVE  /\ conn[c].refs = Users(c) + conn[c].leaked
                      /\ conn[c].life = "deleted" <=> conn[c].refs = 0
    BY DEF RefsCountUsers
  <2> QED
    BY DEF IInv, ConnShape, Good, Users, Busy
<1> QED
  BY <1>1, IInvariant, PTL

\* close() of a listener returns when no handler of it runs and the server has
\* forgotten it, for any number of listeners and requests.
THEOREM CloseWaitsForHandlers == Spec => []CloseIsBarrier
<1>1. IInv => CloseIsBarrier
  <2> SUFFICES ASSUME IInv, ~clash, NEW l \in Listeners, lst[l] = "closed"
               PROVE  ~Handling(l) /\ l \notin registered
    BY DEF CloseIsBarrier
  <2>1. l \notin registered
    BY DEF IInv, PathShape
  <2>2. ~(api.l = l /\ api.pc = "barrier")
    BY DEF IInv, ApiShape
  <2> QED
    BY <2>1, <2>2 DEF Handling, IInv, HandlerShape, MayRun
<1> QED
  BY <1>1, IInvariant, PTL

----------------------------------------------------------------------------
(* Accepting *)

\* A host that listens waits for the next connection, or has one that on_accept is
\* to take, unless an async_accept of it has failed.
AcceptShape ==
  /\ accepting \in [waiting : Nat, failed : BOOLEAN]
  /\ host = "listening" => Accepts \/ accepting.failed

LEMMA OtherReady ==
  ASSUME conn \in [Conns -> Connection], NEW c \in Conns, NEW q,
         conn' = [conn EXCEPT ![c] = q], conn[c].life = "ready" => q.life = "ready"
  PROVE  \A d \in Conns : conn[d].life = "ready" => conn'[d].life = "ready"
OBVIOUS

\* A connection that on_accept is to take waits for it: no other step touches it
\* while the hostport_listener is there.
LEMMA ReadyStays ==
  ASSUME ConnShape, NEW c \in Conns,
         \/ OrphanAccept(c) \/ Sent(c) \/ ReadEnds(c) \/ HandleLine(c)
         \/ HandleError(c) \/ Malformed(c) \/ NotFound(c) \/ Found(c) \/ Respond(c)
         \/ BodyEnds(c) \/ Process(c) \/ WriteEnds(c) \/ KeepAlive(c) \/ Restart(c)
         \/ FinishRequestResponse(c)
         \/ \E n \in Numbers :
              \/ EnterHandler(c, n) \/ Unregistered(c, n) \/ HandlerReplies(c, n)
              \/ HandlerReturns(c, n) \/ HandlerThrows(c, n) \/ EndDispatch(c, n)
  PROVE  /\ \A d \in Conns : conn[d].life = "ready" => conn'[d].life = "ready"
         /\ UNCHANGED <<host, accepting>>
<1> DEFINE r == conn[c]
<1>0. /\ conn \in [Conns -> Connection] /\ r \in Connection /\ Good(r, rq[c])
      /\ r.life = "ready" => r.chain = "none"
  BY DEF ConnShape, Good, NotYet
<1>1. UNCHANGED <<host, accepting>>
  BY Zenon DEF OrphanAccept, Sent, ReadEnds, HandleLine, HandleError, Malformed, NotFound, Found,
     Respond, BodyEnds, Process, WriteEnds, KeepAlive, Restart, FinishRequestResponse,
     EnterHandler, Unregistered, HandlerReplies, HandlerReturns, HandlerThrows, EndDispatch,
     apiVars
<1>3. CASE UNCHANGED conn
  BY <1>1, <1>3, Zenon
<1>4. CASE \/ Sent(c) \/ ReadEnds(c) \/ HandleLine(c) \/ HandleError(c) \/ Malformed(c)
           \/ Found(c) \/ Respond(c) \/ Process(c) \/ WriteEnds(c)
           \/ KeepAlive(c) \/ Restart(c) \/ FinishRequestResponse(c) \/ NotFound(c)
  <2>1. PICK q : conn' = [conn EXCEPT ![c] = q]
    BY <1>4 DEF Sent, ReadEnds, HandleLine, HandleError, Malformed, NotFound, Found, Respond,
       Process, WriteEnds, KeepAlive, Restart, FinishRequestResponse
  <2>2. r.chain # "none"
    BY <1>4 DEF Sent, ReadEnds, HandleLine, HandleError, Malformed, NotFound, Found, Respond,
       Process, WriteEnds, KeepAlive, Restart, FinishRequestResponse
  <2> QED
    BY <1>0, <1>1, <2>1, <2>2, OtherReady
<1>5. ASSUME NEW n \in Numbers, Unregistered(c, n)
      PROVE  \A d \in Conns : conn[d].life = "ready" => conn'[d].life = "ready"
  BY <1>0, <1>5 DEF Unregistered, Connection
<1>6. ASSUME NEW n \in Numbers, EndDispatch(c, n)
      PROVE  \A d \in Conns : conn[d].life = "ready" => conn'[d].life = "ready"
  <2>1. conn' = [conn EXCEPT ![c] = Dropped(r)] /\ n \in Busy(rq[c])
    BY <1>6 DEF EndDispatch, Busy
  <2>2. Cardinality(Busy(rq[c])) \in Nat \ {0} /\ r.leaked \in Nat
    BY <1>0, <2>1, BusyFinite DEF Connection
  <2>3. r.life = "ready" => r.refs # 1
    BY <1>0, <2>2 DEF Good
  <2>4. r.life = "ready" => Dropped(r).life = "ready"
    BY <1>0, <2>3 DEF Dropped, Connection
  <2> QED
    BY <1>0, <2>1, <2>4, OtherReady
<1>7. CASE \/ OrphanAccept(c) \/ BodyEnds(c)
           \/ \E n \in Numbers : \/ EnterHandler(c, n) \/ HandlerReplies(c, n)
                                 \/ HandlerReturns(c, n) \/ HandlerThrows(c, n)
  BY <1>3, <1>7, Zenon DEF OrphanAccept, BodyEnds, EnterHandler, HandlerReplies, HandlerReturns,
     HandlerThrows
<1> QED
  BY <1>1, <1>4, <1>5, <1>6, <1>7

\* What hostport_listener::start begins, on_accept goes on with until it fails.
LEMMA AcceptStep ==
  ASSUME ConnShape, AcceptShape, [Next]_vars
  PROVE  AcceptShape'
<1> USE DEF AcceptShape, Accepts
<1>0. /\ NoAccept \in [waiting : Nat, failed : BOOLEAN]
      /\ Listening \in [waiting : Nat, failed : BOOLEAN] /\ Listening.waiting > 0
  BY DEF NoAccept, Listening
<1>1. CASE UNCHANGED <<host, accepting, conn>>
  BY <1>1, Zenon
<1>2. CASE host' # "listening" /\ (accepting' = accepting \/ accepting' = NoAccept)
  BY <1>0, <1>2, Zenon
<1>3. CASE accepting' = Listening
  BY <1>0, <1>3, Zenon
<1>4. CASE \/ \E l \in Listeners : OpenOrClose(l) \/ Begin(l)
           \/ Remove \/ Unlist \/ Barrier \/ Stopped
  <2>1. ASSUME NEW l \in Listeners, Begin(l)
        PROVE  AcceptShape'
    BY <1>1, <1>2, <1>3, <2>1 DEF Begin
  <2> QED
    BY <1>1, <1>4, <2>1, Zenon DEF OpenOrClose, Remove, Unlist, Barrier, Stopped
<1>5. CASE Insert
  BY <1>1, <1>2, <1>3, <1>5 DEF Insert, CloseAll
<1>6. CASE Uncount
  BY <1>1, <1>2, <1>6 DEF Uncount, CloseAll
<1>7. CASE Erased
  BY <1>2, <1>7 DEF Erased
<1>8. CASE AcceptFails
  BY <1>8 DEF AcceptFails
<1>9. ASSUME NEW c \in Conns, Connect(c)
      PROVE  AcceptShape'
  <2>1. conn'[c].life = "ready"
    BY <1>9 DEF Connect, ConnShape, NewConnection
  <2> QED
    BY <1>9, <2>1 DEF Connect
<1>10. ASSUME NEW c \in Conns, OnAccept(c)
       PROVE  AcceptShape'
  BY <1>10 DEF OnAccept, apiVars
<1>11. ASSUME NEW c \in Conns,
              \/ OrphanAccept(c) \/ Sent(c) \/ ReadEnds(c) \/ HandleLine(c)
              \/ HandleError(c) \/ Malformed(c) \/ NotFound(c) \/ Found(c) \/ Respond(c)
              \/ BodyEnds(c) \/ Process(c) \/ WriteEnds(c) \/ KeepAlive(c) \/ Restart(c)
              \/ FinishRequestResponse(c)
              \/ \E n \in Numbers :
                   \/ EnterHandler(c, n) \/ Unregistered(c, n) \/ HandlerReplies(c, n)
                   \/ HandlerReturns(c, n) \/ HandlerThrows(c, n) \/ EndDispatch(c, n)
       PROVE  AcceptShape'
  BY <1>11, ReadyStays
<1>12. CASE UNCHANGED vars
  BY <1>1, <1>12 DEF vars
<1> QED
  BY <1>4, <1>5, <1>6, <1>7, <1>8, <1>9, <1>10, <1>11, <1>12, Zenon DEF Next

\* A listener that is open is in both maps of a server that is started and a host
\* that listens and takes the next connection, for any number of listeners that come
\* and go; after an async_accept of the host has failed only the maps are right.
THEOREM OpenListenersAreServed == Spec => []OpenIsServed
<1>1. ASSUME IInv, AcceptShape
      PROVE  OpenIsServed
  <2> SUFFICES ASSUME ~clash, NEW l \in Listeners, lst[l] = "open"
               PROVE  Served(l)
    BY DEF OpenIsServed
  <2>1. l \in registered /\ ~(api.pc = "unlist" /\ api.l = l)
    BY <1>1 DEF IInv, PathShape, ApiShape
  <2> QED
    BY <1>1, <2>1 DEF Served, IInv, PathShape, AcceptShape
<1>2. Init => AcceptShape
  BY DEF Init, AcceptShape, NoAccept
<1>3. IInv /\ AcceptShape /\ [Next]_vars => AcceptShape'
  BY AcceptStep DEF IInv
<1> QED
  BY <1>1, <1>2, <1>3, IInvariant, PTL DEF Spec

----------------------------------------------------------------------------
(* Waiting for connections *)

Stopping == api.pc \in {"stopping", "erasing"}

\* The server has closed the connection, and its chain runs to its end without
\* waiting for the client or for a handler to reply.
Ends(r, s) == ~r.sock /\ (r.chain \in {"found", "waiting"} => s[r.req].replied)

\* The connections in m_connections run.  While the host is being stopped it
\* listens no more and has no listener, so that what is read then is answered.
StopShape ==
  /\ \A c \in Conns : rq[c][0].replied
  /\ listed \subseteq Conns
  /\ \A c \in listed : conn[c].life = "live" /\ conn[c].chain \notin {"none", "over"}
  /\ Stopping => host = "idle"
  /\ api.pc = "stopping" => count = 0
  /\ ~clash /\ Stopping => \A c \in listed : conn[c].late \/ Ends(conn[c], rq[c])

StopInv == IInv /\ StopShape

\* hostport_listener::stop, in close() and where open() fails, waits for
\* connections that run, that it has closed and that wait for no reply of a handler
\* any more (m_all_connections_complete), but for those that come in late.
StopWaitsForEnds ==
  ~clash /\ Stopping =>
    \A c \in listed :
      /\ conn[c].life = "live" /\ conn[c].chain # "over"
      /\ conn[c].late \/ Ends(conn[c], rq[c])

\* A host that is being stopped has no listener.
LEMMA NobodyLeft ==
  ASSUME StopInv, ~clash, Stopping
  PROVE  paths = {}
<1>1. CASE api.pc = "erasing"
  BY <1>1 DEF StopInv, IInv, PathShape
<1>2. CASE api.pc = "stopping"
  <2>1. Counted = {}
    <3>1. Cardinality(Counted) = 0
      BY <1>2 DEF StopInv, StopShape, IInv, CountShape
    <3> QED
      BY <3>1, CountedFinite, FS_EmptySet
  <2>2. \A l \in registered : l \in Counted
    BY <1>2 DEF StopInv, IInv, MapTypes, ApiShape, PathShape, Counted
  <2> QED
    BY <1>2, <2>1, <2>2 DEF StopInv, IInv, PathShape
<1> QED
  BY <1>1, <1>2 DEF Stopping

\* What StopShape says of one connection while the host is being stopped, or not.
Runs(r, s) ==
  /\ r.life = "live" /\ r.chain \notin {"none", "over"}
  /\ ~clash /\ Stopping => r.late \/ Ends(r, s)

\* A step of the chain of a connection.
LEMMA ChainStops ==
  ASSUME StopInv, NEW c \in Conns,
         \/ Connect(c) \/ OnAccept(c) \/ OrphanAccept(c) \/ Sent(c) \/ ReadEnds(c)
         \/ HandleLine(c) \/ HandleError(c) \/ Malformed(c) \/ NotFound(c)
         \/ Found(c) \/ Respond(c) \/ BodyEnds(c) \/ Process(c) \/ WriteEnds(c)
         \/ KeepAlive(c) \/ Restart(c) \/ FinishRequestResponse(c)
  PROVE  /\ \A d \in Conns \ {c} : conn'[d] = conn[d] /\ rq'[d] = rq[d]
         /\ listed' \subseteq listed \cup {c}
         /\ c \in listed' => Runs(conn'[c], rq'[c])
         /\ rq'[c][0].replied
<1> DEFINE r == conn[c]
           s == rq[c]
<1>0. /\ conn \in [Conns -> Connection] /\ rq \in [Conns -> [Requests -> Request]]
      /\ r \in Connection /\ s \in [Requests -> Request] /\ r.req \in Requests /\ 0 \in Requests
      /\ s[0].replied
      /\ c \in listed => Runs(r, s)
      /\ ~clash /\ Stopping => host = "idle" /\ paths = {}
  <2>1. StopShape /\ ConnShape
    BY DEF StopInv, IInv
  <2>2. /\ conn \in [Conns -> Connection] /\ rq \in [Conns -> [Requests -> Request]]
        /\ r \in Connection /\ s \in [Requests -> Request]
    BY <2>1 DEF ConnShape
  <2>3. r.req \in Requests /\ 0 \in Requests
    BY <2>2, ServerAssumption DEF Connection, Requests
  <2>4. s[0].replied
    BY <2>1 DEF StopShape
  <2>5. c \in listed => Runs(r, s)
    BY <2>1 DEF StopShape, Runs
  <2>6. ~clash /\ Stopping => host = "idle" /\ paths = {}
    BY <2>1, NobodyLeft DEF StopShape
  <2> QED
    BY <2>2, <2>3, <2>4, <2>5, <2>6
<1>1. CASE Connect(c)
  BY <1>0, <1>1 DEF Connect, NewRequests, Runs
<1>2. CASE OnAccept(c)
  BY <1>0, <1>2 DEF OnAccept, Runs, Reading, Connection, Stopping
<1>3. CASE OrphanAccept(c)
  BY <1>0, <1>3 DEF OrphanAccept
<1>4. CASE Sent(c)
  BY <1>0, <1>4 DEF Sent, Runs, Ends, Connection
<1>5. CASE ReadEnds(c)
  BY <1>0, <1>5 DEF ReadEnds, Runs, Ends, Connection
<1>6. CASE HandleLine(c)
  BY <1>0, <1>6 DEF HandleLine, Runs, Ends, Connection
<1>7. CASE HandleError(c)
  BY <1>0, <1>7 DEF HandleError, RespondingBad, Responding, Runs, Ends, Connection
<1>8. CASE Malformed(c)
  BY <1>0, <1>8 DEF Malformed, ReplyOrCrash, RespondingBad, Responding, Runs, Ends, Connection, Request
<1>9. CASE NotFound(c)
  <2>1. PICK close \in BOOLEAN, body \in {"reading", "done"} :
          /\ conn' = [conn EXCEPT ![c] = [Responding(r) EXCEPT !.mclose = close]]
          /\ rq' = [rq EXCEPT ![c][r.req] = [s[r.req] EXCEPT !.replied = TRUE, !.body = body,
                                                             !.disp = "end"]]
    BY <1>9 DEF NotFound
  <2> DEFINE q == [Responding(r) EXCEPT !.mclose = close]
             y == [s[r.req] EXCEPT !.replied = TRUE, !.body = body, !.disp = "end"]
             t == [s EXCEPT ![r.req] = y]
  <2>2. q.life = r.life /\ q.late = r.late /\ q.sock = r.sock /\ q.req = r.req /\ q.chain = "waiting"
    BY <1>0 DEF Responding, Connection
  <2>3. s[r.req] \in Request
    BY <1>0
  <2>4. y.replied
    BY <2>3 DEF Request
  <2>5. conn' = [conn EXCEPT ![c] = q] /\ rq' = [rq EXCEPT ![c] = t]
    BY <2>1
  <2> HIDE DEF q, y
  <2>6. t[r.req].replied /\ t[0].replied
    BY <1>0, <2>4
  <2> HIDE DEF t
  <2>7. Runs(r, s) => Runs(q, t)
    BY <2>2, <2>6 DEF Runs, Ends
  <2>8. /\ conn'[c] = q /\ rq'[c] = t /\ UNCHANGED <<listed, apiVars>>
        /\ \A d \in Conns \ {c} : conn'[d] = conn[d] /\ rq'[d] = rq[d]
    BY <1>0, <1>9, <2>5 DEF NotFound
  <2> QED
    BY <1>0, <2>6, <2>7, <2>8
<1>10. CASE Found(c)
  <2>1. PICK l \in paths, close \in BOOLEAN, body \in {"reading", "done"} :
          /\ conn' = [conn EXCEPT ![c] = [r EXCEPT !.chain = "found", !.mclose = close]]
          /\ rq' = [rq EXCEPT ![c][r.req] = [s[r.req] EXCEPT !.target = l, !.body = body]]
    BY <1>10, Zenon DEF Found
  <2> DEFINE q == [r EXCEPT !.chain = "found", !.mclose = close]
             y == [s[r.req] EXCEPT !.target = l, !.body = body]
             t == [s EXCEPT ![r.req] = y]
  <2>2. q.life = r.life /\ q.chain = "found"
    BY <1>0 DEF Connection
  <2>3. s[r.req] \in Request
    BY <1>0
  <2>4. y.replied = s[r.req].replied
    BY <2>3 DEF Request
  <2>5. conn' = [conn EXCEPT ![c] = q] /\ rq' = [rq EXCEPT ![c] = t]
    BY <2>1
  <2> HIDE DEF q, y
  <2>6. t[0].replied
    BY <1>0, <2>4
  <2> HIDE DEF t
  <2>7. Runs(r, s) => Runs(q, t)
    BY <1>0, <2>1, <2>2 DEF Runs
  <2>8. /\ conn'[c] = q /\ rq'[c] = t
        /\ \A d \in Conns \ {c} : conn'[d] = conn[d] /\ rq'[d] = rq[d]
    BY <1>0, <2>5
  <2>9. UNCHANGED <<listed, apiVars>>
    BY <1>10, Zenon DEF Found
  <2> QED
    BY <1>0, <2>6, <2>7, <2>8, <2>9 DEF Runs, Stopping, apiVars
<1>11. CASE Respond(c)
  BY <1>0, <1>11 DEF Respond, Responding, Runs, Ends, Connection, Request
<1>12. CASE BodyEnds(c)
  BY <1>0, <1>12 DEF BodyEnds, Runs, Ends, Connection, Request
<1>13. CASE Process(c)
  <2>1. PICK close \in BOOLEAN :
          conn' = [conn EXCEPT ![c].chain = "writing", ![c].mclose = @ \/ close]
    BY <1>13 DEF Process
  <2> DEFINE q == [r EXCEPT !.chain = "writing", !.mclose = @ \/ close]
  <2>2. q.life = r.life /\ q.late = r.late /\ q.sock = r.sock /\ q.chain = "writing"
    BY <1>0 DEF Connection
  <2>3. conn' = [conn EXCEPT ![c] = q]
    BY <2>1
  <2> HIDE DEF q
  <2>4. Runs(r, s) => Runs(q, s)
    BY <2>2 DEF Runs, Ends
  <2>5. /\ conn'[c] = q /\ rq'[c] = s
        /\ \A d \in Conns \ {c} : conn'[d] = conn[d] /\ rq'[d] = rq[d]
    <3>1. rq' = rq
      BY <1>13, Zenon DEF Process
    <3> QED
      BY <1>0, <2>3, <3>1
  <2>6. UNCHANGED <<listed, apiVars>>
    BY <1>13, Zenon DEF Process
  <2> QED
    BY <1>0, <2>4, <2>5, <2>6 DEF Runs, Stopping, apiVars
<1>14. CASE WriteEnds(c)
  BY <1>0, <1>14 DEF WriteEnds, Runs, Ends, Connection
<1>15. CASE KeepAlive(c)
  BY <1>0, <1>15 DEF KeepAlive, Runs, Ends, Connection
<1>16. CASE Restart(c)
  BY <1>0, <1>16 DEF Restart, Reading, Runs, Ends, Connection
<1>17. CASE FinishRequestResponse(c)
  BY <1>0, <1>17 DEF FinishRequestResponse
<1> QED
  BY <1>1, <1>2, <1>3, <1>4, <1>5, <1>6, <1>7, <1>8, <1>9, <1>10, <1>11, <1>12, <1>13, <1>14,
     <1>15, <1>16, <1>17

\* A step of the dispatch of a request.
LEMMA DispatchStops ==
  ASSUME StopInv, NEW c \in Conns, NEW n \in Numbers,
         \/ EnterHandler(c, n) \/ Unregistered(c, n) \/ HandlerReplies(c, n)
         \/ HandlerReturns(c, n) \/ HandlerThrows(c, n) \/ EndDispatch(c, n)
  PROVE  /\ \A d \in Conns \ {c} : conn'[d] = conn[d] /\ rq'[d] = rq[d]
         /\ UNCHANGED listed
         /\ c \in listed => Runs(conn'[c], rq'[c])
         /\ rq'[c][0].replied
<1> DEFINE r == conn[c]
           s == rq[c]
<1>0. /\ conn \in [Conns -> Connection] /\ rq \in [Conns -> [Requests -> Request]]
      /\ r \in Connection /\ s \in [Requests -> Request] /\ r.req \in Requests /\ 0 \in Requests
      /\ n \in Requests
      /\ s[0].replied
      /\ c \in listed => Runs(r, s)
  <2>1. StopShape /\ ConnShape
    BY DEF StopInv, IInv
  <2>2. /\ conn \in [Conns -> Connection] /\ rq \in [Conns -> [Requests -> Request]]
        /\ r \in Connection /\ s \in [Requests -> Request]
    BY <2>1 DEF ConnShape
  <2>3. r.req \in Requests /\ 0 \in Requests /\ n \in Requests
    BY <2>2, ServerAssumption DEF Connection, Requests, Numbers
  <2>4. s[0].replied
    BY <2>1 DEF StopShape
  <2>5. c \in listed => Runs(r, s)
    BY <2>1 DEF StopShape, Runs
  <2> QED
    BY <2>2, <2>3, <2>4, <2>5
<1>1. CASE EnterHandler(c, n)
  BY <1>0, <1>1 DEF EnterHandler, Runs, Ends, Request
<1>2. CASE Unregistered(c, n)
  BY <1>0, <1>2 DEF Unregistered, Runs, Ends, Request, Connection
<1>3. CASE HandlerReplies(c, n)
  BY <1>0, <1>3 DEF HandlerReplies, Runs, Ends, Request
<1>4. CASE HandlerReturns(c, n)
  BY <1>0, <1>4 DEF HandlerReturns, Runs, Ends, Request
<1>5. CASE HandlerThrows(c, n)
  <2> DEFINE y == [s[r.req] EXCEPT !.replied = TRUE]
             t == [s EXCEPT ![r.req] = y]
             z == [t[n] EXCEPT !.disp = "end", !.target = NoListener]
  <2>1. rq' = [rq EXCEPT ![c] = [t EXCEPT ![n] = z]] /\ UNCHANGED <<conn, listed>>
    <3>1. AnswerCurrent(c) = t
      BY DEF AnswerCurrent
    <3>2. rq' = [rq EXCEPT ![c] = [AnswerCurrent(c) EXCEPT
                     ![n] = [@ EXCEPT !.disp = "end", !.target = NoListener]]]
      BY <1>5 DEF HandlerThrows
    <3>3. UNCHANGED <<conn, listed>>
      BY <1>5, Zenon DEF HandlerThrows
    <3>4. [t EXCEPT ![n] = [@ EXCEPT !.disp = "end", !.target = NoListener]]
            = [t EXCEPT ![n] = z]
      <4> HIDE DEF t
      <4> QED
        OBVIOUS
    <3> HIDE DEF t, z
    <3> QED
      BY <3>1, <3>2, <3>3, <3>4, Zenon
  <2>2. y \in Request /\ y.replied
    <3> DEFINE w == s[r.req]
    <3>1. w \in Request
      BY <1>0
    <3>2. y = [w EXCEPT !.replied = TRUE]
      OBVIOUS
    <3> HIDE DEF w, y
    <3> QED
      BY <3>1, <3>2 DEF Request
  <2>3. t \in [Requests -> Request] /\ t[0].replied /\ t[r.req].replied
    <3> HIDE DEF y
    <3> QED
      BY <1>0, <2>2
  <2>4. z.replied = t[n].replied
    <3> HIDE DEF t
    <3> QED
      BY <1>0, <2>3 DEF Request
  <2> HIDE DEF y, t, z
  <2>5. rq'[c] = [t EXCEPT ![n] = z] /\ \A d \in Conns \ {c} : rq'[d] = rq[d]
    BY <1>0, <2>1
  <2>6. rq'[c][0].replied /\ rq'[c][r.req].replied
    BY <1>0, <2>3, <2>4, <2>5
  <2> QED
    BY <1>0, <2>1, <2>5, <2>6 DEF Runs, Ends
<1>6. CASE EndDispatch(c, n)
  <2>1. conn' = [conn EXCEPT ![c] = Dropped(r)] /\ UNCHANGED listed
    BY <1>6 DEF EndDispatch
  <2>2. /\ Dropped(r).sock = r.sock /\ Dropped(r).late = r.late
        /\ Dropped(r).chain = r.chain /\ Dropped(r).req = r.req
        /\ Dropped(r).life = IF r.refs = 1 THEN "deleted" ELSE r.life
    BY <1>0 DEF Dropped, Connection
  <2>3. c \in listed => r.refs # 1
    <3>1. Good(r, s)
      BY DEF StopInv, IInv, ConnShape
    <3>2. n \in Busy(s)
      BY <1>6 DEF EndDispatch, Busy
    <3>3. Cardinality(Busy(s)) \in Nat \ {0}
      BY <3>2, BusyFinite
    <3>4. r.leaked \in Nat
      BY <1>0 DEF Connection
    <3>5. r.refs = (IF r.chain = "over" THEN 0 ELSE 1) + Cardinality(Busy(s)) + r.leaked
      BY <3>1, Zenon DEF Good
    <3>6. c \in listed => r.chain # "over"
      BY <1>0 DEF Runs
    <3> HIDE DEF r, s
    <3> QED
      BY <3>3, <3>4, <3>5, <3>6
  <2>4. rq'[c] = [s EXCEPT ![n].disp = "over"] /\ \A d \in Conns \ {c} : rq'[d] = rq[d]
    BY <1>0, <1>6 DEF EndDispatch
  <2>5. rq'[c][0].replied /\ (s[r.req].replied => rq'[c][r.req].replied)
    BY <1>0, <2>4 DEF Request
  <2>6. conn'[c] = Dropped(r) /\ \A d \in Conns \ {c} : conn'[d] = conn[d]
    BY <1>0, <2>1
  <2>7. c \in listed => Runs(Dropped(r), rq'[c])
    BY <1>0, <2>2, <2>3, <2>5 DEF Runs, Ends
  <2> QED
    BY <2>1, <2>4, <2>5, <2>6, <2>7
<1> QED
  BY <1>1, <1>2, <1>3, <1>4, <1>5, <1>6

\* What stop() and a failed start do to the connections that run.
LEMMA CloseAllStops ==
  ASSUME StopInv, CloseAll
  PROVE  /\ \A c \in Conns : rq'[c][0].replied
         /\ \A c \in listed : /\ conn'[c].life = conn[c].life /\ conn'[c].chain = conn[c].chain
                              /\ Ends(conn'[c], rq'[c])
<1>1. /\ StopShape /\ ConnShape
      /\ \A c \in Conns : conn[c] \in Connection /\ rq[c] \in [Requests -> Request]
                          /\ conn[c].req \in Requests /\ 0 \in Requests
  BY ServerAssumption DEF StopInv, IInv, ConnShape, Connection, Requests
<1>2. ASSUME NEW c \in Conns
      PROVE  /\ AnswerCurrent(c)[0].replied
             /\ AnswerCurrent(c)[conn[c].req].replied
  <2> DEFINE s == rq[c]
             y == [s[conn[c].req] EXCEPT !.replied = TRUE]
  <2>1. y.replied
    BY <1>1 DEF Request
  <2>2. AnswerCurrent(c) = [s EXCEPT ![conn[c].req] = y]
    BY DEF AnswerCurrent
  <2>3. s[0].replied
    BY <1>1 DEF StopShape
  <2> HIDE DEF y
  <2> QED
    BY <1>1, <2>1, <2>2, <2>3
<1>3. ASSUME NEW c \in Conns
      PROVE  /\ ~Shut(conn[c]).sock
             /\ Shut(conn[c]).life = conn[c].life /\ Shut(conn[c]).chain = conn[c].chain
             /\ Shut(conn[c]).req = conn[c].req
  BY <1>1 DEF Shut, Connection
<1>4. listed \subseteq Conns
  BY <1>1 DEF StopShape
<1>5. \A c \in Conns : rq'[c] = AnswerCurrent(c) \/ rq'[c] = rq[c]
  BY DEF CloseAll
<1>6. \A c \in listed : conn'[c] = Shut(conn[c]) /\ rq'[c] = AnswerCurrent(c)
  BY <1>4 DEF CloseAll
<1>7. \A c \in Conns : rq'[c][0].replied
  BY <1>1, <1>2, <1>5 DEF StopShape
<1> QED
  BY <1>2, <1>3, <1>4, <1>6, <1>7 DEF Ends

\* Every step preserves StopShape.
LEMMA StopShapeStep ==
  ASSUME StopInv, [Next]_vars
  PROVE  StopShape'
<1>0. StopShape /\ ApiShape
  BY DEF StopInv, IInv
<1>a. api \in [pc : Pc, l : Listeners \cup {NoListener}, ok : BOOLEAN]
  BY <1>0 DEF ApiShape
<1>b. /\ \A pc \in Pc : (At(pc) => api'.pc = pc) /\ (Failed(pc) => api'.pc = pc)
      /\ Return => api'.pc = "idle"
      /\ {"uncount", "unlist", "barrier", "erasing"} \subseteq Pc
  <2>1. \A pc \in Pc : (At(pc) => api'.pc = pc) /\ (Failed(pc) => api'.pc = pc)
    BY <1>a DEF At, Failed
  <2>2. Return => api'.pc = "idle"
    BY DEF Return
  <2> QED
    BY <2>1, <2>2 DEF Pc
<1>1. ASSUME UNCHANGED <<conn, rq, listed>>, ~Stopping' \/ UNCHANGED apiVars
      PROVE  StopShape'
  BY <1>0, <1>1 DEF StopShape, Stopping, Ends, apiVars
<1>2. ASSUME NEW c \in Conns, UNCHANGED apiVars,
             /\ \A d \in Conns \ {c} : conn'[d] = conn[d] /\ rq'[d] = rq[d]
             /\ listed' \subseteq listed \cup {c}
             /\ c \in listed' => Runs(conn'[c], rq'[c])
             /\ rq'[c][0].replied
      PROVE  StopShape'
  BY <1>0, <1>2 DEF StopShape, Runs, Stopping, Ends, apiVars
<1>3. ASSUME CloseAll, UNCHANGED listed, host' = "idle", api'.pc = "stopping" => count' = 0
      PROVE  StopShape'
  BY <1>0, <1>3, CloseAllStops DEF StopShape
<1>4. ASSUME NEW l \in Listeners, OpenOrClose(l)
      PROVE  StopShape'
  BY <1>0, <1>4 DEF OpenOrClose, StopShape, Stopping, Ends
<1>5. ASSUME NEW l \in Listeners, Begin(l)
      PROVE  StopShape'
  <2>1. ~Stopping' /\ UNCHANGED <<conn, rq, listed>>
    BY <1>5 DEF Begin, Stopping
  <2> QED
    BY <1>1, <2>1
<1>6. CASE Insert
  <2>1. \/ Failed("uncount") /\ UNCHANGED <<conn, rq>>
        \/ Return /\ UNCHANGED <<conn, rq>>
        \/ Failed("erasing") /\ host' = "idle" /\ CloseAll
    BY <1>6, Zenon DEF Insert
  <2>2. UNCHANGED listed
    BY <1>6, Zenon DEF Insert
  <2>3. /\ Failed("uncount") \/ Return => ~Stopping'
        /\ Failed("erasing") => api'.pc # "stopping"
    BY <1>b DEF Stopping
  <2> QED
    BY <1>1, <1>3, <2>1, <2>2, <2>3
<1>7. CASE Uncount
  <2>1. \/ Return /\ UNCHANGED <<conn, rq>>
        \/ count' = 0 /\ host' = "idle" /\ CloseAll
    BY <1>7 DEF Uncount
  <2>2. UNCHANGED listed
    BY <1>7, Zenon DEF Uncount
  <2>3. Return => ~Stopping'
    BY DEF Return, Stopping
  <2> QED
    BY <1>1, <1>3, <2>1, <2>2, <2>3
<1>8. CASE Erased
  <2>1. listed = {} /\ UNCHANGED <<listed, rq>> /\ At("uncount")
    BY <1>8, Zenon DEF Erased
  <2>2. ~Stopping'
    BY <1>0, <2>1 DEF At, Stopping, ApiShape
  <2> QED
    BY <1>0, <2>1, <2>2 DEF StopShape, Stopping
<1>9. CASE Remove \/ Unlist \/ Barrier \/ Stopped
  <2>1. UNCHANGED <<conn, rq, listed>>
    BY <1>9, Zenon DEF Remove, Unlist, Barrier, Stopped
  <2>2. Failed("uncount") \/ At("unlist") \/ At("barrier") \/ At("uncount") \/ Return
    BY <1>9, Zenon DEF Remove, Unlist, Barrier, Stopped
  <2>3. ~Stopping'
    BY <1>b, <2>2 DEF Stopping
  <2> QED
    BY <1>1, <2>1, <2>3
<1>10. ASSUME NEW c \in Conns,
              \/ Connect(c) \/ OnAccept(c) \/ OrphanAccept(c) \/ Sent(c) \/ ReadEnds(c)
              \/ HandleLine(c) \/ HandleError(c) \/ Malformed(c) \/ NotFound(c)
              \/ Found(c) \/ Respond(c) \/ BodyEnds(c) \/ Process(c) \/ WriteEnds(c)
              \/ KeepAlive(c) \/ Restart(c) \/ FinishRequestResponse(c)
       PROVE  StopShape'
  <2>1. UNCHANGED apiVars
    BY <1>10, Zenon DEF Connect, OnAccept, OrphanAccept, Sent, ReadEnds, HandleLine, HandleError,
       Malformed, NotFound, Found, Respond, BodyEnds, Process, WriteEnds, KeepAlive, Restart,
       FinishRequestResponse
  <2> QED
    BY <1>2, <1>10, <2>1, ChainStops
<1>11. ASSUME NEW c \in Conns, NEW n \in Numbers,
              \/ EnterHandler(c, n) \/ Unregistered(c, n) \/ HandlerReplies(c, n)
              \/ HandlerReturns(c, n) \/ HandlerThrows(c, n) \/ EndDispatch(c, n)
       PROVE  StopShape'
  <2>1. UNCHANGED apiVars
    BY <1>11, Zenon DEF EnterHandler, Unregistered, HandlerReplies, HandlerReturns, HandlerThrows,
       EndDispatch
  <2> QED
    BY <1>2, <1>11, <2>1, DispatchStops
<1>12. CASE AcceptFails \/ UNCHANGED vars
  BY <1>1, <1>12 DEF AcceptFails, vars, apiVars
<1> QED
  BY <1>4, <1>5, <1>6, <1>7, <1>8, <1>9, <1>10, <1>11, <1>12, Zenon DEF Next

\* Stopping the server, by the close of its last listener or by an open that failed,
\* waits for nothing that will not come, for any number of connections and requests.
THEOREM StopsDoNotHang == Spec => []StopWaitsForEnds
<1>1. Init => StopShape
  <2> SUFFICES ASSUME Init
               PROVE  StopShape
    OBVIOUS
  <2>1. NewRequests[0].replied
    <3>1. 0 \in Requests
      BY ServerAssumption DEF Requests
    <3>2. NewRequests[0].replied = (0 = 0)
      BY <3>1, Zenon DEF NewRequests
    <3> QED
      BY <3>2
  <2>2. ~Stopping /\ listed = {} /\ api.pc # "stopping"
    BY DEF Init, Stopping
  <2> QED
    BY <2>1, <2>2 DEF Init, StopShape
<1>2. StopInv => StopWaitsForEnds
  BY DEF StopInv, StopShape, StopWaitsForEnds
<1>3. IInv /\ StopShape /\ [Next]_vars => StopShape'
  BY StopShapeStep DEF StopInv
<1> QED
  BY <1>1, <1>2, <1>3, IInvariant, PTL DEF Spec, StopInv
===============================================================================
