--------------------------- MODULE HttpClientProofs ---------------------------
(***************************************************************************)
(* Proofs about HttpClient, for any number of requests, connections and     *)
(* addresses.  OwnShape says that a connection which exists belongs to one  *)
(* context or lies in the pool once, StageShape and OrderShape what has     *)
(* been answered of a request and how m_scheduled counts, and WatchShape    *)
(* that the timer ends whatever the network does not.                      *)
(***************************************************************************)
EXTENDS HttpClient, FiniteSetTheorems, SequenceTheorems, TLAPS

\* The types of what owns connections.
OwnTypes ==
  /\ conn \in [Requests -> Conns \cup {NoConn}]
  /\ conns \in [Conns -> Connection]
  /\ pool \in [idle     : Seq([conn : Conns, fresh : BOOLEAN]),
               released : BOOLEAN, ticking : BOOLEAN]

\* What a context or the pool has is a connection that exists, and nobody else's.
OwnShape ==
  /\ NoSharing
  /\ \A r \in Requests : Live(r) => conns[conn[r]].sock # "none"
  /\ \A c \in Idle : conns[c].sock # "none"

OwnInv == OwnTypes /\ OwnShape /\ PoolSorted

----------------------------------------------------------------------------
(* Who owns a connection *)

\* A step that gives no connection to anybody and ends none.
Touches ==
  /\ UNCHANGED <<conn, pool>>
  /\ conns' \in [Conns -> Connection]
  /\ \A c \in Conns : conns[c].sock # "none" => conns'[c].sock # "none"

\* A step by which a context gets another connection, and may end the one it had.
Takes(r) ==
  /\ CanObtain
  /\ conn' = [conn EXCEPT ![r] = Obtained.conn]
  /\ pool' = Obtained.pool
  /\ conns' \in [Conns -> Connection]
  /\ \A c \in Conns : c # conn[r] /\ Obtained.conns[c].sock # "none" =>
                        conns'[c].sock # "none"

\* The idle connections are a sequence of connections.
Entries == [conn : Conns, fresh : BOOLEAN]

LEMMA IdleEntries ==
  ASSUME OwnTypes
  PROVE  /\ pool.idle \in Seq(Entries) /\ Len(pool.idle) \in Nat
         /\ DOMAIN pool.idle = 1..Len(pool.idle)
         /\ \A i \in 1..Len(pool.idle) :
              pool.idle[i] \in Entries /\ pool.idle[i].conn \in Conns
         /\ pool.idle = <<>> \/ Len(pool.idle) > 0
<1>1. pool.idle \in Seq(Entries)
  BY DEF OwnTypes, Entries
<1>2. Len(pool.idle) \in Nat /\ DOMAIN pool.idle = 1..Len(pool.idle)
  BY <1>1
<1>3. \A i \in 1..Len(pool.idle) : pool.idle[i] \in Entries
  BY <1>1
<1>4. pool.idle = <<>> \/ Len(pool.idle) > 0
  BY <1>1
<1> QED
  BY <1>1, <1>2, <1>3, <1>4 DEF Entries

\* Closing a connection, or connecting it, leaves it one that exists.
LEMMA ClosedExists ==
  ASSUME NEW c \in Connection
  PROVE  /\ Closed(c) \in Connection /\ Closed(c).sock # "none"
         /\ Connecting(c) \in Connection /\ Connecting(c).sock # "none"
  BY DEF Closed, Connecting, Connection

\* So does closing the connection of a context, which may have none.
LEMMA CloseTouches ==
  ASSUME OwnTypes, NEW r \in Requests, UNCHANGED <<conn, pool>>,
         conns' = [conns EXCEPT ![conn[r]] = Closed(@)]
  PROVE  Touches
  BY ClosedExists DEF Touches, OwnTypes

\* What fails or completes closes its connection at most.
LEMMA EndTouches ==
  ASSUME OwnTypes, NEW r \in Requests,
         (\E err : Fail(r, err)) \/ Complete(r)
  PROVE  Touches
<1>1. CASE \E err : Fail(r, err)
  BY <1>1, CloseTouches DEF Fail
<1>2. CASE Complete(r)
  BY <1>2 DEF Complete, Touches, OwnTypes
<1> QED
  BY <1>1, <1>2

\* obtain_connection answers with a connection that nobody has.
LEMMA ObtainedIsFree ==
  ASSUME OwnInv, CanObtain
  PROVE  /\ Obtained.conn \in Conns
         /\ \A q \in Requests : conn[q] # Obtained.conn
         /\ Obtained.conns \in [Conns -> Connection]
         /\ Obtained.conns[Obtained.conn].sock # "none"
         /\ \A c \in Conns : conns[c].sock # "none" => Obtained.conns[c].sock # "none"
         /\ Obtained.pool \in [idle     : Seq([conn : Conns, fresh : BOOLEAN]),
                               released : BOOLEAN, ticking : BOOLEAN]
         /\ Len(Obtained.pool.idle) =< Len(pool.idle)
         /\ \A i \in 1..Len(Obtained.pool.idle) :
              /\ Obtained.pool.idle[i] = pool.idle[i]
              /\ pool.idle[i].conn # Obtained.conn
<1> USE ClientAssumption DEF OwnInv, OwnTypes, OwnShape, NoSharing, Idle
<1>1. CASE pool.idle # <<>>
  <2> DEFINE n == Len(pool.idle)
             c == pool.idle[n].conn
  <2>0. pool.idle \in Seq(Entries) /\ n \in Nat /\ n > 0 /\ DOMAIN pool.idle = 1..n
        /\ \A i \in 1..n : pool.idle[i].conn \in Conns
    BY <1>1, IdleEntries
  <2>1. n \in DOMAIN pool.idle
    BY <2>0
  <2>2. c \in Conns /\ conns[c].sock # "none"
    BY <2>0, <2>1
  <2>3. Obtained = [conn |-> c, conns |-> [conns EXCEPT ![c].reused = TRUE],
                    pool |-> [pool EXCEPT !.idle = SubSeq(@, 1, Len(@) - 1)]]
    BY <1>1 DEF Obtained
  <2>4. /\ SubSeq(pool.idle, 1, n - 1) \in Seq(Entries)
        /\ Len(SubSeq(pool.idle, 1, n - 1)) = n - 1
        /\ \A i \in 1..n - 1 : SubSeq(pool.idle, 1, n - 1)[i] = pool.idle[i]
    <3> DEFINE e == SubSeq(pool.idle, 1, n - 1)
    <3>1. n - 1 \in Int /\ 1 \in Int /\ \A i \in 1..n - 1 : pool.idle[i] \in Entries
      BY <2>0, IdleEntries
    <3>2. /\ e \in Seq(Entries)
          /\ Len(e) = (IF 1 =< n - 1 THEN n - 1 - 1 + 1 ELSE 0)
          /\ \A i \in 1..n - 1 - 1 + 1 : e[i] = pool.idle[1 + i - 1]
      BY <3>1, SubSeqProperties
    <3> HIDE DEF e
    <3>3. Len(e) = n - 1 /\ \A i \in 1..n - 1 : e[i] = pool.idle[i]
      <4> HIDE DEF n
      <4> QED
        BY <2>0, <3>2
    <3> QED
      BY <3>2, <3>3 DEF e
  <2>5. [conns EXCEPT ![c].reused = TRUE] \in [Conns -> Connection]
    BY <2>2 DEF Connection
  <2>6. \A d \in Conns : [conns EXCEPT ![c].reused = TRUE][d].sock = conns[d].sock
    BY <2>2 DEF Connection
  <2>7. \A i \in 1..n - 1 : pool.idle[i].conn # c
    BY <2>0, <2>1
  <2>8. \A q \in Requests : conn[q] # c
    BY <2>1
  <2>9. /\ Obtained.conn = c
        /\ Obtained.conns = [conns EXCEPT ![c].reused = TRUE]
        /\ Obtained.pool.idle = SubSeq(pool.idle, 1, n - 1)
        /\ Obtained.pool \in [idle     : Seq([conn : Conns, fresh : BOOLEAN]),
                              released : BOOLEAN, ticking : BOOLEAN]
    BY <2>3, <2>4 DEF Entries
  <2> HIDE DEF n, c
  <2> QED
    BY <2>0, <2>2, <2>4, <2>5, <2>6, <2>7, <2>8, <2>9 DEF n
<1>2. CASE pool.idle = <<>>
  <2> DEFINE c == CHOOSE c \in Conns : conns[c].sock = "none"
  <2>1. c \in Conns /\ conns[c].sock = "none"
    BY <1>2 DEF CanObtain
  <2>2. Obtained = [conn |-> c, conns |-> [conns EXCEPT ![c] = NewConnection],
                    pool |-> pool]
    BY <1>2 DEF Obtained
  <2> HIDE DEF c
  <2>3. \A q \in Requests : conn[q] # c
    BY <2>1 DEF Live
  <2>4. NewConnection \in Connection /\ NewConnection.sock # "none"
    BY DEF NewConnection, Connection
  <2> QED
    BY <1>2, <2>1, <2>2, <2>3, <2>4
<1> QED
  BY <1>1, <1>2

\* A step that gives no connection to anybody preserves OwnInv.
LEMMA TouchKeeps == OwnInv /\ Touches => OwnInv'
<1> SUFFICES ASSUME OwnInv, Touches
             PROVE  OwnInv'
  OBVIOUS
<1> USE DEF OwnInv, Touches
<1>1. OwnTypes' /\ PoolSorted' /\ NoSharing'
  BY DEF OwnTypes, OwnShape, PoolSorted, NoSharing, Idle, Live
<1>2. \A r \in Requests : Live(r)' => conns'[conn'[r]].sock # "none"
  BY DEF OwnTypes, OwnShape, Live
<1>3. \A c \in Idle' : conns'[c].sock # "none"
  BY IdleEntries DEF OwnShape, Idle
<1> QED
  BY <1>1, <1>2, <1>3 DEF OwnShape

\* A context that takes what obtain_connection answers preserves OwnInv.
LEMMA TakeKeeps ==
  ASSUME OwnInv, NEW r \in Requests, Takes(r)
  PROVE  OwnInv'
<1> DEFINE o == Obtained
<1>0. CanObtain /\ conn' = [conn EXCEPT ![r] = o.conn] /\ pool' = o.pool
  BY DEF Takes
<1>1. /\ o.conn \in Conns
      /\ \A q \in Requests : conn[q] # o.conn
      /\ o.conns[o.conn].sock # "none"
      /\ \A c \in Conns : conns[c].sock # "none" => o.conns[c].sock # "none"
      /\ o.pool \in [idle     : Seq([conn : Conns, fresh : BOOLEAN]),
                     released : BOOLEAN, ticking : BOOLEAN]
      /\ Len(o.pool.idle) =< Len(pool.idle)
      /\ \A i \in 1..Len(o.pool.idle) :
           o.pool.idle[i] = pool.idle[i] /\ pool.idle[i].conn # o.conn
  BY <1>0, ObtainedIsFree
<1>2. conns' \in [Conns -> Connection]
      /\ \A c \in Conns : c # conn[r] /\ o.conns[c].sock # "none" => conns'[c].sock # "none"
  BY DEF Takes
<1> HIDE DEF o
<1> USE ClientAssumption DEF OwnInv, OwnTypes
<1>3. OwnTypes'
  BY <1>0, <1>1, <1>2
<1>11. \A i \in DOMAIN pool.idle : pool.idle[i].conn \in Conns
  BY IdleEntries
<1>4. /\ Len(pool'.idle) \in Nat /\ Len(pool.idle) \in Nat
      /\ DOMAIN pool'.idle = 1..Len(pool'.idle)
      /\ DOMAIN pool.idle = 1..Len(pool.idle)
      /\ Len(pool'.idle) =< Len(pool.idle)
      /\ \A i \in 1..Len(pool'.idle) :
           i \in 1..Len(pool.idle) /\ pool'.idle[i] = pool.idle[i]
           /\ pool.idle[i].conn # o.conn
  BY <1>0, <1>1
<1>5. \A i \in DOMAIN pool'.idle :
        i \in DOMAIN pool.idle /\ pool'.idle[i] = pool.idle[i] /\ pool.idle[i].conn # o.conn
  BY <1>4
<1>6. PoolSorted'
  BY <1>4, <1>5 DEF PoolSorted
<1>7. \A q \in Requests : conn'[q] = IF q = r THEN o.conn ELSE conn[q]
  BY <1>0
<1>8. NoSharing'
  BY <1>1, <1>5, <1>7 DEF OwnShape, NoSharing, Idle, Live
<1>9. \A q \in Requests : Live(q)' => conns'[conn'[q]].sock # "none"
  BY <1>1, <1>2, <1>7 DEF OwnShape, NoSharing, Live
<1>10. \A c \in Idle' : conns'[c].sock # "none"
  <2> SUFFICES ASSUME NEW i \in DOMAIN pool'.idle
               PROVE  conns'[pool'.idle[i].conn].sock # "none"
    BY DEF Idle
  <2>1. pool.idle[i].conn \in Conns /\ pool.idle[i].conn \in Idle
    BY <1>5, <1>11 DEF Idle
  <2> QED
    BY <2>1, <1>1, <1>2, <1>5 DEF OwnShape, NoSharing
<1> QED
  BY <1>3, <1>6, <1>8, <1>9, <1>10 DEF OwnShape

\* A context that is destroyed gives its connection to the pool or ends it.
LEMMA DestroyKeeps ==
  ASSUME OwnInv, NEW r \in Requests, Destroy(r)
  PROVE  OwnInv'
<1> USE ClientAssumption
<1> DEFINE c == conn[r]
           entry == [conn |-> c, fresh |-> TRUE]
<1>1. /\ c \in Conns /\ conns[c].sock # "none"
      /\ \A q \in Requests : conn'[q] = IF q = r THEN NoConn ELSE conn[q]
      /\ conn' \in [Requests -> Conns \cup {NoConn}]
  BY DEF Destroy, OwnInv, OwnTypes, OwnShape, Live
<1>2. /\ \A q \in Requests : q # r => conn[q] # c
      /\ \A i \in 1..Len(pool.idle) : pool.idle[i].conn # c
  BY <1>1, IdleEntries DEF OwnInv, OwnShape, NoSharing, Live, Idle
<1>3. CASE conns[c].keep
  <2>1. conns' = conns /\ pool' = [idle |-> Append(pool.idle, entry), released |-> TRUE,
                                   ticking |-> TRUE]
    BY <1>3 DEF Destroy, Pooled
  <2>2. entry \in Entries
    BY <1>1 DEF Entries
  <2>3. /\ pool.idle \in Seq(Entries) /\ Len(pool.idle) \in Nat
        /\ DOMAIN pool.idle = 1..Len(pool.idle)
        /\ \A i \in 1..Len(pool.idle) : pool.idle[i].conn \in Conns
    BY IdleEntries DEF OwnInv
  <2>4. /\ Append(pool.idle, entry) \in Seq(Entries)
        /\ DOMAIN Append(pool.idle, entry) = 1..(Len(pool.idle) + 1)
        /\ \A i \in 1..(Len(pool.idle) + 1) :
             Append(pool.idle, entry)[i] =
               IF i = Len(pool.idle) + 1 THEN entry ELSE pool.idle[i]
    <3> HIDE DEF entry
    <3> QED
      BY <2>2, <2>3
  <2>5. pool'.idle \in Seq(Entries) /\ pool'.released \in BOOLEAN /\ pool'.ticking \in BOOLEAN
    BY <2>1, <2>4
  <2>6. DOMAIN pool'.idle = 1..(Len(pool.idle) + 1)
        /\ \A i \in 1..(Len(pool.idle) + 1) :
             pool'.idle[i] = IF i = Len(pool.idle) + 1 THEN entry ELSE pool.idle[i]
    BY <2>1, <2>4
  <2>7. OwnTypes'
    BY <2>1, <2>4, <1>1 DEF OwnInv, OwnTypes, Entries
  <2>8. PoolSorted'
    BY <2>3, <2>6 DEF OwnInv, PoolSorted
  <2>9. NoSharing'
    <3>1. \A q, x \in Requests : q # x /\ Live(q)' => conn'[q] # conn'[x]
      BY <1>1 DEF OwnInv, OwnShape, NoSharing, Live
    <3>2. \A q \in Requests : \A i \in 1..(Len(pool.idle) + 1) : conn'[q] # pool'.idle[i].conn
      BY <1>1, <1>2, <2>3, <2>6 DEF OwnInv, OwnShape, NoSharing, Idle
    <3>3. \A i, j \in 1..(Len(pool.idle) + 1) :
            pool'.idle[i].conn = pool'.idle[j].conn => i = j
      <4>1. \A i \in 1..Len(pool.idle) : i # Len(pool.idle) + 1 /\ i \in 1..(Len(pool.idle) + 1)
                                           /\ pool'.idle[i].conn = pool.idle[i].conn
                                           /\ pool.idle[i].conn # c
        BY <1>2, <2>3, <2>6
      <4>2. pool'.idle[Len(pool.idle) + 1].conn = c
        BY <2>3, <2>6
      <4>3. \A i \in 1..(Len(pool.idle) + 1) : i \in 1..Len(pool.idle) \/ i = Len(pool.idle) + 1
        BY <2>3
      <4>4. \A i, j \in 1..Len(pool.idle) : pool.idle[i].conn = pool.idle[j].conn => i = j
        BY <2>3 DEF OwnInv, OwnShape, NoSharing
      <4> HIDE DEF c, entry
      <4> QED
        BY <4>1, <4>2, <4>3, <4>4
    <3> QED
      BY <2>6, <3>1, <3>2, <3>3 DEF NoSharing, Idle
  <2>10. /\ \A q \in Requests : Live(q)' => conns'[conn'[q]].sock # "none"
         /\ \A d \in Idle' : conns'[d].sock # "none"
    BY <1>1, <2>1, <2>3, <2>6 DEF OwnInv, OwnShape, Live, Idle
  <2> QED
    BY <2>7, <2>8, <2>9, <2>10 DEF OwnInv, OwnShape
<1>4. CASE ~conns[c].keep
  <2>1. pool' = pool /\ conns' = [conns EXCEPT ![c] = NoConnection]
    BY <1>4 DEF Destroy
  <2>2. NoConnection \in Connection
    BY DEF NoConnection, Connection
  <2>3. OwnTypes' /\ PoolSorted'
    BY <1>1, <2>1, <2>2 DEF OwnInv, OwnTypes, PoolSorted
  <2>4. NoSharing'
    BY <1>1, <2>1, IdleEntries DEF OwnInv, OwnShape, NoSharing, Idle, Live
  <2>5. /\ \A q \in Requests : Live(q)' => conns'[conn'[q]].sock # "none"
        /\ \A d \in Idle' : conns'[d].sock # "none"
    BY <1>1, <1>2, <2>1, IdleEntries DEF OwnInv, OwnTypes, OwnShape, Live, Idle
  <2> QED
    BY <2>3, <2>4, <2>5 DEF OwnInv, OwnShape
<1> QED
  BY <1>3, <1>4

\* A set of positions that holds every position before one of its own reaches no
\* further than it has members.
LEMMA FrontLength ==
  ASSUME NEW n \in Nat, NEW S \in SUBSET (1..n),
         \A i \in S : \A j \in 1..i : j \in S
  PROVE  /\ Cardinality(S) \in 0..n
         /\ \A i \in S : i =< Cardinality(S)
<1>1. IsFiniteSet(1..n) /\ Cardinality(1..n) = n
  BY FS_Interval
<1>2. IsFiniteSet(S) /\ Cardinality(S) \in Nat /\ Cardinality(S) =< n
  <2>1. IsFiniteSet(S) /\ Cardinality(S) =< Cardinality(1..n)
    BY <1>1, FS_Subset, Zenon
  <2>2. Cardinality(S) \in Nat
    BY <2>1, FS_CardinalityType, Zenon
  <2> QED
    BY <1>1, <2>1, <2>2
<1>3. ASSUME NEW i \in S
      PROVE  i =< Cardinality(S)
  <2>1. IsFiniteSet(1..i) /\ Cardinality(1..i) = i
    BY FS_Interval
  <2>2. 1..i \subseteq S
    OBVIOUS
  <2> QED
    BY <1>2, <2>1, <2>2, FS_Subset
<1> QED
  BY <1>2, <1>3

\* The pool's timer drops what it ends.
LEMMA TickKeeps ==
  ASSUME OwnInv, EpochTick
  PROVE  OwnInv'
<1> USE ClientAssumption
<1> DEFINE L == Len(pool.idle)
           stale == {i \in 1..L : pool.released => \A j \in 1..i : ~pool.idle[j].fresh}
           n == Cardinality(stale)
           rest == SubSeq(pool.idle, n + 1, L)
<1>1. /\ pool.idle \in Seq(Entries) /\ L \in Nat /\ DOMAIN pool.idle = 1..L
      /\ \A i \in 1..L : pool.idle[i] \in Entries /\ pool.idle[i].conn \in Conns
  BY IdleEntries DEF OwnInv
<1>2. n \in 0..L /\ \A i \in stale : i =< n
  <2>1. stale \in SUBSET (1..L)
    OBVIOUS
  <2>2. \A i \in stale : \A j \in 1..i : j \in stale
    <3> SUFFICES ASSUME NEW i \in stale, NEW j \in 1..i
                 PROVE  j \in stale
      OBVIOUS
    <3>1. j \in 1..L /\ 1..j \subseteq 1..i
      BY <1>1
    <3> HIDE DEF L
    <3> QED
      BY <3>1
  <2> HIDE DEF stale, L
  <2> QED
    BY <1>1, <2>1, <2>2, FrontLength, Zenon
<1>3. /\ pool' = [idle |-> [i \in 1..Len(rest) |-> [rest[i] EXCEPT !.fresh = FALSE]],
                  released |-> FALSE, ticking |-> pool.released]
      /\ conns' = [c \in Conns |->
                     IF \E i \in stale : pool.idle[i].conn = c THEN NoConnection
                     ELSE conns[c]]
      /\ conn' = conn
  BY DEF EpochTick
<1>4. stale \subseteq 1..L
  OBVIOUS
<1> HIDE DEF stale, n, L
<1>5. rest \in Seq(Entries) /\ Len(rest) \in Nat /\ Len(rest) = L - n
      /\ \A i \in 1..(L - n) : rest[i] = pool.idle[n + i]
  <2>1. \A i \in (n + 1)..L : pool.idle[i] \in Entries
    BY <1>1, <1>2
  <2>2. /\ rest \in Seq(Entries)
        /\ Len(rest) = (IF n + 1 =< L THEN L - (n + 1) + 1 ELSE 0)
        /\ \A i \in 1..(L - (n + 1) + 1) : rest[i] = pool.idle[(n + 1) + i - 1]
    BY <2>1, <1>1, <1>2, SubSeqProperties
  <2> HIDE DEF rest
  <2> QED
    BY <1>1, <1>2, <2>2
<1> HIDE DEF rest
<1>6. /\ DOMAIN pool'.idle = 1..(L - n)
      /\ \A i \in 1..(L - n) :
           /\ n + i \in 1..L /\ n + i \notin stale
           /\ pool'.idle[i] \in Entries /\ ~pool'.idle[i].fresh
           /\ pool'.idle[i].conn = pool.idle[n + i].conn
  <2>1. \A i \in 1..(L - n) : n + i \in 1..L /\ n + i \notin stale
    BY <1>1, <1>2
  <2>2. DOMAIN pool'.idle = 1..(L - n)
        /\ \A i \in 1..(L - n) : pool'.idle[i] = [rest[i] EXCEPT !.fresh = FALSE]
    BY <1>3, <1>5
  <2>3. \A i \in 1..(L - n) : rest[i] \in Entries /\ rest[i] = pool.idle[n + i]
    BY <1>1, <1>5, <2>1
  <2> QED
    <3> SUFFICES ASSUME NEW i \in 1..(L - n)
                 PROVE  /\ n + i \in 1..L /\ n + i \notin stale
                        /\ pool'.idle[i] \in Entries /\ ~pool'.idle[i].fresh
                        /\ pool'.idle[i].conn = pool.idle[n + i].conn
      BY <2>2
    <3>1. n + i \in 1..L /\ n + i \notin stale
      BY <2>1
    <3>2. rest[i] \in Entries /\ rest[i] = pool.idle[n + i]
      BY <2>3
    <3>3. pool'.idle[i] = [rest[i] EXCEPT !.fresh = FALSE]
      BY <2>2
    <3>4. pool'.idle[i] = [conn |-> rest[i].conn, fresh |-> FALSE]
      BY <3>2, <3>3 DEF Entries
    <3>5. pool'.idle[i] \in Entries /\ ~pool'.idle[i].fresh
          /\ pool'.idle[i].conn = rest[i].conn
      BY <3>2, <3>4 DEF Entries
    <3> QED
      BY <3>1, <3>2, <3>5
<1>7. OwnTypes'
  <2>1. pool'.idle \in Seq(Entries)
    <3>0. pool'.idle = [i \in 1..Len(rest) |-> [rest[i] EXCEPT !.fresh = FALSE]]
      BY <1>3
    <3>1. \A i \in 1..Len(rest) : rest[i] \in Entries
      BY <1>5
    <3>2. \A i \in 1..Len(rest) : [rest[i] EXCEPT !.fresh = FALSE] \in Entries
      BY <3>1 DEF Entries
    <3>3. pool'.idle \in [1..Len(rest) -> Entries]
      BY <3>0, <3>2
    <3> QED
      BY <1>5, <3>3, SeqDef
  <2>2. conns' \in [Conns -> Connection]
    BY <1>3 DEF OwnInv, OwnTypes, NoConnection, Connection
  <2> QED
    BY <1>3, <2>1, <2>2 DEF OwnInv, OwnTypes, Entries
<1>8. PoolSorted'
  BY <1>6 DEF PoolSorted
<1>9. NoSharing'
  <2>1. \A q \in Requests : \A i \in 1..(L - n) : conn'[q] # pool'.idle[i].conn
    <3> SUFFICES ASSUME NEW q \in Requests, NEW i \in 1..(L - n)
                 PROVE  conn[q] # pool.idle[n + i].conn
      <4> HIDE DEF L
      <4> QED
        BY <1>3, <1>6, Zenon
    <3>1. n + i \in DOMAIN pool.idle
      BY <1>1, <1>6
    <3> QED
      BY <3>1 DEF OwnInv, OwnShape, NoSharing, Idle
  <2>2. \A i, j \in 1..(L - n) : pool'.idle[i].conn = pool'.idle[j].conn => i = j
    <3> SUFFICES ASSUME NEW i \in 1..(L - n), NEW j \in 1..(L - n),
                        pool'.idle[i].conn = pool'.idle[j].conn
                 PROVE  i = j
      OBVIOUS
    <3>1. n + i = n + j
      BY <1>1, <1>6 DEF OwnInv, OwnShape, NoSharing
    <3> QED
      BY <1>1, <1>2, <3>1
  <2>3. \A q, x \in Requests : q # x /\ Live(q)' => conn'[q] # conn'[x]
    BY <1>3 DEF OwnInv, OwnShape, NoSharing, Live
  <2> QED
    BY <1>6, <2>1, <2>2, <2>3 DEF NoSharing, Idle
<1>10. \A i \in 1..L : i \notin stale =>
         conns'[pool.idle[i].conn] = conns[pool.idle[i].conn]
  BY <1>1, <1>3, <1>4 DEF OwnInv, OwnShape, NoSharing
<1>11. \A d \in Idle' : conns'[d].sock # "none"
  BY <1>1, <1>6, <1>10 DEF OwnInv, OwnShape, Idle
<1>12. \A q \in Requests : Live(q)' => conns'[conn'[q]].sock # "none"
  BY <1>1, <1>3, <1>4 DEF OwnInv, OwnTypes, OwnShape, NoSharing, Live, Idle
<1> QED
  BY <1>7, <1>8, <1>9, <1>11, <1>12 DEF OwnInv, OwnShape

(* The steps *)

\* Every step of a context but Propagate, HandleConnectNext, Resend and Destroy.
Serves(r) ==
  \/ Start(r) \/ StartFails(r) \/ StartCanceled(r) \/ Register(r)
  \/ HandleResolve(r) \/ HandleResolveError(r)
  \/ HandleConnect(r) \/ HandleConnectAborted(r) \/ HandleConnectError(r)
  \/ HandleWrite(r) \/ HandleWriteThrows(r) \/ HandleWriteError(r)
  \/ HandleStatusInvalid(r) \/ ReadHeaders(r) \/ HandleStatusError(r)
  \/ HandleBody(r) \/ HandleBodyThrows(r) \/ HandleBodyError(r)
  \/ Timeout(r) \/ Cancel(r) \/ CancelCallback(r) \/ NetworkStep(r)

\* Setting another value for a connection that exists leaves the others.
LEMMA ChangeTouches ==
  ASSUME OwnTypes, NEW c, NEW v, UNCHANGED <<conn, pool>>,
         conns' = [conns EXCEPT ![c] = v],
         c \in Conns => v \in Connection /\ (conns[c].sock # "none" => v.sock # "none")
  PROVE  Touches
  BY DEF Touches, OwnTypes

\* None of those steps gives a connection to anybody or ends one.
LEMMA ServesTouches ==
  ASSUME OwnTypes, NEW r \in Requests, Serves(r)
  PROVE  Touches
<1>1. CASE \/ StartFails(r) \/ StartCanceled(r) \/ HandleResolveError(r)
           \/ HandleConnectAborted(r) \/ HandleConnectError(r)
           \/ HandleWriteThrows(r) \/ HandleWriteError(r) \/ HandleStatusInvalid(r)
           \/ HandleStatusError(r) \/ HandleBody(r) \/ HandleBodyThrows(r)
           \/ HandleBodyError(r)
  <2>1. (\E err : Fail(r, err)) \/ Complete(r)
    BY <1>1 DEF StartFails, StartCanceled, HandleResolveError, HandleConnectAborted,
                HandleConnectError, HandleWriteThrows, HandleWriteError,
                HandleStatusInvalid, HandleStatusError, HandleBody, HandleBodyThrows,
                HandleBodyError
  <2> QED
    BY <2>1, EndTouches
<1>2. CASE Start(r) \/ HandleConnect(r) \/ HandleWrite(r) \/ Cancel(r)
  BY <1>2 DEF Start, HandleConnect, HandleWrite, Cancel, Touches, OwnTypes
<1>3. CASE Register(r) \/ Timeout(r) \/ CancelCallback(r)
  <2>1. /\ UNCHANGED <<conn, pool>>
        /\ conns' = conns \/ conns' = [conns EXCEPT ![conn[r]] = Closed(@)]
    BY <1>3 DEF Register, Timeout, CancelCallback
  <2> QED
    BY <2>1, CloseTouches DEF Touches, OwnTypes
<1>4. CASE HandleResolve(r)
  <2>1. /\ UNCHANGED <<conn, pool>>
        /\ conns' = [conns EXCEPT ![conn[r]] =
                       IF timer[r] = "timedout" THEN Closed(Connecting(conns[conn[r]]))
                                                ELSE Connecting(conns[conn[r]])]
    BY <1>4 DEF HandleResolve
  <2>2. conn[r] \in Conns =>
          /\ Connecting(conns[conn[r]]) \in Connection
          /\ Connecting(conns[conn[r]]).sock # "none"
          /\ Closed(Connecting(conns[conn[r]])) \in Connection
          /\ Closed(Connecting(conns[conn[r]])).sock # "none"
    BY ClosedExists DEF OwnTypes
  <2> QED
    BY <2>1, <2>2, ChangeTouches
<1>5. CASE ReadHeaders(r)
  <2>1. PICK keep \in {"unsaid", "yes", "no"}, fails \in BOOLEAN :
          LET kept == IF keep = "unsaid" THEN conns[conn[r]]
                      ELSE [conns[conn[r]] EXCEPT !.keep = (keep = "yes")]
          IN /\ UNCHANGED <<conn, pool>>
             /\ conns' = [conns EXCEPT ![conn[r]] = IF fails THEN Closed(kept) ELSE kept]
    <3>1. PICK keep \in {"unsaid", "yes", "no"}, supported, bodyless, throws \in BOOLEAN :
            LET fails == ~supported \/ (bodyless /\ throws)
                kept == IF keep = "unsaid" THEN conns[conn[r]]
                        ELSE [conns[conn[r]] EXCEPT !.keep = (keep = "yes")]
            IN /\ Completed(r, "status", {"ok"})
               /\ conns' = [conns EXCEPT ![conn[r]] = IF fails THEN Closed(kept) ELSE kept]
               /\ outcome' = [outcome EXCEPT ![r] = "response"]
               /\ body' = [body EXCEPT ![r] =
                             CASE fails -> "error" [] bodyless -> "complete" [] OTHER -> @]
               /\ Finish(r, (IF supported THEN 0 ELSE 1) + (IF bodyless THEN 1 ELSE 0))
               /\ op' = [op EXCEPT ![r] = IF bodyless THEN NoOp ELSE Pending("body")]
               /\ unsupported' = IF supported THEN unsupported ELSE unsupported \cup {r}
               /\ UNCHANGED <<conn, timer, token, due, pool, lost>>
      BY <1>5 DEF ReadHeaders
    <3> DEFINE bad == ~supported \/ (bodyless /\ throws)
    <3>2. bad \in BOOLEAN
      OBVIOUS
    <3>3. LET kept == IF keep = "unsaid" THEN conns[conn[r]]
                      ELSE [conns[conn[r]] EXCEPT !.keep = (keep = "yes")]
          IN /\ UNCHANGED <<conn, pool>>
             /\ conns' = [conns EXCEPT ![conn[r]] = IF bad THEN Closed(kept) ELSE kept]
      BY <3>1, Zenon
    <3> HIDE DEF bad
    <3> QED
      BY <3>2, <3>3, Zenon
  <2> DEFINE kept == IF keep = "unsaid" THEN conns[conn[r]]
                     ELSE [conns[conn[r]] EXCEPT !.keep = (keep = "yes")]
  <2>2. conn[r] \in Conns =>
          kept \in Connection /\ kept.sock = conns[conn[r]].sock
    <3> SUFFICES ASSUME conn[r] \in Conns
                 PROVE  kept \in Connection /\ kept.sock = conns[conn[r]].sock
      OBVIOUS
    <3> DEFINE c == conns[conn[r]]
               v == keep = "yes"
    <3>1. c \in Connection /\ v \in BOOLEAN
      BY DEF OwnTypes
    <3>2. kept = IF keep = "unsaid" THEN c ELSE [c EXCEPT !.keep = v]
      OBVIOUS
    <3> HIDE DEF c, v, kept
    <3>3. [c EXCEPT !.keep = v] \in Connection /\ [c EXCEPT !.keep = v].sock = c.sock
      BY <3>1 DEF Connection
    <3> QED
      BY <3>1, <3>2, <3>3 DEF c
  <2>3. conn[r] \in Conns => Closed(kept) \in Connection /\ Closed(kept).sock # "none"
    BY <2>2, ClosedExists
  <2> HIDE DEF kept
  <2>4. conns' = [conns EXCEPT ![conn[r]] = IF fails THEN Closed(kept) ELSE kept]
    BY <2>1 DEF kept
  <2> QED
    BY <2>1, <2>2, <2>3, <2>4, ChangeTouches
<1>6. CASE NetworkStep(r)
  <2>1. /\ UNCHANGED <<conn, pool>>
        /\ conns' = conns \/ conns' = [conns EXCEPT ![conn[r]].sock = "open"]
    BY <1>6 DEF NetworkStep, Network
  <2> QED
    BY <2>1 DEF Touches, OwnTypes, Connection
<1> QED
  BY <1>1, <1>2, <1>3, <1>4, <1>5, <1>6 DEF Serves

\* propagate(), the next address and the request sent again obtain a connection.
LEMMA ObtainTakes ==
  ASSUME OwnInv, NEW r \in Requests,
         Propagate(r) \/ HandleConnectNext(r) \/ Resend(r)
  PROVE  Takes(r)
<1> DEFINE o == Obtained
<1>1. CanObtain /\ conn' = [conn EXCEPT ![r] = o.conn] /\ pool' = o.pool
  BY DEF Propagate, HandleConnectNext, Resend
<1>2. o.conn \in Conns /\ o.conns \in [Conns -> Connection]
      /\ conn[r] # o.conn
  BY <1>1, ObtainedIsFree
<1>3. NoConnection \in Connection
  BY DEF NoConnection, Connection
<1>4. CASE conns' = o.conns
  BY <1>1, <1>2, <1>4 DEF Takes
<1>5. CASE conns' = [o.conns EXCEPT ![o.conn] = Connecting(@), ![conn[r]] = NoConnection]
  <2>1. Connecting(o.conns[o.conn]) \in Connection
        /\ Connecting(o.conns[o.conn]).sock # "none"
    BY <1>2, ClosedExists
  <2> HIDE DEF o
  <2>2. /\ conns' \in [Conns -> Connection]
        /\ \A c \in Conns : c # conn[r] /\ o.conns[c].sock # "none" =>
                              conns'[c].sock # "none"
    BY <1>2, <1>3, <1>5, <2>1
  <2> QED
    BY <1>1, <2>2 DEF Takes, o
<1>6. CASE conns' = [o.conns EXCEPT ![conn[r]] = NoConnection]
  <2> HIDE DEF o
  <2>1. /\ conns' \in [Conns -> Connection]
        /\ \A c \in Conns : c # conn[r] /\ o.conns[c].sock # "none" =>
                              conns'[c].sock # "none"
    BY <1>2, <1>3, <1>6
  <2> QED
    BY <1>1, <2>1 DEF Takes, o
<1> QED
  BY <1>4, <1>5, <1>6 DEF Propagate, HandleConnectNext, Resend

\* OwnInv holds initially, and every step preserves it.
LEMMA OwnInvHolds == Spec => []OwnInv
<1>1. Init => OwnInv
  <2> SUFFICES ASSUME Init
               PROVE  OwnInv
    OBVIOUS
  <2> USE ClientAssumption DEF Init
  <2>1. pool.idle = <<>> /\ pool.idle \in Seq(Entries) /\ DOMAIN pool.idle = {}
    OBVIOUS
  <2>2. OwnTypes
    BY <2>1 DEF OwnTypes, NoConnection, Connection, Entries
  <2> QED
    BY <2>1, <2>2 DEF OwnInv, OwnShape, NoSharing, Live, Idle, PoolSorted
<1>2. OwnInv /\ [Next]_vars => OwnInv'
  <2> SUFFICES ASSUME OwnInv, [Next]_vars
               PROVE  OwnInv'
    OBVIOUS
  <2>1. CASE \E r \in Requests : Serves(r)
    BY <2>1, ServesTouches, TouchKeeps DEF OwnInv
  <2>2. CASE \E r \in Requests : Propagate(r) \/ HandleConnectNext(r) \/ Resend(r)
    BY <2>2, ObtainTakes, TakeKeeps
  <2>3. CASE \E r \in Requests : Destroy(r)
    BY <2>3, DestroyKeeps
  <2>4. CASE EpochTick
    BY <2>4, TickKeeps
  <2>5. CASE UNCHANGED vars
    BY <2>5, TouchKeeps DEF vars, Touches, OwnInv, OwnTypes
  <2> QED
    BY <2>1, <2>2, <2>3, <2>4, <2>5 DEF Next, Handle, Serves
<1> QED
  BY <1>1, <1>2, PTL DEF Spec

\* A connection serves one request at a time, however requests, timeouts,
\* cancellations, retries and the pool's timer follow each other.
THEOREM ConnectionsNotShared == Spec => []NoSharing
  BY OwnInvHolds, PTL DEF OwnInv, OwnShape

\* The pool stays sorted by epoch, which is what its timer relies on to drop no
\* more than the connections that were idle for a whole period.
THEOREM PoolStaysSorted == Spec => []PoolSorted
  BY OwnInvHolds, PTL DEF OwnInv

----------------------------------------------------------------------------
(* What a request has been through *)

\* The types of everything else.
ServeTypes ==
  /\ order \in BOOLEAN
  /\ scheduled \in Int
  /\ queue \in Seq(Requests)
  /\ phase \in [Requests -> Phase]
  /\ op \in [Requests -> Op]
  /\ timer \in [Requests -> {"created", "started", "timedout", "stopped"}]
  /\ token \in [Requests -> {"none", "live", "canceled"}]
  /\ due \in [Requests -> BOOLEAN]
  /\ reg \in [Requests -> {"none", "yes", "stale", "gone"}]
  /\ outcome \in [Requests -> {"none", "response", "canceled", "timedout", "error"}]
  /\ body \in [Requests -> {"none", "complete", "error"}]
  /\ finishes \in [Requests -> Nat]
  /\ unsupported \subseteq Requests
  /\ lost \subseteq Requests

\* What is in the queue waits, and is there once.
QueueShape ==
  /\ \A i \in 1..Len(queue) : phase[queue[i]] = "queued"
  /\ \A i, j \in 1..Len(queue) : queue[i] = queue[j] => i = j

\* What has been answered of a request in a phase.
Fits(p, k, told, whole, n) ==
  /\ p \in {"unsent", "queued", "ready"} => n = 0 /\ told = "none" /\ whole = "none"
  /\ p = "active" => /\ k # "none" /\ n = 0 /\ whole = "none"
                     /\ told = IF k = "body" THEN "response" ELSE "none"
  /\ p = "done" => k = "none" /\ n = 1 /\ told # "none" /\ whole # "none"

StageShape ==
  \A r \in Requests :
    /\ phase[r] \in {"unsent", "queued", "ready"} => op[r].kind = "none"
    /\ op[r].kind = "none" => op[r] = NoOp
    /\ r \notin unsupported =>
         Fits(phase[r], op[r].kind, outcome[r], body[r], finishes[r])

\* One request under way, or nothing scheduled.
OneScheduled ==
  \/ Underway = {} /\ queue = <<>> /\ scheduled = 0
  \/ \E r \in Requests : Underway = {r} /\ scheduled = 1 + Len(queue)

OrderShape == order /\ unsupported = {} => OneScheduled

ServeInv == ServeTypes /\ QueueShape /\ StageShape /\ OrderShape

\* A step that moves a request on to the next operation at most.
Moves ==
  /\ UNCHANGED <<order, scheduled, queue, phase, outcome, body, finishes, unsupported>>
  /\ op' \in [Requests -> Op]
  /\ \A q \in Requests :
       \/ op'[q] = op[q]
       \/ /\ op[q].kind # "none" /\ op'[q].kind # "none"
          /\ op[q].kind = "body" <=> op'[q].kind = "body"
  /\ timer' \in [Requests -> {"created", "started", "timedout", "stopped"}]
  /\ token' \in [Requests -> {"none", "live", "canceled"}]
  /\ due' \in [Requests -> BOOLEAN]
  /\ reg' \in [Requests -> {"none", "yes", "stale", "gone"}]
  /\ lost' \subseteq Requests

LEMMA MoveKeeps ==
  ASSUME ServeInv, Moves
  PROVE  ServeInv'
<1> USE DEF ServeInv, Moves
<1>1. ServeTypes'
  BY DEF ServeTypes
<1>2. QueueShape' /\ OrderShape'
  BY DEF QueueShape, OrderShape, OneScheduled, Underway
<1>3. StageShape'
  <2> SUFFICES ASSUME NEW q \in Requests
               PROVE  /\ phase'[q] \in {"unsent", "queued", "ready"} => op'[q].kind = "none"
                      /\ op'[q].kind = "none" => op'[q] = NoOp
                      /\ q \notin unsupported' =>
                           Fits(phase'[q], op'[q].kind, outcome'[q], body'[q], finishes'[q])
    BY DEF StageShape, Fits
  <2>1. CASE op'[q] = op[q]
    BY <2>1 DEF StageShape
  <2>2. CASE /\ op[q].kind # "none" /\ op'[q].kind # "none"
             /\ op[q].kind = "body" <=> op'[q].kind = "body"
    BY <2>2 DEF StageShape, Fits
  <2> QED
    BY <2>1, <2>2
<1> QED
  BY <1>1, <1>2, <1>3

\* An operation that completes is still the same operation.
LEMMA OpCompletes ==
  ASSUME NEW o \in Op, NEW res \in {"ok", "failed", "eof", "aborted"}
  PROVE  [o EXCEPT !.res = res] \in Op /\ [o EXCEPT !.res = res].kind = o.kind
  BY DEF Op

\* The steps that end no operation of a request, and those that start the next.
LEMMA QuietMoves ==
  ASSUME ServeInv, NEW r \in Requests,
         \/ Register(r) \/ Timeout(r) \/ Cancel(r) \/ CancelCallback(r) \/ Destroy(r)
         \/ HandleResolve(r) \/ HandleConnect(r) \/ HandleConnectNext(r) \/ HandleWrite(r)
         \/ NetworkStep(r)
  PROVE  Moves
<1>0. \A q \in Requests : op[q].kind = "none" => op[q].res = "none"
  BY DEF ServeInv, StageShape, NoOp
<1> USE ClientAssumption DEF ServeInv, ServeTypes, Moves, orderVars, tokenVars, answerVars, historyVars
<1>1. CASE Register(r) \/ Timeout(r) \/ Cancel(r) \/ CancelCallback(r) \/ Destroy(r)
  <2>1. CASE Register(r) \/ CancelCallback(r)
    BY <2>1 DEF Register, CancelCallback
  <2>2. CASE Timeout(r) \/ Cancel(r)
    BY <2>2 DEF Timeout, Cancel
  <2>3. CASE Destroy(r)
    BY <2>3 DEF Destroy
  <2> QED
    BY <1>1, <2>1, <2>2, <2>3
<1>2. CASE HandleResolve(r)
  <2>1. PICK left \in 0..(MaxEndpoints - 1) :
          /\ op[r].kind = "resolve"
          /\ op' = [op EXCEPT ![r] = [Pending("connect") EXCEPT !.left = left]]
          /\ UNCHANGED <<orderVars, conn, timer, tokenVars, pool, answerVars, historyVars>>
    BY <1>2 DEF HandleResolve, Completed
  <2>2. [Pending("connect") EXCEPT !.left = left] \in Op
        /\ [Pending("connect") EXCEPT !.left = left].kind = "connect"
    BY DEF Op, Pending
  <2> QED
    BY <2>1, <2>2
<1>3. CASE HandleConnect(r) \/ HandleWrite(r)
  <2>1. PICK k \in {"write", "status"} :
          /\ op[r].kind \in {"connect", "write"}
          /\ op' = [op EXCEPT ![r] = Pending(k)]
          /\ UNCHANGED <<orderVars, conn, timer, tokenVars, pool, answerVars, historyVars>>
    BY <1>3 DEF HandleConnect, HandleWrite, Completed
  <2>2. Pending(k) \in Op /\ Pending(k).kind = k
    BY DEF Op, Pending
  <2> QED
    BY <2>1, <2>2
<1>4. CASE HandleConnectNext(r)
  <2>1. /\ op[r].kind = "connect" /\ op[r].left > 0
        /\ op' = [op EXCEPT ![r].left = @ - 1, ![r].res = "pending"]
        /\ lost' \subseteq Requests
        /\ UNCHANGED <<orderVars, timer, tokenVars, answerVars, unsupported>>
    BY <1>4 DEF HandleConnectNext, Completed
  <2> DEFINE e == [op[r] EXCEPT !.left = @ - 1, !.res = "pending"]
  <2>2. e \in Op /\ e.kind = "connect"
    <3>1. op[r] \in Op /\ op[r].left \in 0..MaxEndpoints
      BY DEF Op
    <3>2. op[r].left - 1 \in 0..MaxEndpoints
      BY <2>1, <3>1
    <3> QED
      BY <2>1, <3>1, <3>2 DEF Op
  <2>4. op' = [op EXCEPT ![r] = e]
    BY <2>1
  <2> HIDE DEF e
  <2>3. /\ op' \in [Requests -> Op] /\ op'[r].kind = "connect"
        /\ \A q \in Requests : q # r => op'[q] = op[q]
    BY <2>2, <2>4
  <2> QED
    BY <2>1, <2>3
<1>5. CASE NetworkStep(r)
  <2>1. PICK res \in {"ok", "failed", "eof", "aborted"} :
          /\ op[r].res = "pending" /\ op' = [op EXCEPT ![r].res = res]
          /\ UNCHANGED <<orderVars, conn, timer, tokenVars, pool, answerVars, historyVars>>
    BY <1>5 DEF NetworkStep, Network
  <2> DEFINE e == [op[r] EXCEPT !.res = res]
  <2>4. op' = [op EXCEPT ![r] = e] /\ e \in Op /\ e.kind = op[r].kind
    <3>1. op[r] \in Op
      BY Zenon
    <3> QED
      BY <2>1, <3>1, OpCompletes, Zenon
  <2> HIDE DEF e
  <2>2. op[r].kind # "none"
    BY <1>0, <2>1, Zenon
  <2>3. op' \in [Requests -> Op] /\ op'[r].kind = op[r].kind
    <3>1. op \in [Requests -> Op]
      OBVIOUS
    <3>2. op'[r] = e
      BY <2>4, <3>1, Zenon
    <3>3. op' \in [Requests -> Op]
      BY <2>4, <3>1, Zenon
    <3> QED
      BY <2>4, <3>2, <3>3
  <2>5. \A q \in Requests : q # r => op'[q] = op[q]
    BY <2>4
  <2> QED
    BY <2>1, <2>2, <2>3, <2>5
<1> QED
  BY <1>1, <1>2, <1>3, <1>4, <1>5

\* A connection is written to at once if it is from the pool, else resolved.
LEMMA StartKeeps ==
  ASSUME ServeInv, NEW r \in Requests, Start(r)
  PROVE  ServeInv'
<1> USE DEF ServeInv, ServeTypes
<1>1. PICK k \in {"write", "resolve"} :
        /\ phase[r] = "ready"
        /\ phase' = [phase EXCEPT ![r] = "active"]
        /\ timer' = [timer EXCEPT ![r] = "started"]
        /\ op' = [op EXCEPT ![r] = Pending(k)]
        /\ due' \in [Requests -> BOOLEAN]
        /\ UNCHANGED <<order, scheduled, queue, token, reg, answerVars, historyVars>>
  BY DEF Start
<1>2. Pending(k) \in Op /\ Pending(k).kind = k
  BY ClientAssumption DEF Op, Pending
<1> USE DEF answerVars, historyVars
<1>3. ServeTypes'
  BY <1>1, <1>2 DEF Phase
<1>4. QueueShape'
  BY <1>1 DEF QueueShape
<1>5. StageShape'
  BY <1>1, <1>2 DEF StageShape, Fits
<1>6. Underway' = Underway
  BY <1>1 DEF Underway
<1>7. OrderShape'
  BY <1>1, <1>6 DEF OrderShape, OneScheduled
<1> QED
  BY <1>3, <1>4, <1>5, <1>7

\* The context of a request that is sent again starts over.
LEMMA ResendKeeps ==
  ASSUME ServeInv, NEW r \in Requests, Resend(r)
  PROVE  ServeInv'
<1> USE DEF ServeInv, ServeTypes
<1>1. /\ op[r].kind = "status"
      /\ op' = [op EXCEPT ![r] = NoOp]
      /\ timer' = [timer EXCEPT ![r] = "created"]
      /\ phase' = [phase EXCEPT ![r] = "ready"]
      /\ due' = [due EXCEPT ![r] = FALSE]
      /\ reg' = [reg EXCEPT ![r] = IF @ = "yes" THEN "stale" ELSE @]
      /\ UNCHANGED <<order, scheduled, queue, token, answerVars, historyVars>>
  BY DEF Resend, Completed
<1>2. NoOp \in Op /\ NoOp.kind = "none"
  BY ClientAssumption DEF Op, NoOp
<1>3. phase[r] \in {"active", "done"}
      /\ (r \notin unsupported => phase[r] = "active" /\ outcome[r] = "none"
                                  /\ body[r] = "none" /\ finishes[r] = 0)
  BY <1>1 DEF StageShape, Fits, Phase
<1> USE DEF answerVars, historyVars
<1>4. ServeTypes'
  BY <1>1, <1>2 DEF Phase
<1>5. QueueShape'
  BY <1>1, <1>3 DEF QueueShape
<1>6. StageShape'
  BY <1>1, <1>2, <1>3 DEF StageShape, Fits
<1>7. unsupported = {} => Underway' = Underway
  BY <1>1, <1>3 DEF Underway
<1>8. OrderShape'
  BY <1>1, <1>7 DEF OrderShape, OneScheduled
<1> QED
  BY <1>4, <1>5, <1>6, <1>8

\* A request is sent at once or queued.
LEMMA PropagateKeeps ==
  ASSUME ServeInv, NEW r \in Requests, Propagate(r)
  PROVE  ServeInv'
<1> USE DEF ServeInv, ServeTypes
<1>1. /\ phase[r] = "unsent" /\ PushRequest(r)
      /\ UNCHANGED <<order, op, timer, tokenVars, answerVars, historyVars>>
  BY DEF Propagate
<1> USE DEF answerVars, historyVars, tokenVars
<1>2. scheduled' = IF order THEN scheduled + 1 ELSE scheduled
  BY <1>1 DEF PushRequest
<1>3. CASE order /\ scheduled' # 1
  <2>1. queue' = Append(queue, r) /\ phase' = [phase EXCEPT ![r] = "queued"]
    BY <1>1, <1>3 DEF PushRequest
  <2>2. /\ queue' \in Seq(Requests) /\ Len(queue) \in Nat /\ Len(queue') = Len(queue) + 1
        /\ \A i \in 1..Len(queue) : queue'[i] = queue[i] /\ queue[i] # r
        /\ queue'[Len(queue) + 1] = r
    BY <1>1, <2>1 DEF QueueShape
  <2>3. ServeTypes'
    BY <1>1, <1>2, <2>1, <2>2 DEF Phase
  <2>4. \A i \in 1..Len(queue') : i \in 1..Len(queue) \/ i = Len(queue) + 1
    BY <2>2
  <2>5. QueueShape'
    <3>1. \A i \in 1..Len(queue') : phase'[queue'[i]] = "queued"
      BY <2>1, <2>2, <2>4 DEF QueueShape
    <3>2. \A i, j \in 1..Len(queue') : queue'[i] = queue'[j] => i = j
      BY <2>2, <2>4 DEF QueueShape
    <3> QED
      BY <3>1, <3>2 DEF QueueShape
  <2>6. StageShape'
    BY <1>1, <2>1 DEF StageShape, Fits
  <2>7. Underway' = Underway
    BY <1>1, <2>1 DEF Underway
  <2>8. OrderShape'
    <3> SUFFICES ASSUME order, unsupported = {}
                 PROVE  OneScheduled'
      BY <1>1 DEF OrderShape
    <3>1. scheduled # 0 /\ scheduled' = scheduled + 1
      BY <1>2, <1>3
    <3>2. PICK q \in Requests : Underway = {q} /\ scheduled = 1 + Len(queue)
      BY <3>1 DEF OrderShape, OneScheduled
    <3> QED
      BY <2>2, <2>7, <3>1, <3>2 DEF OneScheduled
  <2> QED
    BY <2>3, <2>5, <2>6, <2>8
<1>4. CASE ~(order /\ scheduled' # 1)
  <2>1. queue' = queue /\ phase' = [phase EXCEPT ![r] = "ready"]
    BY <1>1, <1>4 DEF PushRequest
  <2>2. ServeTypes'
    BY <1>1, <1>2, <2>1 DEF Phase
  <2>3. QueueShape'
    BY <1>1, <2>1 DEF QueueShape
  <2>4. StageShape'
    BY <1>1, <2>1 DEF StageShape, Fits
  <2>5. OrderShape'
    <3> SUFFICES ASSUME order, unsupported = {}
                 PROVE  OneScheduled'
      BY <1>1 DEF OrderShape
    <3>1. scheduled = 0 /\ scheduled' = 1 /\ Len(queue) \in Nat
      BY <1>2, <1>4
    <3>2. Underway = {} /\ queue = <<>>
      BY <3>1 DEF OrderShape, OneScheduled
    <3>3. Underway' = {r}
      BY <2>1, <3>2 DEF Underway
    <3> QED
      BY <2>1, <3>1, <3>2, <3>3 DEF OneScheduled
  <2> QED
    BY <2>2, <2>3, <2>4, <2>5
<1> QED
  BY <1>3, <1>4

\* finish_request, called n times for a request that is not queued.
LEMMA FinishRequestKeeps ==
  ASSUME ServeInv, NEW r \in Requests, NEW n \in {0, 1, 2}, phase[r] # "queued",
         FinishRequest(r, n)
  PROVE  /\ order' = order /\ scheduled' \in Int
         /\ queue' \in Seq(Requests) /\ phase' \in [Requests -> Phase]
         /\ QueueShape'
         /\ phase'[r] = IF n > 0 THEN "done" ELSE phase[r]
         /\ \A q \in Requests : q # r =>
              phase'[q] = phase[q] \/ (phase[q] = "queued" /\ phase'[q] = "ready")
         /\ /\ order /\ unsupported = {} /\ n < 2
            /\ n = 1 => phase[r] \in {"ready", "active"}
            => OneScheduled'
<1> DEFINE waiting == IF order THEN Len(queue) ELSE 0
           popped == IF n < waiting THEN n ELSE waiting
           L == Len(queue)
<1> USE DEF ServeInv, ServeTypes
<1>1. /\ scheduled' = IF order THEN scheduled - n ELSE scheduled
      /\ queue' = SubSeq(queue, popped + 1, L)
      /\ phase' = [q \in Requests |->
                     CASE q = r /\ n > 0                       -> "done"
                       [] \E i \in 1..popped : queue[i] = q    -> "ready"
                       [] OTHER                                -> phase[q]]
      /\ order' = order
  BY DEF FinishRequest
<1>2. L \in Nat /\ popped \in 0..L /\ DOMAIN queue = 1..L
      /\ \A i \in 1..L : queue[i] \in Requests
  OBVIOUS
<1>3. \A i \in 1..L : queue[i] # r /\ phase[queue[i]] = "queued"
  BY DEF QueueShape
<1>4. order => popped = IF n < L THEN n ELSE L
  OBVIOUS
<1>12. \A i \in 1..popped : i \in 1..L
  BY <1>2
<1>13. \A i, j \in 1..L : queue[i] = queue[j] => i = j
  BY DEF QueueShape
<1>14. Len(queue) = L /\ (queue = <<>> <=> L = 0)
  OBVIOUS
<1> HIDE DEF popped, L
<1>5. /\ queue' \in Seq(Requests) /\ Len(queue') = L - popped
      /\ \A i \in 1..(L - popped) : popped + i \in 1..L /\ queue'[i] = queue[popped + i]
  <2>1. \A i \in (popped + 1)..L : queue[i] \in Requests
    BY <1>2
  <2>2. /\ SubSeq(queue, popped + 1, L) \in Seq(Requests)
        /\ Len(SubSeq(queue, popped + 1, L)) =
             (IF popped + 1 =< L THEN L - (popped + 1) + 1 ELSE 0)
        /\ \A i \in 1..(L - (popped + 1) + 1) :
             SubSeq(queue, popped + 1, L)[i] = queue[(popped + 1) + i - 1]
    BY <2>1, <1>2, SubSeqProperties
  <2>3. L - (popped + 1) + 1 = L - popped
        /\ (popped + 1 =< L \/ L - popped = 0)
        /\ \A i \in 1..(L - popped) : (popped + 1) + i - 1 = popped + i /\ popped + i \in 1..L
    BY <1>2
  <2>4. queue' = SubSeq(queue, popped + 1, L)
    BY <1>1
  <2> DEFINE e == SubSeq(queue, popped + 1, L)
  <2> HIDE DEF e
  <2>5. /\ e \in Seq(Requests) /\ Len(e) = L - popped
        /\ \A i \in 1..(L - popped) : popped + i \in 1..L /\ e[i] = queue[popped + i]
    BY <2>2, <2>3 DEF e
  <2>6. queue' = e
    BY <2>4 DEF e
  <2> QED
    BY <2>5, <2>6
<1>6. \A q \in Requests :
        phase'[q] = CASE q = r /\ n > 0                       -> "done"
                      [] \E i \in 1..popped : queue[i] = q    -> "ready"
                      [] OTHER                                -> phase[q]
  BY <1>1
<1>7. phase'[r] = IF n > 0 THEN "done" ELSE phase[r]
  BY <1>3, <1>6, <1>12
<1>8. \A q \in Requests : q # r =>
        phase'[q] = phase[q] \/ (phase[q] = "queued" /\ phase'[q] = "ready")
  BY <1>2, <1>3, <1>6, <1>12
<1>9. phase' \in [Requests -> Phase]
  BY <1>1, <1>7, <1>8 DEF Phase
<1>10. QueueShape'
  <2>1. \A i \in 1..(L - popped) : phase'[queue'[i]] = "queued"
    <3> SUFFICES ASSUME NEW i \in 1..(L - popped)
                 PROVE  phase'[queue'[i]] = "queued"
      OBVIOUS
    <3>1. popped + i \in 1..L /\ popped + i \notin 1..popped /\ queue'[i] = queue[popped + i]
      <4>1. popped + i \in 1..L /\ queue'[i] = queue[popped + i]
        BY <1>5
      <4>2. popped + i > popped
        BY <1>2
      <4> QED
        BY <1>2, <4>1, <4>2
    <3>2. \A j \in 1..popped : queue[j] # queue[popped + i]
      BY <1>12, <1>13, <3>1
    <3> QED
      BY <1>2, <1>3, <1>6, <3>1, <3>2
  <2>2. \A i, j \in 1..(L - popped) : queue'[i] = queue'[j] => i = j
    <3> SUFFICES ASSUME NEW i \in 1..(L - popped), NEW j \in 1..(L - popped),
                        queue'[i] = queue'[j]
                 PROVE  i = j
      OBVIOUS
    <3>1. popped + i = popped + j
      <4>1. /\ popped + i \in 1..L /\ queue'[i] = queue[popped + i]
            /\ popped + j \in 1..L /\ queue'[j] = queue[popped + j]
        BY <1>5
      <4> QED
        BY <4>1, <1>13
    <3> QED
      BY <1>2, <3>1
  <2> QED
    BY <1>5, <2>1, <2>2 DEF QueueShape
<1>11. ASSUME order, unsupported = {}, n < 2, n = 1 => phase[r] \in {"ready", "active"}
       PROVE  OneScheduled'
  <2>1. OneScheduled
    BY <1>11 DEF OrderShape
  <2>2. CASE n = 0
    <3>1. popped = 0 /\ Len(queue') = Len(queue) /\ (queue = <<>> => queue' = <<>>)
      BY <1>2, <1>4, <1>5, <1>11, <1>14, <2>2
    <3>2. Underway' = Underway /\ scheduled' = scheduled
      BY <1>1, <1>6, <1>11, <2>2, <3>1 DEF Underway
    <3> QED
      BY <2>1, <3>1, <3>2 DEF OneScheduled
  <2>3. CASE n = 1
    <3>1. r \in Underway
      BY <1>11, <2>3 DEF Underway
    <3>2. Underway = {r} /\ scheduled = 1 + L /\ scheduled' = L
      BY <1>1, <1>2, <1>11, <2>1, <2>3, <3>1 DEF OneScheduled, L
    <3>3. CASE L = 0
      <4>1. popped = 0 /\ queue' = <<>>
        BY <1>2, <1>5, <3>3
      <4>2. Underway' = {}
        <5>1. \A q \in Requests : q # r => phase'[q] = phase[q]
          <6>1. 1..popped = {}
            BY <4>1
          <6> QED
            BY <1>6, <6>1
        <5> QED
          <6> SUFFICES ASSUME NEW q \in Requests
                       PROVE  phase'[q] \notin {"ready", "active"}
            BY DEF Underway
          <6>1. CASE q = r
            BY <1>7, <2>3, <6>1
          <6>2. CASE q # r
            BY <3>2, <5>1, <6>2 DEF Underway
          <6> QED
            BY <6>1, <6>2
      <4> QED
        BY <3>2, <3>3, <4>1, <4>2 DEF OneScheduled
    <3>4. CASE L > 0
      <4>1. popped = 1 /\ Len(queue') = L - 1
        BY <1>2, <1>4, <1>5, <1>11, <2>3, <3>4
      <4>2. queue[1] \in Requests /\ queue[1] # r /\ phase[queue[1]] = "queued"
        BY <1>2, <1>3, <3>4
      <4>3. Underway' = {queue[1]}
        <5>1. /\ phase'[queue[1]] = "ready"
              /\ \A q \in Requests : q # r /\ q # queue[1] => phase'[q] = phase[q]
          BY <1>6, <4>1, <4>2
        <5> QED
          <6>1. phase'[r] = "done"
            BY <1>7, <2>3
          <6>2. \A q \in Requests : q # r => phase[q] \notin {"ready", "active"}
            BY <3>2 DEF Underway
          <6>3. \A q \in Requests : phase'[q] \in {"ready", "active"} <=> q = queue[1]
            BY <4>2, <5>1, <6>1, <6>2
          <6> QED
            BY <4>2, <6>3 DEF Underway
      <4> QED
        BY <1>2, <3>2, <4>1, <4>2, <4>3 DEF OneScheduled
    <3> QED
      BY <1>2, <3>3, <3>4
  <2> QED
    BY <1>11, <2>2, <2>3
<1> QED
  BY <1>1, <1>5, <1>7, <1>8, <1>9, <1>10, <1>11

\* A request is over when finish() has been called for it once, with its outcome
\* and its body answered.
LEMMA EndKeeps ==
  ASSUME ServeInv, NEW r \in Requests,
         phase[r] \in {"ready", "active"} \/ op[r].kind # "none",
         Finish(r, 1), op' = [op EXCEPT ![r] = NoOp],
         outcome' \in [Requests -> {"none", "response", "canceled", "timedout", "error"}],
         body' \in [Requests -> {"none", "complete", "error"}],
         \A q \in Requests : q # r => outcome'[q] = outcome[q] /\ body'[q] = body[q],
         r \notin unsupported => outcome'[r] # "none" /\ body'[r] # "none",
         UNCHANGED <<timer, token, due, historyVars>>
  PROVE  ServeInv'
<1>1. phase[r] \in {"ready", "active", "done"}
      /\ (r \notin unsupported => phase[r] \in {"ready", "active"} /\ finishes[r] = 0)
  BY DEF ServeInv, ServeTypes, StageShape, Fits, Phase
<1>2. /\ FinishRequest(r, 1)
      /\ finishes' = [finishes EXCEPT ![r] = @ + 1]
      /\ reg' \in [Requests -> {"none", "yes", "stale", "gone"}]
  BY DEF Finish, ServeInv, ServeTypes
<1>3. /\ order' = order /\ scheduled' \in Int
      /\ queue' \in Seq(Requests) /\ phase' \in [Requests -> Phase]
      /\ QueueShape'
      /\ phase'[r] = "done"
      /\ \A q \in Requests : q # r =>
           phase'[q] = phase[q] \/ (phase[q] = "queued" /\ phase'[q] = "ready")
      /\ order /\ unsupported = {} => OneScheduled'
  BY <1>1, <1>2, FinishRequestKeeps
<1>4. NoOp \in Op /\ NoOp.kind = "none"
  BY ClientAssumption DEF Op, NoOp
<1>5. ServeTypes'
  <2>1. finishes' \in [Requests -> Nat] /\ op' \in [Requests -> Op]
    BY <1>2, <1>4 DEF ServeInv, ServeTypes
  <2>2. /\ timer' = timer /\ token' = token /\ due' = due
        /\ unsupported' = unsupported /\ lost' = lost
    BY DEF historyVars
  <2> QED
    BY <1>2, <1>3, <2>1, <2>2 DEF ServeInv, ServeTypes
<1>6. StageShape'
  <2> SUFFICES ASSUME NEW q \in Requests
               PROVE  /\ phase'[q] \in {"unsent", "queued", "ready"} => op'[q].kind = "none"
                      /\ op'[q].kind = "none" => op'[q] = NoOp
                      /\ q \notin unsupported' =>
                           Fits(phase'[q], op'[q].kind, outcome'[q], body'[q], finishes'[q])
    BY DEF StageShape, Fits
  <2>1. CASE q = r
    BY <1>1, <1>2, <1>3, <1>4, <2>1 DEF ServeInv, ServeTypes, Fits, historyVars
  <2>2. CASE q # r
    <3>1. op'[q] = op[q] /\ outcome'[q] = outcome[q] /\ body'[q] = body[q]
          /\ finishes'[q] = finishes[q] /\ unsupported' = unsupported
      BY <1>2, <2>2 DEF ServeInv, ServeTypes, historyVars
    <3> QED
      BY <1>3, <2>2, <3>1 DEF ServeInv, StageShape, Fits
  <2> QED
    BY <2>1, <2>2
<1>7. OrderShape'
  BY <1>3 DEF OrderShape, historyVars
<1> QED
  BY <1>3, <1>5, <1>6, <1>7 DEF ServeInv

\* Failing answers the outcome, and the body if it has been.
LEMMA FailKeeps ==
  ASSUME ServeInv, NEW r \in Requests, NEW err \in {"canceled", "timedout", "error"},
         phase[r] \in {"ready", "active"} \/ op[r].kind # "none", Fail(r, err)
  PROVE  ServeInv'
<1> DEFINE told == IF token[r] = "canceled" THEN "canceled" ELSE err
<1>1. told \in {"canceled", "timedout", "error"}
  OBVIOUS
<1>2. /\ outcome' = [outcome EXCEPT ![r] = IF @ = "none" THEN told ELSE @]
      /\ body' = [body EXCEPT ![r] =
                    CASE @ # "none"            -> @
                      [] outcome[r] = "none"   -> "complete"
                      [] OTHER                 -> "error"]
  BY DEF Fail, Settle
<1> HIDE DEF told
<1>3. /\ outcome' \in [Requests -> {"none", "response", "canceled", "timedout", "error"}]
      /\ body' \in [Requests -> {"none", "complete", "error"}]
      /\ \A q \in Requests : q # r => outcome'[q] = outcome[q] /\ body'[q] = body[q]
      /\ outcome'[r] # "none" /\ body'[r] # "none"
  BY <1>1, <1>2 DEF ServeInv, ServeTypes
<1>4. Finish(r, 1) /\ op' = [op EXCEPT ![r] = NoOp] /\ UNCHANGED <<timer, token, due, historyVars>>
  BY DEF Fail
<1> QED
  BY <1>3, <1>4, EndKeeps

\* The last part of a body completes the request.
LEMMA HandleBodyKeeps ==
  ASSUME ServeInv, NEW r \in Requests, HandleBody(r)
  PROVE  ServeInv'
<1>1. /\ op[r].kind = "body"
      /\ body' = [body EXCEPT ![r] = IF @ = "none" THEN "complete" ELSE @]
      /\ Finish(r, 1) /\ op' = [op EXCEPT ![r] = NoOp]
      /\ outcome' = outcome /\ UNCHANGED <<timer, token, due, historyVars>>
  BY DEF HandleBody, Completed, Complete
<1>2. /\ outcome' \in [Requests -> {"none", "response", "canceled", "timedout", "error"}]
      /\ body' \in [Requests -> {"none", "complete", "error"}]
      /\ \A q \in Requests : q # r => outcome'[q] = outcome[q] /\ body'[q] = body[q]
      /\ body'[r] # "none"
  BY <1>1 DEF ServeInv, ServeTypes
<1>3. r \notin unsupported => outcome'[r] # "none"
  BY <1>1 DEF ServeInv, ServeTypes, StageShape, Fits, Phase
<1> QED
  BY <1>1, <1>2, <1>3, EndKeeps

\* Every way to fail.
Fails(r) ==
  \/ StartFails(r) \/ StartCanceled(r) \/ HandleResolveError(r)
  \/ HandleConnectAborted(r) \/ HandleConnectError(r)
  \/ HandleWriteThrows(r) \/ HandleWriteError(r) \/ HandleStatusInvalid(r)
  \/ HandleStatusError(r) \/ HandleBodyThrows(r) \/ HandleBodyError(r)

LEMMA FailsKeep ==
  ASSUME ServeInv, NEW r \in Requests, Fails(r)
  PROVE  ServeInv'
<1>1. \E err \in {"canceled", "timedout", "error"} :
        (phase[r] \in {"ready", "active"} \/ op[r].kind # "none") /\ Fail(r, err)
  <2>1. Error(r) \in {"canceled", "timedout", "error"}
    BY DEF Error
  <2>2. CASE StartFails(r) \/ StartCanceled(r)
    BY <2>2 DEF StartFails, StartCanceled
  <2>3. CASE HandleConnectAborted(r) \/ HandleWriteThrows(r) \/ HandleBodyThrows(r)
    BY <2>3 DEF HandleConnectAborted, HandleWriteThrows, HandleBodyThrows, Completed
  <2>4. CASE \/ HandleResolveError(r) \/ HandleConnectError(r) \/ HandleWriteError(r)
             \/ HandleStatusInvalid(r) \/ HandleStatusError(r) \/ HandleBodyError(r)
    <3>1. op[r].kind # "none" /\ Fail(r, Error(r))
      BY <2>4 DEF HandleResolveError, HandleConnectError, HandleWriteError,
                  HandleStatusInvalid, HandleStatusError, HandleBodyError, Completed
    <3> QED
      BY <2>1, <3>1
  <2> QED
    BY <2>2, <2>3, <2>4 DEF Fails
<1> QED
  BY <1>1, FailKeeps

\* Headers answer the response.  They are the end of a request without a body,
\* and of one in an encoding that is not supported more than that.
LEMMA ReadHeadersKeeps ==
  ASSUME ServeInv, NEW r \in Requests, ReadHeaders(r)
  PROVE  ServeInv'
<1>1. PICK supported \in BOOLEAN, bodyless \in BOOLEAN, fails \in BOOLEAN :
        /\ op[r].kind = "status"
        /\ outcome' = [outcome EXCEPT ![r] = "response"]
        /\ body' = [body EXCEPT ![r] =
                      CASE fails -> "error" [] bodyless -> "complete" [] OTHER -> @]
        /\ Finish(r, (IF supported THEN 0 ELSE 1) + (IF bodyless THEN 1 ELSE 0))
        /\ op' = [op EXCEPT ![r] = IF bodyless THEN NoOp ELSE Pending("body")]
        /\ unsupported' = IF supported THEN unsupported ELSE unsupported \cup {r}
        /\ fails => bodyless \/ ~supported
        /\ UNCHANGED <<timer, token, due, lost>>
  <2>0. PICK keep \in {"unsaid", "yes", "no"}, supported, bodyless, throws \in BOOLEAN :
          LET fails == ~supported \/ (bodyless /\ throws)
              kept == IF keep = "unsaid" THEN conns[conn[r]]
                      ELSE [conns[conn[r]] EXCEPT !.keep = (keep = "yes")]
          IN /\ Completed(r, "status", {"ok"})
             /\ conns' = [conns EXCEPT ![conn[r]] = IF fails THEN Closed(kept) ELSE kept]
             /\ outcome' = [outcome EXCEPT ![r] = "response"]
             /\ body' = [body EXCEPT ![r] =
                           CASE fails -> "error" [] bodyless -> "complete" [] OTHER -> @]
             /\ Finish(r, (IF supported THEN 0 ELSE 1) + (IF bodyless THEN 1 ELSE 0))
             /\ op' = [op EXCEPT ![r] = IF bodyless THEN NoOp ELSE Pending("body")]
             /\ unsupported' = IF supported THEN unsupported ELSE unsupported \cup {r}
             /\ UNCHANGED <<conn, timer, token, due, pool, lost>>
    BY DEF ReadHeaders
  <2>1. /\ op[r].kind = "status"
        /\ outcome' = [outcome EXCEPT ![r] = "response"]
        /\ Finish(r, (IF supported THEN 0 ELSE 1) + (IF bodyless THEN 1 ELSE 0))
        /\ op' = [op EXCEPT ![r] = IF bodyless THEN NoOp ELSE Pending("body")]
        /\ unsupported' = IF supported THEN unsupported ELSE unsupported \cup {r}
        /\ UNCHANGED <<timer, token, due, lost>>
    BY <2>0, Zenon DEF Completed
  <2> DEFINE bad == ~supported \/ (bodyless /\ throws)
  <2>2. bad \in BOOLEAN /\ (bad => bodyless \/ ~supported)
    OBVIOUS
  <2>3. body' = [body EXCEPT ![r] =
                  CASE bad -> "error" [] bodyless -> "complete" [] OTHER -> @]
    BY <2>0, Zenon
  <2> HIDE DEF bad
  <2> QED
    BY <2>1, <2>2, <2>3, Zenon
<1> DEFINE n == (IF supported THEN 0 ELSE 1) + (IF bodyless THEN 1 ELSE 0)
<1>2. /\ n \in {0, 1, 2} /\ (supported => n = IF bodyless THEN 1 ELSE 0)
  OBVIOUS
<1>3. Finish(r, n)
  BY <1>1
<1> HIDE DEF n
<1>4. /\ FinishRequest(r, n)
      /\ finishes' = [finishes EXCEPT ![r] = @ + n]
      /\ reg' \in [Requests -> {"none", "yes", "stale", "gone"}]
  BY <1>3 DEF Finish, ServeInv, ServeTypes
<1>5. phase[r] \in {"active", "done"}
      /\ (r \notin unsupported => phase[r] = "active" /\ finishes[r] = 0 /\ body[r] = "none")
  BY <1>1 DEF ServeInv, ServeTypes, StageShape, Fits, Phase
<1>6. /\ order' = order /\ scheduled' \in Int
      /\ queue' \in Seq(Requests) /\ phase' \in [Requests -> Phase]
      /\ QueueShape'
      /\ phase'[r] = IF n > 0 THEN "done" ELSE phase[r]
      /\ \A q \in Requests : q # r =>
           phase'[q] = phase[q] \/ (phase[q] = "queued" /\ phase'[q] = "ready")
      /\ /\ order /\ unsupported = {} /\ n < 2
         /\ n = 1 => phase[r] \in {"ready", "active"}
         => OneScheduled'
  BY <1>2, <1>4, <1>5, FinishRequestKeeps
<1>7. /\ NoOp \in Op /\ NoOp.kind = "none"
      /\ Pending("body") \in Op /\ Pending("body").kind = "body"
  BY ClientAssumption DEF Op, NoOp, Pending
<1>8. ServeTypes'
  <2>1. finishes' \in [Requests -> Nat]
    BY <1>2, <1>4 DEF ServeInv, ServeTypes
  <2>2. op' \in [Requests -> Op]
    BY <1>1, <1>7 DEF ServeInv, ServeTypes
  <2>3. /\ outcome' \in [Requests -> {"none", "response", "canceled", "timedout", "error"}]
        /\ body' \in [Requests -> {"none", "complete", "error"}]
        /\ unsupported' \subseteq Requests
    BY <1>1 DEF ServeInv, ServeTypes
  <2> QED
    BY <1>1, <1>4, <1>6, <2>1, <2>2, <2>3 DEF ServeInv, ServeTypes
<1>9. StageShape'
  <2> SUFFICES ASSUME NEW q \in Requests
               PROVE  /\ phase'[q] \in {"unsent", "queued", "ready"} => op'[q].kind = "none"
                      /\ op'[q].kind = "none" => op'[q] = NoOp
                      /\ q \notin unsupported' =>
                           Fits(phase'[q], op'[q].kind, outcome'[q], body'[q], finishes'[q])
    BY DEF StageShape, Fits
  <2>1. CASE q = r
    <3>1. op'[r] = IF bodyless THEN NoOp ELSE Pending("body")
      BY <1>1 DEF ServeInv, ServeTypes
    <3>2. phase'[r] \in {"active", "done"}
      BY <1>5, <1>6
    <3>3. ASSUME r \notin unsupported'
          PROVE  Fits(phase'[r], op'[r].kind, outcome'[r], body'[r], finishes'[r])
      <4>1. supported /\ r \notin unsupported
        BY <1>1, <3>3
      <4>2. outcome'[r] = "response"
        BY <1>1 DEF ServeInv, ServeTypes
      <4>3. finishes'[r] = n
        BY <1>2, <1>4, <1>5, <4>1 DEF ServeInv, ServeTypes
      <4>4. CASE bodyless
        <5>1. n = 1 /\ phase'[r] = "done" /\ body'[r] # "none"
          BY <1>1, <1>2, <1>6, <4>1, <4>4 DEF ServeInv, ServeTypes
        <5> QED
          BY <1>7, <3>1, <4>2, <4>3, <4>4, <5>1 DEF Fits
      <4>5. CASE ~bodyless
        <5>1. n = 0 /\ phase'[r] = "active"
          BY <1>2, <1>5, <1>6, <4>1, <4>5
        <5>2. body'[r] = "none"
          BY <1>1, <1>5, <4>1, <4>5 DEF ServeInv, ServeTypes
        <5> QED
          BY <1>7, <3>1, <4>2, <4>3, <4>5, <5>1, <5>2 DEF Fits
      <4> QED
        BY <4>4, <4>5
    <3> QED
      BY <1>7, <2>1, <3>1, <3>2, <3>3
  <2>2. CASE q # r
    <3>1. op'[q] = op[q] /\ outcome'[q] = outcome[q] /\ body'[q] = body[q]
          /\ finishes'[q] = finishes[q] /\ (q \notin unsupported' => q \notin unsupported)
      BY <1>1, <1>4, <2>2 DEF ServeInv, ServeTypes
    <3> QED
      BY <1>6, <2>2, <3>1 DEF ServeInv, StageShape, Fits
  <2> QED
    BY <2>1, <2>2
<1>10. OrderShape'
  <2> SUFFICES ASSUME order, unsupported' = {}
               PROVE  OneScheduled'
    BY <1>6 DEF OrderShape
  <2>1. supported /\ unsupported = {}
    BY <1>1
  <2>2. n < 2 /\ phase[r] = "active"
    BY <1>2, <1>5, <2>1
  <2> QED
    BY <1>6, <2>1, <2>2
<1> QED
  BY <1>6, <1>8, <1>9, <1>10 DEF ServeInv

\* ServeInv holds initially, and every step preserves it.
LEMMA ServeInvHolds == Spec => []ServeInv
<1>1. Init => ServeInv
  <2> SUFFICES ASSUME Init
               PROVE  ServeInv
    OBVIOUS
  <2>1. NoOp \in Op /\ NoOp.kind = "none"
    BY ClientAssumption DEF Op, NoOp
  <2>2. queue = <<>> /\ queue \in Seq(Requests) /\ Len(queue) = 0
    BY DEF Init
  <2>3. ServeTypes
    BY <2>1, <2>2 DEF Init, ServeTypes, Phase
  <2>4. QueueShape
    BY <2>2 DEF QueueShape
  <2>5. StageShape
    BY <2>1 DEF Init, StageShape, Fits
  <2>6. OrderShape
    BY DEF Init, OrderShape, OneScheduled, Underway
  <2> QED
    BY <2>3, <2>4, <2>5, <2>6 DEF ServeInv
<1>2. ServeInv /\ [Next]_vars => ServeInv'
  <2> SUFFICES ASSUME ServeInv, [Next]_vars
               PROVE  ServeInv'
    OBVIOUS
  <2>1. CASE \E r \in Requests :
               \/ Register(r) \/ Timeout(r) \/ Cancel(r) \/ CancelCallback(r) \/ Destroy(r)
               \/ HandleResolve(r) \/ HandleConnect(r) \/ HandleConnectNext(r)
               \/ HandleWrite(r) \/ NetworkStep(r)
    BY <2>1, QuietMoves, MoveKeeps
  <2>2. CASE \E r \in Requests : Fails(r)
    BY <2>2, FailsKeep
  <2>3. CASE \E r \in Requests :
               Propagate(r) \/ Start(r) \/ Resend(r) \/ ReadHeaders(r) \/ HandleBody(r)
    BY <2>3, PropagateKeeps, StartKeeps, ResendKeeps, ReadHeadersKeeps, HandleBodyKeeps
  <2>4. CASE EpochTick \/ UNCHANGED vars
    <3>1. UNCHANGED <<orderVars, op, timer, tokenVars, answerVars, historyVars>>
      BY <2>4 DEF EpochTick, vars, orderVars, tokenVars, answerVars, historyVars
    <3>2. Moves
      BY <3>1 DEF Moves, ServeInv, ServeTypes, orderVars, tokenVars, answerVars, historyVars
    <3> QED
      BY <3>2, MoveKeeps
  <2> QED
    BY <2>1, <2>2, <2>3, <2>4 DEF Next, Handle, Fails
<1> QED
  BY <1>1, <1>2, PTL DEF Spec

\* The variables of the client keep their types, for any number of requests,
\* connections and addresses: no operation tries more addresses than there are.
THEOREM TypeCorrect == Spec => []TypeOK
<1>1. OwnTypes /\ ServeTypes => TypeOK
  BY DEF OwnTypes, ServeTypes, TypeOK
<1> QED
  BY <1>1, OwnInvHolds, ServeInvHolds, PTL DEF OwnInv, ServeInv

\* finish() is called once for a request, when its response and its body are
\* answered and no handler is outstanding, whichever of the network, the timer and
\* a cancellation ends it.
THEOREM RequestsFinishOnce == Spec => []FinishedOnce
<1>1. ServeInv => FinishedOnce
  BY DEF ServeInv, ServeTypes, StageShape, Fits, Phase, FinishedOnce
<1> QED
  BY <1>1, ServeInvHolds, PTL

\* With guarantee_order requests go one at a time, and finish_request starts the
\* next as long as m_scheduled says that there is one.
THEOREM RequestsSerialized == Spec => []Serialized
<1>1. ServeInv => Serialized
  <2> SUFFICES ASSUME ServeInv, order, unsupported = {}
               PROVE  /\ Cardinality(Underway) =< 1
                      /\ queue # <<>> => Underway # {}
                      /\ scheduled = Cardinality(Underway) + Len(queue)
    BY DEF Serialized
  <2>1. OneScheduled /\ queue \in Seq(Requests) /\ Len(queue) \in Nat
    BY DEF ServeInv, ServeTypes, OrderShape
  <2>2. CASE Underway = {} /\ queue = <<>> /\ scheduled = 0
    <3>1. Cardinality(Underway) = 0
      BY <2>2, FS_EmptySet
    <3> QED
      BY <2>2, <3>1
  <2>3. CASE \E r \in Requests : Underway = {r} /\ scheduled = 1 + Len(queue)
    <3>1. Cardinality(Underway) = 1 /\ Underway # {}
      BY <2>3, FS_Singleton
    <3> QED
      BY <2>1, <2>3, <3>1
  <2> QED
    BY <2>1, <2>2, <2>3 DEF OneScheduled
<1> QED
  BY <1>1, ServeInvHolds, PTL

----------------------------------------------------------------------------
(* The timer *)

\* A request that is sent has a context and waits for an operation.  Until the
\* timer fires it runs, and the connection whose operation it ends stays closed;
\* only a replaced connection escapes it.
Watched(r) ==
  /\ phase[r] \in {"queued", "ready", "active"} => Live(r)
  /\ phase[r] = "active" => op[r].kind # "none"
  /\ op[r].kind # "none" => op[r].res # "none"
  /\ phase[r] = "active" /\ r \notin lost =>
       \/ timer[r] = "started"
       \/ timer[r] = "timedout" /\ conns[conn[r]].sock = "closed"

WatchShape == \A r \in Requests : Watched(r)

WatchInv == OwnInv /\ ServeInv /\ WatchShape

\* What a request on its way waits for comes to an end, for one of the reasons that
\* the code relies on: its operation ended and the handler is due, resolving or
\* connecting ends by itself, the connection is closed, or the timer is running and
\* will close it.
NothingWaitsForever ==
  \A r \in Requests : phase[r] = "active" /\ r \notin lost =>
    /\ Live(r) /\ op[r].kind # "none" /\ op[r].res # "none"
    /\ \/ op[r].res # "pending" \/ op[r].kind \in {"resolve", "connect"}
       \/ timer[r] = "started" \/ conns[conn[r]].sock = "closed"
    /\ timer[r] = "timedout" => conns[conn[r]].sock = "closed"

\* A request whose context, operation and timer a step leaves alone is watched as
\* before, also if it leaves the queue.
LEMMA UndisturbedWatched ==
  ASSUME WatchInv, NEW q \in Requests,
         \/ phase'[q] = phase[q]
         \/ phase[q] = "queued" /\ phase'[q] = "ready",
         conn'[q] = conn[q], op'[q] = op[q], timer'[q] = timer[q],
         lost \subseteq lost',
         Live(q) /\ conns[conn[q]].sock = "closed" => conns'[conn[q]].sock = "closed"
  PROVE  Watched(q)'
<1>1. Watched(q)
  BY DEF WatchInv, WatchShape
<1>2. Live(q)' <=> Live(q)
  BY DEF Live
<1>3. CASE phase'[q] = phase[q]
  BY <1>1, <1>2, <1>3 DEF Watched
<1>4. CASE phase[q] = "queued" /\ phase'[q] = "ready"
  BY <1>1, <1>2, <1>4 DEF Watched
<1> QED
  BY <1>3, <1>4

\* A step of one request leaves the others watched if it changes no connection but
\* its own and one that nobody has.
LEMMA OthersWatched ==
  ASSUME WatchInv, NEW r \in Requests, NEW q \in Requests, q # r,
         \/ phase'[q] = phase[q]
         \/ phase[q] = "queued" /\ phase'[q] = "ready",
         conn'[q] = conn[q], op'[q] = op[q], timer'[q] = timer[q],
         lost \subseteq lost',
         \A c \in Conns : c = conn[r] \/ conns'[c] = conns[c]
                            \/ \A p \in Requests : conn[p] # c
  PROVE  Watched(q)'
<1>1. Live(q) => conn[q] \in Conns /\ conn[q] # conn[r]
  BY ClientAssumption DEF WatchInv, OwnInv, OwnTypes, OwnShape, NoSharing, Live
<1>2. Live(q) => conns'[conn[q]] = conns[conn[q]]
  BY <1>1
<1> QED
  BY <1>2, UndisturbedWatched

\* finish() ends a request, and may start another that waits.
LEMMA FinishEnds ==
  ASSUME ServeInv, NEW r \in Requests, NEW n \in {0, 1, 2}, op[r].kind # "none" \/ phase[r] = "ready",
         Finish(r, n)
  PROVE  /\ phase'[r] = IF n > 0 THEN "done" ELSE phase[r]
         /\ \A q \in Requests : q # r =>
              phase'[q] = phase[q] \/ (phase[q] = "queued" /\ phase'[q] = "ready")
<1>1. phase[r] # "queued"
  BY DEF ServeInv, StageShape
<1> QED
  BY <1>1, FinishRequestKeeps DEF Finish

\* What fails or completes is not watched any more.
LEMMA EndWatched ==
  ASSUME WatchInv, NEW r \in Requests, Fails(r) \/ HandleBody(r)
  PROVE  WatchShape'
<1>1. /\ op[r].kind # "none" \/ phase[r] = "ready"
      /\ (\E err : Fail(r, err)) \/ Complete(r)
  BY DEF Fails, StartFails, StartCanceled, HandleResolveError, HandleConnectAborted,
         HandleConnectError, HandleWriteThrows, HandleWriteError, HandleStatusInvalid,
         HandleStatusError, HandleBody, HandleBodyThrows, HandleBodyError, Completed
<1>2. /\ Finish(r, 1) /\ op' = [op EXCEPT ![r] = NoOp]
      /\ conns' = conns \/ conns' = [conns EXCEPT ![conn[r]] = Closed(@)]
      /\ UNCHANGED <<conn, timer, lost>>
  BY <1>1 DEF Fail, Complete, historyVars
<1>3. /\ phase'[r] = "done"
      /\ \A q \in Requests : q # r =>
           phase'[q] = phase[q] \/ (phase[q] = "queued" /\ phase'[q] = "ready")
  BY <1>1, <1>2, FinishEnds DEF WatchInv
<1>4. op'[r].kind = "none" /\ \A q \in Requests : q # r => op'[q] = op[q]
  BY <1>2 DEF WatchInv, ServeInv, ServeTypes, NoOp
<1>5. \A c \in Conns : c = conn[r] \/ conns'[c] = conns[c]
  BY <1>2 DEF WatchInv, OwnInv, OwnTypes
<1>6. Watched(r)'
  BY <1>3, <1>4 DEF Watched
<1>7. \A q \in Requests : q # r => Watched(q)'
  BY <1>2, <1>3, <1>4, <1>5, OthersWatched
<1> QED
  BY <1>6, <1>7 DEF WatchShape

\* Closing, whatever else is done to the connection, leaves it closed.
LEMMA ClosedIsClosed ==
  ASSUME NEW c \in Connection
  PROVE  Closed(c).sock = "closed"
  BY DEF Closed, Connection

\* The headers of a response: its body is read on, watched as before, or it is over.
LEMMA ReadHeadersWatched ==
  ASSUME WatchInv, NEW r \in Requests, ReadHeaders(r)
  PROVE  WatchShape'
<1>1. PICK keep \in {"unsaid", "yes", "no"}, supported, bodyless, throws \in BOOLEAN :
        LET fails == ~supported \/ (bodyless /\ throws)
            kept == IF keep = "unsaid" THEN conns[conn[r]]
                    ELSE [conns[conn[r]] EXCEPT !.keep = (keep = "yes")]
        IN /\ Completed(r, "status", {"ok"})
           /\ conns' = [conns EXCEPT ![conn[r]] = IF fails THEN Closed(kept) ELSE kept]
           /\ outcome' = [outcome EXCEPT ![r] = "response"]
           /\ body' = [body EXCEPT ![r] =
                         CASE fails -> "error" [] bodyless -> "complete" [] OTHER -> @]
           /\ Finish(r, (IF supported THEN 0 ELSE 1) + (IF bodyless THEN 1 ELSE 0))
           /\ op' = [op EXCEPT ![r] = IF bodyless THEN NoOp ELSE Pending("body")]
           /\ unsupported' = IF supported THEN unsupported ELSE unsupported \cup {r}
           /\ UNCHANGED <<conn, timer, token, due, pool, lost>>
  BY DEF ReadHeaders
<1> DEFINE fails == ~supported \/ (bodyless /\ throws)
           kept == IF keep = "unsaid" THEN conns[conn[r]]
                   ELSE [conns[conn[r]] EXCEPT !.keep = (keep = "yes")]
           n == (IF supported THEN 0 ELSE 1) + (IF bodyless THEN 1 ELSE 0)
<1>2. /\ op[r].kind = "status" /\ Finish(r, n)
      /\ conns' = [conns EXCEPT ![conn[r]] = IF fails THEN Closed(kept) ELSE kept]
      /\ op' = [op EXCEPT ![r] = IF bodyless THEN NoOp ELSE Pending("body")]
      /\ UNCHANGED <<conn, timer, lost>>
  BY <1>1, Zenon DEF Completed
<1>3. n \in {0, 1, 2} /\ (n > 0 <=> ~supported \/ bodyless)
  OBVIOUS
<1>4. Live(r) => conn[r] \in Conns
  BY ClientAssumption DEF WatchInv, OwnInv, OwnTypes, Live
<1>5. Live(r) => kept \in Connection /\ kept.sock = conns[conn[r]].sock
  <2> SUFFICES ASSUME Live(r)
               PROVE  kept \in Connection /\ kept.sock = conns[conn[r]].sock
    OBVIOUS
  <2> DEFINE c == conns[conn[r]]
             v == keep = "yes"
  <2>1. c \in Connection /\ v \in BOOLEAN
    BY <1>4 DEF WatchInv, OwnInv, OwnTypes
  <2>2. kept = IF keep = "unsaid" THEN c ELSE [c EXCEPT !.keep = v]
    OBVIOUS
  <2> HIDE DEF c, v, kept
  <2>3. [c EXCEPT !.keep = v] \in Connection /\ [c EXCEPT !.keep = v].sock = c.sock
    BY <2>1 DEF Connection
  <2> QED
    BY <2>1, <2>2, <2>3 DEF c
<1> HIDE DEF fails, kept, n
<1>6. /\ phase'[r] = IF n > 0 THEN "done" ELSE phase[r]
      /\ \A q \in Requests : q # r =>
           phase'[q] = phase[q] \/ (phase[q] = "queued" /\ phase'[q] = "ready")
  BY <1>2, <1>3, FinishEnds DEF WatchInv
<1>7. /\ op'[r] = IF bodyless THEN NoOp ELSE Pending("body")
      /\ \A q \in Requests : q # r => op'[q] = op[q]
  BY <1>2 DEF WatchInv, ServeInv, ServeTypes
<1>8. /\ NoOp.kind = "none"
      /\ Pending("body").kind = "body" /\ Pending("body").res = "pending"
  BY DEF NoOp, Pending
<1>9. Live(r) /\ conns[conn[r]].sock = "closed" => conns'[conn[r]].sock = "closed"
  <2>1. Live(r) => conns'[conn[r]] = IF fails THEN Closed(kept) ELSE kept
    BY <1>2, <1>4 DEF WatchInv, OwnInv, OwnTypes
  <2> QED
    BY <1>5, <2>1, ClosedIsClosed
<1>10. Watched(r)'
  <2>1. Watched(r) /\ (Live(r)' <=> Live(r))
    BY <1>2 DEF WatchInv, WatchShape, Live
  <2>2. CASE n > 0
    BY <1>6, <1>7, <1>8, <2>2 DEF Watched
  <2>3. CASE ~(n > 0)
    BY <1>2, <1>3, <1>6, <1>7, <1>8, <1>9, <2>1, <2>3 DEF Watched
  <2> QED
    BY <2>2, <2>3
<1>11. \A c \in Conns : c = conn[r] \/ conns'[c] = conns[c]
  BY <1>2 DEF WatchInv, OwnInv, OwnTypes
<1>12. \A q \in Requests : q # r => Watched(q)'
  BY <1>2, <1>6, <1>7, <1>11, OthersWatched
<1> QED
  BY <1>10, <1>12 DEF WatchShape

\* The timer is started with the first operation.
LEMMA StartWatched ==
  ASSUME WatchInv, NEW r \in Requests, Start(r)
  PROVE  WatchShape'
<1>1. PICK k \in {"write", "resolve"} :
        /\ phase[r] = "ready"
        /\ phase' = [phase EXCEPT ![r] = "active"]
        /\ timer' = [timer EXCEPT ![r] = "started"]
        /\ op' = [op EXCEPT ![r] = Pending(k)]
        /\ UNCHANGED <<conn, conns, lost>>
  BY DEF Start, historyVars
<1>2. Pending(k).kind = k /\ Pending(k).res = "pending"
  BY DEF Pending
<1>3. /\ phase'[r] = "active" /\ timer'[r] = "started" /\ op'[r] = Pending(k)
      /\ \A q \in Requests : q # r =>
           phase'[q] = phase[q] /\ timer'[q] = timer[q] /\ op'[q] = op[q]
  BY <1>1 DEF WatchInv, ServeInv, ServeTypes
<1>4. Watched(r)'
  BY <1>1, <1>2, <1>3 DEF WatchInv, WatchShape, Watched, Live
<1>5. \A q \in Requests : q # r => Watched(q)'
  BY <1>1, <1>3, OthersWatched
<1> QED
  BY <1>4, <1>5 DEF WatchShape

\* The timer and the token close the connection; cancel() alone does nothing to it.
LEMMA CloseWatched ==
  ASSUME WatchInv, NEW r \in Requests,
         Register(r) \/ CancelCallback(r) \/ Timeout(r) \/ Cancel(r)
  PROVE  WatchShape'
<1> USE DEF orderVars, tokenVars, answerVars, historyVars
<1>1. UNCHANGED <<phase, conn, op, lost>>
  BY DEF Register, CancelCallback, Timeout, Cancel
<1>2. \/ conns' = [conns EXCEPT ![conn[r]] = Closed(@)]
      \/ conns' = conns /\ timer' = timer
  BY DEF Register, CancelCallback, Timeout, Cancel
<1>3. timer' = timer \/ timer' = [timer EXCEPT ![r] = "timedout"]
  BY DEF Register, CancelCallback, Timeout, Cancel
<1>4. \A q \in Requests : q # r => timer'[q] = timer[q]
  BY <1>3 DEF WatchInv, ServeInv, ServeTypes
<1>5. \A c \in Conns : c = conn[r] \/ conns'[c] = conns[c]
  BY <1>2 DEF WatchInv, OwnInv, OwnTypes
<1>6. \A q \in Requests : q # r => Watched(q)'
  BY <1>1, <1>4, <1>5, OthersWatched
<1>7. Watched(r)'
  <2>1. Watched(r) /\ (Live(r)' <=> Live(r))
    BY <1>1 DEF WatchInv, WatchShape, Live
  <2>2. CASE conns' = conns /\ timer' = timer
    BY <1>1, <2>1, <2>2 DEF Watched
  <2>3. CASE conns' = [conns EXCEPT ![conn[r]] = Closed(@)]
    <3>1. Live(r) => conns'[conn[r]].sock = "closed"
      BY <2>3, ClosedIsClosed, ClientAssumption DEF WatchInv, OwnInv, OwnTypes, Live
    <3>2. timer'[r] = timer[r] \/ timer'[r] = "timedout"
      BY <1>3 DEF WatchInv, ServeInv, ServeTypes
    <3> QED
      BY <1>1, <2>1, <3>1, <3>2 DEF Watched
  <2> QED
    BY <1>2, <2>2, <2>3
<1> QED
  BY <1>6, <1>7 DEF WatchShape

\* The operation of a request goes on to the next, or completes.  A connection that
\* is closed stays so: handle_resolve looks at the timer after it opened the socket.
LEMMA AdvanceWatched ==
  ASSUME WatchInv, NEW r \in Requests,
         HandleResolve(r) \/ HandleConnect(r) \/ HandleWrite(r) \/ NetworkStep(r)
  PROVE  WatchShape'
<1> USE DEF orderVars, tokenVars, answerVars, historyVars
<1>1. UNCHANGED <<phase, conn, timer, lost>>
  BY DEF HandleResolve, HandleConnect, HandleWrite, NetworkStep, Network
<1>2. Live(r) => conn[r] \in Conns
  BY ClientAssumption DEF WatchInv, OwnInv, OwnTypes, Live
<1>3. /\ op \in [Requests -> Op] /\ conns \in [Conns -> Connection]
  BY DEF WatchInv, ServeInv, ServeTypes, OwnInv, OwnTypes
<1>4. Watched(r) /\ (Live(r)' <=> Live(r))
  BY <1>1 DEF WatchInv, WatchShape, Live
<1>5. /\ op'[r].kind # "none" /\ op'[r].res # "none"
      /\ \A q \in Requests : q # r => op'[q] = op[q]
  <2>1. CASE HandleResolve(r)
    <3>1. PICK left \in 0..(MaxEndpoints - 1) :
            op' = [op EXCEPT ![r] = [Pending("connect") EXCEPT !.left = left]]
      BY <2>1 DEF HandleResolve
    <3>2. /\ [Pending("connect") EXCEPT !.left = left].kind = "connect"
          /\ [Pending("connect") EXCEPT !.left = left].res = "pending"
      BY DEF Pending
    <3> QED
      BY <1>3, <3>1, <3>2
  <2>2. CASE HandleConnect(r) \/ HandleWrite(r)
    <3>1. PICK k \in {"write", "status"} : op' = [op EXCEPT ![r] = Pending(k)]
      BY <2>2 DEF HandleConnect, HandleWrite
    <3>2. Pending(k).kind = k /\ Pending(k).res = "pending"
      BY DEF Pending
    <3> QED
      BY <1>3, <3>1, <3>2
  <2>3. CASE NetworkStep(r)
    <3>1. PICK res \in {"ok", "failed", "eof", "aborted"} :
            op[r].res = "pending" /\ op' = [op EXCEPT ![r].res = res]
      BY <2>3 DEF NetworkStep, Network
    <3>2. op[r].kind # "none"
      BY <3>1 DEF WatchInv, ServeInv, StageShape, NoOp
    <3>3. op[r] \in Op
      BY <1>3
    <3> DEFINE e == [op[r] EXCEPT !.res = res]
    <3>4. e.kind = op[r].kind /\ e.res = res
      BY <3>3 DEF Op
    <3>5. op' = [op EXCEPT ![r] = e]
      BY <3>1
    <3> HIDE DEF e
    <3>6. op'[r] = e /\ \A q \in Requests : q # r => op'[q] = op[q]
      BY <1>3, <3>5
    <3> QED
      BY <3>2, <3>4, <3>6
  <2> QED
    BY <2>1, <2>2, <2>3
<1>6. \A c \in Conns : c = conn[r] \/ conns'[c] = conns[c]
  BY <1>3 DEF HandleResolve, HandleConnect, HandleWrite, NetworkStep, Network
<1>7. Live(r) /\ timer[r] = "timedout" /\ conns[conn[r]].sock = "closed" =>
        conns'[conn[r]].sock = "closed"
  <2> SUFFICES ASSUME conn[r] \in Conns, timer[r] = "timedout",
                      conns[conn[r]].sock = "closed"
               PROVE  conns'[conn[r]].sock = "closed"
    BY <1>2
  <2>1. CASE HandleResolve(r)
    <3>1. conns' = [conns EXCEPT ![conn[r]] = Closed(Connecting(conns[conn[r]]))]
      BY <2>1 DEF HandleResolve
    <3>2. Closed(Connecting(conns[conn[r]])).sock = "closed"
      BY <1>3, ClosedExists, ClosedIsClosed
    <3> QED
      BY <1>3, <3>1, <3>2
  <2>2. CASE HandleConnect(r) \/ HandleWrite(r)
    BY <2>2 DEF HandleConnect, HandleWrite
  <2>3. CASE NetworkStep(r)
    <3>1. PICK res : Network(r, res)
      BY <2>3 DEF NetworkStep
    <3>2. conn[r] # NoConn
      BY ClientAssumption
    <3>3. ~(op[r].kind = "connect" /\ res = "ok")
      BY <3>1, <3>2 DEF Network, Results
    <3> QED
      BY <3>1, <3>3 DEF Network
  <2> QED
    BY <2>1, <2>2, <2>3
<1>8. Watched(r)'
  BY <1>1, <1>4, <1>5, <1>7 DEF Watched
<1>9. \A q \in Requests : q # r => Watched(q)'
  BY <1>1, <1>5, <1>6, OthersWatched
<1> QED
  BY <1>8, <1>9 DEF WatchShape

\* Another connection: a timeout that closed the one before is lost, and a request
\* that starts over starts its timer again.
LEMMA ObtainWatched ==
  ASSUME WatchInv, NEW r \in Requests,
         Propagate(r) \/ HandleConnectNext(r) \/ Resend(r)
  PROVE  WatchShape'
<1> DEFINE o == Obtained
<1> USE DEF answerVars, historyVars, tokenVars, orderVars
<1>1. /\ CanObtain /\ conn' = [conn EXCEPT ![r] = o.conn]
      /\ \/ conns' = o.conns
         \/ conns' = [o.conns EXCEPT ![o.conn] = Connecting(@), ![conn[r]] = NoConnection]
         \/ conns' = [o.conns EXCEPT ![conn[r]] = NoConnection]
  BY DEF Propagate, HandleConnectNext, Resend
<1>2. /\ o.conn \in Conns /\ o.conns \in [Conns -> Connection]
      /\ \A q \in Requests : conn[q] # o.conn
  BY <1>1, ObtainedIsFree DEF WatchInv
<1>3. \A c \in Conns : c = o.conn \/ o.conns[c] = conns[c]
  <2> DEFINE last == pool.idle[Len(pool.idle)].conn
             new == CHOOSE c \in Conns : conns[c].sock = "none"
  <2>1. \/ o.conn = last /\ o.conns = [conns EXCEPT ![last].reused = TRUE]
        \/ o.conn = new /\ o.conns = [conns EXCEPT ![new] = NewConnection]
    BY DEF Obtained
  <2>2. conns \in [Conns -> Connection]
    BY DEF WatchInv, OwnInv, OwnTypes
  <2> HIDE DEF last, new, o
  <2> QED
    BY <2>1, <2>2
<1> HIDE DEF o
<1>4. \A c \in Conns : c = conn[r] \/ conns'[c] = conns[c]
                         \/ \A p \in Requests : conn[p] # c
  BY <1>1, <1>2, <1>3
<1>5. conn'[r] = o.conn /\ \A q \in Requests : q # r => conn'[q] = conn[q]
  BY <1>1 DEF WatchInv, OwnInv, OwnTypes
<1>6. Live(r)'
  BY <1>2, <1>5, ClientAssumption DEF Live
<1>7. Watched(r) /\ phase \in [Requests -> Phase] /\ op \in [Requests -> Op]
      /\ timer \in [Requests -> {"created", "started", "timedout", "stopped"}]
  BY DEF WatchInv, WatchShape, ServeInv, ServeTypes
<1>8. CASE Propagate(r)
  <2>1. /\ phase[r] = "unsent" /\ UNCHANGED <<op, timer, lost>>
        /\ \/ phase' = [phase EXCEPT ![r] = "queued"]
           \/ phase' = [phase EXCEPT ![r] = "ready"]
    BY <1>8 DEF Propagate, PushRequest
  <2>2. op[r].kind = "none"
    BY <2>1 DEF WatchInv, ServeInv, StageShape
  <2>3. Watched(r)'
    BY <1>6, <1>7, <2>1, <2>2 DEF Watched
  <2>4. \A q \in Requests : q # r => Watched(q)'
    BY <1>4, <1>5, <1>7, <2>1, OthersWatched
  <2> QED
    BY <2>3, <2>4 DEF WatchShape
<1>9. CASE HandleConnectNext(r)
  <2>1. /\ op[r].kind = "connect" /\ UNCHANGED <<phase, timer>>
        /\ op' = [op EXCEPT ![r].left = @ - 1, ![r].res = "pending"]
        /\ lost' = IF timer[r] = "timedout" THEN lost \cup {r} ELSE lost
    BY <1>9 DEF HandleConnectNext, Completed
  <2> DEFINE e == [op[r] EXCEPT !.left = @ - 1, !.res = "pending"]
  <2>2. op' = [op EXCEPT ![r] = e]
    BY <2>1
  <2>3. e.kind = "connect" /\ e.res = "pending"
    BY <1>7, <2>1 DEF Op
  <2> HIDE DEF e
  <2>4. op'[r] = e /\ \A q \in Requests : q # r => op'[q] = op[q]
    BY <1>7, <2>2
  <2>5. Watched(r)'
    BY <1>6, <1>7, <2>1, <2>3, <2>4 DEF Watched
  <2>6. lost \subseteq lost'
    BY <2>1
  <2>7. \A q \in Requests : q # r => Watched(q)'
    BY <1>4, <1>5, <2>1, <2>4, <2>6, OthersWatched
  <2> QED
    BY <2>5, <2>7 DEF WatchShape
<1>10. CASE Resend(r)
  <2>1. /\ op' = [op EXCEPT ![r] = NoOp] /\ timer' = [timer EXCEPT ![r] = "created"]
        /\ phase' = [phase EXCEPT ![r] = "ready"] /\ lost' = lost
    BY <1>10 DEF Resend
  <2>2. /\ op'[r].kind = "none" /\ phase'[r] = "ready"
        /\ \A q \in Requests : q # r =>
             op'[q] = op[q] /\ timer'[q] = timer[q] /\ phase'[q] = phase[q]
    BY <1>7, <2>1 DEF NoOp
  <2>3. Watched(r)'
    BY <1>6, <2>2 DEF Watched
  <2>4. \A q \in Requests : q # r => Watched(q)'
    BY <1>4, <1>5, <2>1, <2>2, OthersWatched
  <2> QED
    BY <2>3, <2>4 DEF WatchShape
<1> QED
  BY <1>8, <1>9, <1>10

\* A context is destroyed when its request is over.
LEMMA DestroyWatched ==
  ASSUME WatchInv, NEW r \in Requests, Destroy(r)
  PROVE  WatchShape'
<1> USE DEF orderVars, tokenVars, answerVars, historyVars
<1>1. /\ phase[r] = "done" /\ op[r] = NoOp
      /\ timer' = [timer EXCEPT ![r] = "stopped"]
      /\ conn' = [conn EXCEPT ![r] = NoConn]
      /\ conns' = conns \/ conns' = [conns EXCEPT ![conn[r]] = NoConnection]
      /\ UNCHANGED <<phase, op, lost>>
  BY DEF Destroy
<1>2. \A q \in Requests : q # r => conn'[q] = conn[q] /\ timer'[q] = timer[q]
  BY <1>1 DEF WatchInv, OwnInv, OwnTypes, ServeInv, ServeTypes
<1>3. \A c \in Conns : c = conn[r] \/ conns'[c] = conns[c]
  BY <1>1 DEF WatchInv, OwnInv, OwnTypes
<1>4. Watched(r)'
  BY <1>1 DEF Watched, NoOp
<1>5. \A q \in Requests : q # r => Watched(q)'
  BY <1>1, <1>2, <1>3, OthersWatched
<1> QED
  BY <1>4, <1>5 DEF WatchShape

\* The pool's timer ends connections of nobody.
LEMMA TickWatched ==
  ASSUME WatchInv, EpochTick
  PROVE  WatchShape'
<1>1. UNCHANGED <<phase, conn, op, timer, lost>>
  BY DEF EpochTick, orderVars, historyVars
<1>2. \A c \in Conns : c \in Idle \/ conns'[c] = conns[c]
  <2> DEFINE L == Len(pool.idle)
             stale == {i \in 1..L : pool.released => \A j \in 1..i : ~pool.idle[j].fresh}
  <2>1. conns' = [c \in Conns |->
                    IF \E i \in stale : pool.idle[i].conn = c THEN NoConnection
                    ELSE conns[c]]
    BY DEF EpochTick
  <2>2. \A i \in stale : i \in DOMAIN pool.idle
    BY IdleEntries DEF WatchInv, OwnInv
  <2> HIDE DEF stale
  <2> QED
    BY <2>1, <2>2 DEF Idle
<1>3. ASSUME NEW q \in Requests
      PROVE  Watched(q)'
  <2>1. Live(q) => conn[q] \in Conns /\ conn[q] \notin Idle
    BY ClientAssumption DEF WatchInv, OwnInv, OwnTypes, OwnShape, NoSharing, Live
  <2>2. Live(q) => conns'[conn[q]] = conns[conn[q]]
    BY <1>2, <2>1
  <2> QED
    BY <1>1, <2>2, UndisturbedWatched
<1> QED
  BY <1>3 DEF WatchShape

\* A request on its way is watched, whatever fails, times out or is canceled: no
\* step leaves it waiting for a read or a write that nothing would end.
THEOREM RequestsAreWatched == Spec => []NothingWaitsForever
<1>1. Init => WatchShape
  BY DEF Init, WatchShape, Watched, NoOp
<1>2. WatchInv /\ [Next]_vars => WatchShape'
  <2> SUFFICES ASSUME WatchInv, [Next]_vars
               PROVE  WatchShape'
    OBVIOUS
  <2>1. CASE \E r \in Requests : Fails(r) \/ HandleBody(r)
    BY <2>1, EndWatched
  <2>2. CASE \E r \in Requests : Start(r) \/ ReadHeaders(r)
    BY <2>2, StartWatched, ReadHeadersWatched
  <2>3. CASE \E r \in Requests :
               Register(r) \/ CancelCallback(r) \/ Timeout(r) \/ Cancel(r)
    BY <2>3, CloseWatched
  <2>4. CASE \E r \in Requests :
               HandleResolve(r) \/ HandleConnect(r) \/ HandleWrite(r) \/ NetworkStep(r)
    BY <2>4, AdvanceWatched
  <2>5. CASE \E r \in Requests : Propagate(r) \/ HandleConnectNext(r) \/ Resend(r)
    BY <2>5, ObtainWatched
  <2>6. CASE EpochTick \/ \E r \in Requests : Destroy(r)
    BY <2>6, TickWatched, DestroyWatched
  <2>7. CASE UNCHANGED vars
    BY <2>7 DEF vars, WatchInv, WatchShape, Watched, Live
  <2> QED
    BY <2>1, <2>2, <2>3, <2>4, <2>5, <2>6, <2>7 DEF Next, Handle, Fails
<1>3. WatchShape => NothingWaitsForever
  BY DEF WatchShape, Watched, NothingWaitsForever
<1> QED
  BY <1>1, <1>2, <1>3, OwnInvHolds, ServeInvHolds, PTL DEF Spec, WatchInv

=============================================================================
