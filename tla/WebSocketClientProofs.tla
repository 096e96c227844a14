------------------------ MODULE WebSocketClientProofs ------------------------
(***************************************************************************)
(* Proofs about WebSocketClient, for any number of messages sent, received   *)
(* and waited for.  LinkShape says when m_client can be gone, CountShape     *)
(* what m_num_sends counts and why one send at most is under way, OrderShape *)
(* how the messages taken split into answered, under way and queued, and     *)
(* ReceiveShape where a message that came in is.  ChainShape and EndShape    *)
(* are added for what senders and a close wait for.                         *)
(***************************************************************************)
EXTENDS WebSocketClient, FiniteSetTheorems, SequenceTheorems, TLAPS

\* m_client is there from connecting to the end of the connection.
LinkShape ==
  /\ state = "CREATED" => link = "none"
  /\ link = "none" => opened = "none" /\ shut = "none" /\ state \in {"CREATED", "DESTROYED"}
  /\ shut # "none" => link = "ended"
  /\ link = "ended" => state \in {"CLOSED", "DESTROYED"}
  /\ ~client => link \in {"none", "ended"}
  /\ \A s \in Sends : send[s] # "unsent" => opened # "none"
  /\ broken # "client"

\* The messages counted.
Counted == {s \in Sends : send[s] \in {"counted", "queued", "reading", "answered", "stalled"}}

CountShape ==
  /\ numSends = Cardinality(Counted)
  /\ \A s, t \in Sends : send[s] \in InChain \cup {"stalled"} /\ send[t] \in InChain => s = t
  /\ \A s \in Sends : send[s] = "next" => numSends > 0

\* No message is in the queue twice, or after it was taken out.
OrderShape ==
  /\ \A i \in 1..Len(outgoing) : send[outgoing[i]] = "queued"
  /\ \A s \in Sends : send[s] = "queued" => \E i \in 1..Len(outgoing) : outgoing[i] = s
  /\ \A i, j \in 1..Len(outgoing) : outgoing[i] = outgoing[j] => i = j
  /\ \/ /\ \A s \in Sends : send[s] # "reading"
        /\ Len(accepted) = Len(answers) + Len(outgoing)
     \/ \E s \in Sends : /\ send[s] = "reading"
                         /\ Len(accepted) = Len(answers) + Len(outgoing) + 1
                         /\ accepted[Len(answers) + 1] = s
  /\ \A i \in 1..Len(answers) : answers[i] = accepted[i]
  /\ \A i \in 1..Len(outgoing) : accepted[Len(accepted) - Len(outgoing) + i] = outgoing[i]

\* A message that came in is in one place.
InQueue(m) == \E i \in 1..Len(incoming) : incoming[i] = m
InReceive(m) == \E r \in Receives : receive[r] = m
InSetting(m) == setting # <<>> /\ setting[1][2] = m

ReceiveShape ==
  /\ Len(setting) =< 1
  /\ \A i \in 1..Len(incoming) : incoming[i] \in 1..arrived
  /\ \A r \in Receives : receive[r] =< arrived
  /\ setting # <<>> => /\ setting[1][2] \in 1..arrived
                       /\ receive[setting[1][1]] = Waiting
                       /\ \A i \in 1..Len(waiting) : waiting[i] # setting[1][1]
  /\ \A m \in 1..arrived :
       /\ InQueue(m) \/ InReceive(m) \/ InSetting(m)
       /\ ~(InQueue(m) /\ InReceive(m))
       /\ ~(InQueue(m) /\ InSetting(m))
       /\ ~(InReceive(m) /\ InSetting(m))
  /\ \A i, j \in 1..Len(incoming) : incoming[i] = incoming[j] => i = j
  /\ \A r, q \in Receives : receive[r] = receive[q] /\ receive[r] > 0 => r = q
  /\ \A i \in 1..Len(waiting) : receive[waiting[i]] = Waiting
  /\ \A i, j \in 1..Len(waiting) : waiting[i] = waiting[j] => i = j
  /\ waiting # <<>> => incoming = <<>> /\ ~frontClosed

IInv == TypeOK /\ LinkShape /\ CountShape /\ OrderShape /\ ReceiveShape

\* IInv holds initially.
LEMMA IInvInit == Init => IInv
<1> SUFFICES ASSUME Init
             PROVE  IInv
  OBVIOUS
<1> USE WebSocketAssumption DEF Init, InChain
<1>1. Counted = {}
  BY DEF Counted
<1>2. Cardinality({}) = 0 /\ Cardinality(Sends) \in Nat
  BY FS_EmptySet, FS_CardinalityType
<1>3. TypeOK
  <2>1. outgoing \in Seq(Sends) /\ accepted \in Seq(Sends) /\ answers \in Seq(Sends)
    OBVIOUS
  <2>2. /\ incoming \in Seq(Messages) /\ waiting \in Seq(Receives)
        /\ setting \in Seq(Receives \X Messages)
    OBVIOUS
  <2>3. receive \in [Receives -> Error..MaxMessages] /\ numSends \in 0..Cardinality(Sends)
    BY <1>2 DEF NotCalled, Error
  <2>4. /\ thread \in [assigned : BOOLEAN, running : BOOLEAN]
        /\ send \in [Sends -> InChain \cup {"unsent", "counted", "queued", "stalled", "done"}]
    OBVIOUS
  <2>5. arrived \in 0..MaxMessages
    OBVIOUS
  <2> QED
    BY <2>1, <2>2, <2>3, <2>4, <2>5, Zenon DEF TypeOK
<1>4. LinkShape /\ CountShape /\ OrderShape
  BY <1>1, <1>2 DEF LinkShape, CountShape, OrderShape
<1>5. ReceiveShape
  BY DEF ReceiveShape, NotCalled, InQueue, InReceive, InSetting
<1> QED
  BY <1>3, <1>4, <1>5 DEF IInv

\* The connection: which steps move it, and what they leave.
LEMMA LinkStep ==
  ASSUME IInv, [Next]_vars
  PROVE  LinkShape'
<1> USE DEF IInv, TypeOK, LinkShape, InChain, Up, linkVars, sendVars, frontVars, Sane, OnThread
<1>1. CASE ConnectRefused \/ Connect \/ AssignThread
  BY <1>1 DEF ConnectRefused, Connect, AssignThread
<1>2. CASE OpenHandler \/ PeerCloses \/ Shutdown \/ ThreadReturns
  BY <1>2 DEF OpenHandler, PeerCloses, Shutdown, ThreadReturns
<1>3. CASE Join \/ CloseHandler \/ CloseSet
  BY <1>3 DEF Join, CloseHandler, CloseSet
<1>4. CASE Close \/ CloseRefused \/ Drop \/ DestroyFront \/ LastSend \/ Destroy
  BY <1>4 DEF Close, CloseRefused, Drop, DestroyFront, LastSend, Destroy
<1>5. ASSUME NEW s \in Sends, Send(s) \/ Push(s) \/ StreamFails(s)
      PROVE  LinkShape'
  BY <1>5 DEF Send, Push, StreamFails
<1>6. ASSUME NEW s \in Sends, HandOver(s)
      PROVE  LinkShape'
  BY <1>6 DEF HandOver, AfterConnected
<1>7. ASSUME NEW s \in Sends, CountDown(s)
      PROVE  LinkShape'
  BY <1>7 DEF CountDown
<1>8. ASSUME NEW s \in Sends, TakeNext(s)
      PROVE  LinkShape'
  <2>1. CASE outgoing = <<>>
    BY <1>8, <2>1 DEF TakeNext
  <2>2. CASE outgoing # <<>>
    <3>1. opened # "none"
      BY <1>8 DEF TakeNext
    <3> QED
      BY <1>8, <2>2, <3>1 DEF TakeNext
  <2> QED
    BY <2>1, <2>2
<1>9. CASE MessageHandler \/ MessageOrphaned \/ SetReceive \/ \E r \in Receives : Receive(r)
  BY <1>9 DEF MessageHandler, MessageOrphaned, SetReceive, Receive
<1>10. CASE UNCHANGED vars
  BY <1>10 DEF vars
<1> QED
  BY <1>1, <1>2, <1>3, <1>4, <1>5, <1>6, <1>7, <1>8, <1>9, <1>10 DEF Next

\* The count is that of a finite set.
LEMMA CountedFinite ==
  ASSUME IInv
  PROVE  /\ IsFiniteSet(Counted) /\ Cardinality(Counted) \in Nat
         /\ numSends = 0 => Counted = {}
<1>1. IsFiniteSet(Counted)
  BY WebSocketAssumption, FS_Subset DEF Counted
<1> QED
  BY <1>1, FS_CardinalityType, FS_EmptySet DEF IInv, CountShape

\* Steps that leave the sends alone.
LEMMA SendsLeft ==
  ASSUME IInv, UNCHANGED sendVars
  PROVE  CountShape' /\ OrderShape'
BY DEF IInv, CountShape, OrderShape, Counted, InChain, sendVars

\* Any other step leaves them alone.
LEMMA Others ==
  ASSUME [Next]_vars,
         \A s \in Sends : ~Send(s) /\ ~Push(s) /\ ~StreamFails(s) /\ ~HandOver(s)
                         /\ ~CountDown(s) /\ ~TakeNext(s)
  PROVE  UNCHANGED sendVars
BY DEF Next, vars, ConnectRefused, Connect, AssignThread, OpenHandler, PeerCloses, Shutdown,
       ThreadReturns, Join, CloseHandler, CloseSet, Close, CloseRefused, Drop, DestroyFront,
       LastSend, Destroy, MessageHandler, MessageOrphaned, SetReceive, Receive, sendVars

\* The sends: which steps move them, and what they leave.
LEMMA CountStep ==
  ASSUME IInv, [Next]_vars
  PROVE  CountShape'
<1> USE DEF IInv, CountShape
<1>0. /\ IsFiniteSet(Counted) /\ Cardinality(Counted) \in Nat /\ numSends \in Nat
      /\ send \in [Sends -> InChain \cup {"unsent", "counted", "queued", "stalled", "done"}]
  BY CountedFinite DEF TypeOK
<1>1. CASE UNCHANGED sendVars
  BY <1>1, SendsLeft
<1>2. ASSUME NEW s \in Sends, Send(s)
      PROVE  CountShape'
  <2>1. Counted' = Counted \cup {s} /\ s \notin Counted
    BY <1>0, <1>2 DEF Send, Counted
  <2>2. numSends' = Cardinality(Counted')
    BY <1>0, <1>2, <2>1, FS_AddElement DEF Send
  <2>3. CASE numSends = 0
    <3>1. \A t \in Sends : send[t] \notin InChain \cup {"stalled"}
      <4>1. Counted = {} /\ ~(numSends > 0)
        BY <2>3, CountedFinite
      <4> QED
        BY <4>1 DEF Counted, InChain
    <3> QED
      BY <1>0, <1>2, <2>2, <2>3, <3>1 DEF Send, InChain
  <2>4. CASE numSends > 0
    BY <1>0, <1>2, <2>2, <2>4 DEF Send, InChain
  <2> QED
    BY <1>0, <2>3, <2>4
<1>3. ASSUME NEW s \in Sends, Push(s) \/ StreamFails(s) \/ HandOver(s)
      PROVE  CountShape'
  <2>1. Counted' = Counted /\ numSends' = numSends
    BY <1>0, <1>3 DEF Push, StreamFails, HandOver, Counted
  <2> QED
    BY <1>0, <1>3, <2>1 DEF Push, StreamFails, HandOver, InChain
<1>4. ASSUME NEW s \in Sends, CountDown(s)
      PROVE  CountShape'
  <2>1. Counted' = Counted \ {s} /\ s \in Counted
    BY <1>0, <1>4 DEF CountDown, Counted
  <2>2. numSends' = Cardinality(Counted')
    BY <1>0, <1>4, <2>1, FS_RemoveElement DEF CountDown
  <2>3. \A t \in Sends : send[t] \in InChain => t = s
    BY <1>4 DEF CountDown, InChain
  <2> QED
    BY <1>0, <1>4, <2>2, <2>3 DEF CountDown, InChain
<1>5. ASSUME NEW s \in Sends, TakeNext(s)
      PROVE  CountShape'
  <2>1. CASE outgoing = <<>>
    BY <1>5, <2>1, SendsLeft DEF TakeNext, sendVars
  <2>2. CASE outgoing # <<>>
    <3> DEFINE h == Head(outgoing)
    <3>1. h \in Sends /\ h = outgoing[1] /\ 1 \in 1..Len(outgoing)
      BY <2>2 DEF TypeOK
    <3>2. send[h] = "queued"
      BY <3>1 DEF OrderShape
    <3>3. send' = [send EXCEPT ![s] = "done", ![h] = "reading"] /\ numSends' = numSends
      BY <1>5, <2>2 DEF TakeNext
    <3> HIDE DEF h
    <3>4. send[s] = "next"
      BY <1>5 DEF TakeNext
    <3>5. Counted' = Counted
      BY <1>0, <3>1, <3>2, <3>3, <3>4 DEF Counted
    <3>6. \A t \in Sends : send[t] \in InChain \cup {"stalled"} => t = s
      BY <3>4 DEF InChain
    <3> QED
      BY <1>0, <3>1, <3>2, <3>3, <3>4, <3>5, <3>6 DEF InChain
  <2> QED
    BY <2>1, <2>2
<1> QED
  BY <1>1, <1>2, <1>3, <1>4, <1>5, Others

\* The order of the sends.
LEMMA OrderStep ==
  ASSUME IInv, [Next]_vars
  PROVE  OrderShape'
<1> USE DEF IInv
<1>0. /\ send \in [Sends -> InChain \cup {"unsent", "counted", "queued", "stalled", "done"}]
      /\ outgoing \in Seq(Sends) /\ accepted \in Seq(Sends) /\ answers \in Seq(Sends)
      /\ Len(outgoing) \in Nat /\ Len(accepted) \in Nat /\ Len(answers) \in Nat
  BY LenProperties DEF TypeOK
<1>1. CASE UNCHANGED sendVars
  BY <1>1, SendsLeft
<1>2. ASSUME NEW s \in Sends, Send(s)
      PROVE  OrderShape'
  <2>1. send[s] = "unsent" /\ outgoing' = outgoing /\ answers' = answers
    BY <1>2 DEF Send
  <2>2. CASE numSends = 0
    <3>1. Counted = {}
      BY <2>2, CountedFinite
    <3>2. \A t \in Sends : send[t] # "queued" /\ send[t] # "reading"
      BY <3>1 DEF Counted
    <3>3. Len(outgoing) = 0
      <4> SUFFICES ASSUME Len(outgoing) # 0
                   PROVE  FALSE
        OBVIOUS
      <4>1. 1 \in 1..Len(outgoing)
        BY <1>0
      <4> QED
        BY <1>0, <3>2, <4>1, ElementOfSeq DEF OrderShape
    <3>4. /\ send' = [send EXCEPT ![s] = "reading"]
          /\ accepted' = Append(accepted, s)
      BY <1>2, <2>2 DEF Send
    <3> QED
      BY <1>0, <2>1, <3>2, <3>3, <3>4 DEF OrderShape
  <2>3. CASE numSends # 0
    <3>1. send' = [send EXCEPT ![s] = "counted"] /\ accepted' = accepted
      BY <1>2, <2>3 DEF Send
    <3> QED
      BY <1>0, <2>1, <3>1 DEF OrderShape
  <2> QED
    BY <2>2, <2>3
<1>3. ASSUME NEW s \in Sends, Push(s)
      PROVE  OrderShape'
  <2>1. /\ send[s] = "counted" /\ send' = [send EXCEPT ![s] = "queued"]
        /\ outgoing' = Append(outgoing, s) /\ accepted' = Append(accepted, s)
        /\ answers' = answers
    BY <1>3 DEF Push
  <2>2. \A j \in 1..Len(outgoing) : outgoing[j] # s
    BY <2>1 DEF OrderShape
  <2>3. /\ Len(outgoing') = Len(outgoing) + 1 /\ outgoing'[Len(outgoing) + 1] = s
        /\ \A j \in 1..Len(outgoing) : outgoing'[j] = outgoing[j]
    BY <1>0, <2>1
  <2>4. /\ Len(accepted') = Len(accepted) + 1 /\ accepted'[Len(accepted) + 1] = s
        /\ \A j \in 1..Len(accepted) : accepted'[j] = accepted[j]
    BY <1>0, <2>1
  <2>5. /\ \A j \in 1..Len(outgoing') : send'[outgoing'[j]] = "queued"
        /\ \A t \in Sends : send'[t] = "queued" => \E j \in 1..Len(outgoing') : outgoing'[j] = t
        /\ \A j, k \in 1..Len(outgoing') : outgoing'[j] = outgoing'[k] => j = k
    BY <1>0, <2>1, <2>2, <2>3, SMTT(30) DEF OrderShape
  <2>6. \/ /\ \A t \in Sends : send'[t] # "reading"
           /\ Len(accepted') = Len(answers') + Len(outgoing')
        \/ \E t \in Sends : /\ send'[t] = "reading"
                            /\ Len(accepted') = Len(answers') + Len(outgoing') + 1
                            /\ accepted'[Len(answers') + 1] = t
    <3>1. \A t \in Sends : send'[t] = "reading" <=> send[t] = "reading"
      BY <1>0, <2>1
    <3>2. CASE \A t \in Sends : send[t] # "reading"
      <4>1. Len(accepted) = Len(answers) + Len(outgoing)
        BY <3>2 DEF OrderShape
      <4> QED
        BY <1>0, <2>1, <2>3, <2>4, <3>1, <3>2, <4>1
    <3>3. CASE ~ \A t \in Sends : send[t] # "reading"
      <4>1. PICK t \in Sends : /\ send[t] = "reading"
                               /\ Len(accepted) = Len(answers) + Len(outgoing) + 1
                               /\ accepted[Len(answers) + 1] = t
        BY <3>3 DEF OrderShape
      <4>2. Len(answers) + 1 \in 1..Len(accepted)
        BY <1>0, <4>1
      <4>3. send'[t] = "reading" /\ accepted'[Len(answers') + 1] = t
        BY <2>1, <2>4, <3>1, <4>1, <4>2
      <4>4. Len(accepted') = Len(answers') + Len(outgoing') + 1
        BY <1>0, <2>1, <2>3, <2>4, <4>1
      <4> QED
        BY <4>3, <4>4
    <3> QED
      BY <3>2, <3>3
  <2>7. \A j \in 1..Len(answers') : answers'[j] = accepted'[j]
    BY <1>0, <2>1, <2>4 DEF OrderShape
  <2>8. Len(outgoing) =< Len(accepted)
    BY <1>0 DEF OrderShape
  <2>9. \A j \in 1..Len(outgoing') : accepted'[Len(accepted') - Len(outgoing') + j] = outgoing'[j]
    <3> SUFFICES ASSUME NEW j \in 1..Len(outgoing')
                 PROVE  accepted'[Len(accepted') - Len(outgoing') + j] = outgoing'[j]
      OBVIOUS
    <3>1. Len(accepted') - Len(outgoing') + j = Len(accepted) - Len(outgoing) + j
      BY <1>0, <2>3, <2>4
    <3>2. CASE j = Len(outgoing) + 1
      BY <1>0, <2>3, <2>4, <3>1, <3>2
    <3>3. CASE j \in 1..Len(outgoing)
      <4>1. Len(accepted) - Len(outgoing) + j \in 1..Len(accepted)
        BY <1>0, <2>8, <3>3
      <4>2. accepted[Len(accepted) - Len(outgoing) + j] = outgoing[j]
        BY <3>3 DEF OrderShape
      <4>3. accepted'[Len(accepted) - Len(outgoing) + j] = accepted[Len(accepted) - Len(outgoing) + j]
        BY <2>4, <4>1
      <4> QED
        BY <2>3, <3>1, <3>3, <4>2, <4>3
    <3> QED
      BY <1>0, <2>3, <3>2, <3>3
  <2> QED
    BY <2>5, <2>6, <2>7, <2>9 DEF OrderShape
<1>4. ASSUME NEW s \in Sends, StreamFails(s) \/ HandOver(s)
      PROVE  OrderShape'
  <2>1. /\ send[s] = "reading" /\ outgoing' = outgoing /\ accepted' = accepted
        /\ answers' = Append(answers, s)
        /\ \A t \in Sends : t # s => send'[t] = send[t]
        /\ send'[s] \in {"answered", "stalled"}
    BY <1>0, <1>4 DEF StreamFails, HandOver
  <2>2. \A t \in Sends : send[t] = "reading" => t = s
    BY <2>1 DEF CountShape, InChain
  <2>3. Len(accepted) = Len(answers) + Len(outgoing) + 1 /\ accepted[Len(answers) + 1] = s
    BY <2>1, <2>2 DEF OrderShape
  <2>4. /\ Len(answers') = Len(answers) + 1 /\ answers'[Len(answers) + 1] = s
        /\ \A j \in 1..Len(answers) : answers'[j] = answers[j]
    BY <1>0, <2>1
  <2>5. /\ \A t \in Sends : send'[t] # "reading"
        /\ \A t \in Sends : send'[t] = "queued" <=> send[t] = "queued"
    BY <2>1, <2>2
  <2>6. \A j \in 1..Len(outgoing) : outgoing[j] \in Sends
    BY <1>0, ElementOfSeq
  <2>7. \A j \in 1..Len(answers') : answers'[j] = accepted'[j]
    BY <1>0, <2>1, <2>3, <2>4 DEF OrderShape
  <2>8. /\ \A j \in 1..Len(outgoing') : send'[outgoing'[j]] = "queued"
        /\ \A t \in Sends : send'[t] = "queued" => \E j \in 1..Len(outgoing') : outgoing'[j] = t
        /\ \A j, k \in 1..Len(outgoing') : outgoing'[j] = outgoing'[k] => j = k
        /\ \A j \in 1..Len(outgoing') : accepted'[Len(accepted') - Len(outgoing') + j] = outgoing'[j]
    BY <2>1, <2>5, <2>6 DEF OrderShape
  <2>9. Len(accepted') = Len(answers') + Len(outgoing')
    BY <1>0, <2>1, <2>3, <2>4
  <2> QED
    BY <2>5, <2>7, <2>8, <2>9 DEF OrderShape
<1>5. ASSUME NEW s \in Sends, CountDown(s)
      PROVE  OrderShape'
  <2>1. /\ UNCHANGED <<outgoing, accepted, answers>>
        /\ send[s] = "answered" /\ send'[s] \in {"next", "done"}
        /\ \A t \in Sends : t # s => send'[t] = send[t]
    BY <1>0, <1>5 DEF CountDown
  <2>2. \A t \in Sends : /\ send'[t] = "queued" <=> send[t] = "queued"
                         /\ send'[t] = "reading" <=> send[t] = "reading"
    BY <2>1
  <2>3. \A j \in 1..Len(outgoing) : outgoing[j] \in Sends
    BY <1>0, ElementOfSeq
  <2> QED
    BY <2>1, <2>2, <2>3 DEF OrderShape
<1>6. ASSUME NEW s \in Sends, TakeNext(s)
      PROVE  OrderShape'
  <2>1. CASE outgoing = <<>>
    BY <1>6, <2>1, SendsLeft DEF TakeNext, sendVars
  <2>2. CASE outgoing # <<>>
    <3> DEFINE h == Head(outgoing)
    <3>1. /\ h = outgoing[1] /\ h \in Sends /\ Len(outgoing) > 0
          /\ Len(outgoing') = Len(outgoing) - 1
          /\ \A j \in 1..Len(outgoing') : outgoing'[j] = outgoing[j + 1]
      <4>1. outgoing' = Tail(outgoing) /\ Len(outgoing) > 0
        BY <1>0, <1>6, <2>2, EmptySeq DEF TakeNext
      <4> QED
        BY <1>0, <2>2, <4>1, HeadTailProperties
    <3>2. /\ send[s] = "next" /\ send[h] = "queued"
          /\ send' = [send EXCEPT ![s] = "done", ![h] = "reading"]
          /\ accepted' = accepted /\ answers' = answers
      BY <1>0, <1>6, <2>2, <3>1 DEF TakeNext, OrderShape
    <3> HIDE DEF h
    <3>3. \A t \in Sends : send[t] # "reading"
      BY <3>2 DEF CountShape, InChain
    <3>4. /\ Len(accepted) = Len(answers) + Len(outgoing)
          /\ accepted[Len(answers) + 1] = h
      <4>1. Len(accepted) = Len(answers) + Len(outgoing)
        BY <3>3 DEF OrderShape
      <4>2. accepted[Len(accepted) - Len(outgoing) + 1] = outgoing[1]
        BY <1>0, <3>1 DEF OrderShape
      <4> QED
        BY <1>0, <3>1, <4>1, <4>2
    <3>5. /\ send'[h] = "reading" /\ send'[s] = "done"
          /\ \A t \in Sends : t # s /\ t # h => send'[t] = send[t]
      BY <1>0, <3>1, <3>2
    <3>6. \A j \in 1..Len(outgoing') : /\ j \in 1..Len(outgoing) /\ j + 1 \in 1..Len(outgoing)
                                       /\ outgoing'[j] \in Sends /\ outgoing'[j] # h
                                       /\ outgoing'[j] # s
      <4> SUFFICES ASSUME NEW j \in 1..Len(outgoing')
                   PROVE  /\ j \in 1..Len(outgoing) /\ j + 1 \in 1..Len(outgoing)
                          /\ outgoing[j + 1] \in Sends /\ outgoing[j + 1] # h
                          /\ outgoing[j + 1] # s
        BY <3>1
      <4>1. j \in 1..Len(outgoing) /\ j + 1 \in 1..Len(outgoing) /\ 1 \in 1..Len(outgoing) /\ j + 1 # 1
        BY <1>0, <3>1
      <4>2. outgoing[j + 1] \in Sends /\ send[outgoing[j + 1]] = "queued"
        BY <1>0, <4>1, ElementOfSeq DEF OrderShape
      <4>3. outgoing[j + 1] # outgoing[1]
        BY <4>1 DEF OrderShape
      <4> QED
        BY <3>1, <3>2, <4>1, <4>2, <4>3
    <3>7. \A j \in 1..Len(outgoing') : send'[outgoing'[j]] = "queued"
      <4> SUFFICES ASSUME NEW j \in 1..Len(outgoing')
                   PROVE  send'[outgoing'[j]] = "queued"
        OBVIOUS
      <4>1. send[outgoing[j + 1]] = "queued" /\ outgoing[j + 1] = outgoing'[j]
        BY <3>1, <3>6 DEF OrderShape
      <4> QED
        BY <3>5, <3>6, <4>1
    <3>8. \A t \in Sends : send'[t] = "queued" => \E j \in 1..Len(outgoing') : outgoing'[j] = t
      <4> SUFFICES ASSUME NEW t \in Sends, send'[t] = "queued"
                   PROVE  \E j \in 1..Len(outgoing') : outgoing'[j] = t
        OBVIOUS
      <4>1. t # h /\ send[t] = "queued"
        BY <3>5
      <4>2. PICK j \in 1..Len(outgoing) : outgoing[j] = t
        BY <4>1 DEF OrderShape
      <4>3. j # 1
        BY <3>1, <4>1, <4>2
      <4>4. j - 1 \in 1..Len(outgoing') /\ (j - 1) + 1 = j
        BY <1>0, <3>1, <4>3
      <4> QED
        BY <3>1, <4>2, <4>4
    <3>9. \A j, k \in 1..Len(outgoing') : outgoing'[j] = outgoing'[k] => j = k
      <4> SUFFICES ASSUME NEW j \in 1..Len(outgoing'), NEW k \in 1..Len(outgoing'),
                          outgoing'[j] = outgoing'[k]
                   PROVE  j = k
        OBVIOUS
      <4>1. outgoing[j + 1] = outgoing[k + 1]
        BY <3>1
      <4>2. j + 1 \in 1..Len(outgoing) /\ k + 1 \in 1..Len(outgoing)
        BY <3>6
      <4>3. j + 1 = k + 1
        BY <4>1, <4>2 DEF OrderShape
      <4> QED
        BY <4>3
    <3>10. \A j \in 1..Len(outgoing') : accepted'[Len(accepted') - Len(outgoing') + j] = outgoing'[j]
      <4> SUFFICES ASSUME NEW j \in 1..Len(outgoing')
                   PROVE  accepted'[Len(accepted') - Len(outgoing') + j] = outgoing'[j]
        OBVIOUS
      <4>1. Len(accepted') - Len(outgoing') + j = Len(accepted) - Len(outgoing) + (j + 1)
        BY <1>0, <3>1, <3>2
      <4> QED
        BY <3>1, <3>2, <3>6, <4>1 DEF OrderShape
    <3>11. /\ Len(accepted') = Len(answers') + Len(outgoing') + 1
           /\ accepted'[Len(answers') + 1] = h
           /\ \A j \in 1..Len(answers') : answers'[j] = accepted'[j]
      BY <1>0, <3>1, <3>2, <3>4 DEF OrderShape
    <3> QED
      BY <3>1, <3>5, <3>7, <3>8, <3>9, <3>10, <3>11 DEF OrderShape
  <2> QED
    BY <2>1, <2>2
<1> QED
  BY <1>1, <1>2, <1>3, <1>4, <1>5, <1>6, Others


\* The types, of the connection, the sends and the receives.
LinkTypes ==
  /\ state \in {"CREATED", "CONNECTING", "CONNECTED", "CLOSING", "CLOSED", "DESTROYED"}
  /\ link \in {"none", "connecting"} \cup Up \cup {"ended"}
  /\ thread \in [assigned : BOOLEAN, running : BOOLEAN]
  /\ client \in BOOLEAN /\ closed \in BOOLEAN /\ front \in BOOLEAN
  /\ opened \in {"none", "set", "failed"}
  /\ shut \in {"none", "failing", "closing", "handler", "last", "done"}
  /\ owner \in {"program", "front", "sends", "destructor", "none"}
  /\ broken \in {"no", "queue", "client", "front", "thread"}

SendTypes ==
  /\ numSends \in 0..Cardinality(Sends)
  /\ outgoing \in Seq(Sends) /\ accepted \in Seq(Sends) /\ answers \in Seq(Sends)
  /\ send \in [Sends -> InChain \cup {"unsent", "counted", "queued", "stalled", "done"}]

ReceiveTypes ==
  /\ incoming \in Seq(Messages) /\ waiting \in Seq(Receives)
  /\ setting \in Seq(Receives \X Messages)
  /\ frontClosed \in BOOLEAN
  /\ receive \in [Receives -> Error..MaxMessages]
  /\ arrived \in 0..MaxMessages

receiveVars == <<incoming, waiting, setting, frontClosed, receive, arrived>>

LEMMA Types == TypeOK <=> LinkTypes /\ SendTypes /\ ReceiveTypes
BY DEF TypeOK, LinkTypes, SendTypes, ReceiveTypes

\* Closing the front, and any other step but three, leaves the messages alone.
LEMMA ReceivesLeft ==
  ASSUME [Next]_vars, ~MessageHandler, ~SetReceive,
         \A r \in Receives : ~Receive(r)
  PROVE  UNCHANGED receiveVars \/ ClosePending
BY DEF Next, vars, ConnectRefused, Connect, AssignThread, OpenHandler, PeerCloses, Shutdown,
       ThreadReturns, Join, CloseHandler, CloseSet, Close, CloseRefused, Drop, DestroyFront,
       LastSend, Destroy, MessageOrphaned, Send, Push, StreamFails, HandOver,
       CountDown, TakeNext, frontVars, receiveVars

LEMMA LinkTypesStep ==
  ASSUME LinkTypes, [Next]_vars
  PROVE  LinkTypes'
<1> DEFINE Thread == thread \in [assigned : BOOLEAN, running : BOOLEAN]
           Flags == client \in BOOLEAN /\ closed \in BOOLEAN /\ front \in BOOLEAN
           Rest == /\ state \in {"CREATED", "CONNECTING", "CONNECTED", "CLOSING", "CLOSED", "DESTROYED"}
                   /\ link \in {"none", "connecting"} \cup Up \cup {"ended"}
                   /\ opened \in {"none", "set", "failed"}
                   /\ shut \in {"none", "failing", "closing", "handler", "last", "done"}
                   /\ owner \in {"program", "front", "sends", "destructor", "none"}
                   /\ broken \in {"no", "queue", "client", "front", "thread"}
<1> USE DEF Next, vars, linkVars, frontVars, ConnectRefused, Connect, AssignThread, OpenHandler,
            PeerCloses, Shutdown, ThreadReturns, Join, CloseHandler, CloseSet, Close,
            CloseRefused, Drop, DestroyFront, LastSend, Destroy, Send, Push, StreamFails, HandOver, CountDown, TakeNext,
            MessageHandler, MessageOrphaned, SetReceive, Receive
<1>1. Thread'
  <2>1. Thread
    BY DEF LinkTypes
  <2>2. \/ thread' = thread
        \/ thread' = [thread EXCEPT !.assigned = TRUE]
        \/ thread' = [thread EXCEPT !.running = FALSE]
        \/ thread' = [assigned |-> FALSE, running |-> TRUE]
    BY Zenon
  <2>3. [assigned |-> FALSE, running |-> TRUE] \in [assigned : BOOLEAN, running : BOOLEAN]
    BY ONLY SMT
  <2> QED
    BY ONLY <2>1, <2>2, <2>3, Zenon
<1>2. Flags'
  <2>1. Flags
    BY DEF LinkTypes
  <2> QED
    BY <2>1, Zenon
<1>3. Rest'
  <2>1. Rest
    BY DEF LinkTypes
  <2> QED
    BY <2>1 DEF Up
<1> QED
  BY <1>1, <1>2, <1>3 DEF LinkTypes

LEMMA SendTypesStep ==
  ASSUME IInv, [Next]_vars
  PROVE  SendTypes'
<1>0. SendTypes
  BY Types DEF IInv
<1>1. numSends' \in 0..Cardinality(Sends)
  <2>1. numSends' = Cardinality(Counted') /\ Counted' \in SUBSET Sends
    BY CountStep DEF CountShape, Counted
  <2>2. /\ Cardinality(Counted') \in Nat /\ Cardinality(Sends) \in Nat
        /\ Cardinality(Counted') =< Cardinality(Sends)
    BY <2>1, WebSocketAssumption, FS_Subset, FS_CardinalityType
  <2> QED
    BY <2>1, <2>2
<1>2. CASE UNCHANGED sendVars
  BY <1>0, <1>2 DEF sendVars, SendTypes
<1>3. ASSUME NEW s \in Sends, Send(s) \/ Push(s) \/ StreamFails(s) \/ HandOver(s)
      PROVE  SendTypes'
  <2>1. /\ Append(outgoing, s) \in Seq(Sends) /\ Append(accepted, s) \in Seq(Sends)
        /\ Append(answers, s) \in Seq(Sends)
    BY <1>0, AppendProperties DEF SendTypes
  <2> QED
    BY <1>0, <1>1, <1>3, <2>1 DEF Send, Push, StreamFails, HandOver, SendTypes, InChain
<1>4. ASSUME NEW s \in Sends, CountDown(s) \/ TakeNext(s)
      PROVE  SendTypes'
  <2>1. outgoing # <<>> => Tail(outgoing) \in Seq(Sends) /\ Head(outgoing) \in Sends
    BY <1>0, HeadTailProperties DEF SendTypes
  <2> QED
    BY <1>0, <1>1, <1>4, <2>1 DEF CountDown, TakeNext, SendTypes, InChain
<1> QED
  BY <1>2, <1>3, <1>4, Others

LEMMA ReceiveTypesStep ==
  ASSUME ReceiveTypes, [Next]_vars
  PROVE  ReceiveTypes'
<1> USE DEF ReceiveTypes
<1>1. CASE UNCHANGED receiveVars
  BY <1>1 DEF receiveVars
<1>2. CASE ClosePending
  <2>1. receive' \in [Receives -> Error..MaxMessages]
    BY <1>2, WebSocketAssumption DEF ClosePending, Error
  <2>2. waiting' \in Seq(Receives) /\ UNCHANGED <<incoming, setting, arrived>> /\ frontClosed'
    BY <1>2 DEF ClosePending
  <2> QED
    BY <2>1, <2>2
<1>3. CASE MessageHandler
  <2>1. waiting # <<>> => Tail(waiting) \in Seq(Receives) /\ Head(waiting) \in Receives
    BY HeadTailProperties
  <2>2. arrived + 1 \in Messages /\ arrived' \in 0..MaxMessages
    BY <1>3, WebSocketAssumption DEF MessageHandler, Messages
  <2>3. Append(incoming, arrived + 1) \in Seq(Messages)
    BY <2>2, AppendProperties
  <2>4. waiting # <<>> => <<<<Head(waiting), arrived + 1>>>> \in Seq(Receives \X Messages)
    BY <2>1, <2>2
  <2>5. UNCHANGED <<frontClosed, receive>>
    BY <1>3 DEF MessageHandler
  <2> QED
    BY <1>3, <2>1, <2>2, <2>3, <2>4, <2>5 DEF MessageHandler
<1>4. CASE SetReceive
  <2>1. setting[1] \in Receives \X Messages
    BY <1>4, EmptySeq, ElementOfSeq DEF SetReceive
  <2>2. setting[1][2] \in Error..MaxMessages
    BY <2>1, WebSocketAssumption DEF Messages, Error
  <2>3. receive' \in [Receives -> Error..MaxMessages]
    BY <1>4, <2>2 DEF SetReceive
  <2>4. setting' \in Seq(Receives \X Messages)
    BY <1>4 DEF SetReceive
  <2> QED
    BY <1>4, <2>3, <2>4 DEF SetReceive
<1>5. ASSUME NEW r \in Receives, Receive(r)
      PROVE  ReceiveTypes'
  <2>1. incoming # <<>> => /\ Tail(incoming) \in Seq(Messages) /\ Head(incoming) \in Messages
                           /\ Head(incoming) \in Error..MaxMessages
    BY HeadTailProperties, WebSocketAssumption DEF Messages, Error
  <2>2. Append(waiting, r) \in Seq(Receives)
    BY AppendProperties
  <2>3. Error \in Error..MaxMessages /\ Waiting \in Error..MaxMessages
    BY WebSocketAssumption DEF Waiting, Error
  <2>4. UNCHANGED <<setting, frontClosed, arrived>>
    BY <1>5 DEF Receive
  <2> QED
    BY <1>5, <2>1, <2>2, <2>3, <2>4 DEF Receive
<1> QED
  BY <1>1, <1>2, <1>3, <1>4, <1>5, ReceivesLeft

\* Where the messages that came in are.
LEMMA ReceiveStep ==
  ASSUME ReceiveTypes, ReceiveShape, [Next]_vars
  PROVE  ReceiveShape'
<1>0. /\ incoming \in Seq(Messages) /\ Len(incoming) \in Nat
      /\ waiting \in Seq(Receives) /\ Len(waiting) \in Nat
      /\ setting \in Seq(Receives \X Messages) /\ Len(setting) \in Nat
      /\ receive \in [Receives -> Error..MaxMessages] /\ arrived \in Nat
      /\ waiting = <<>> <=> Len(waiting) = 0
      /\ incoming = <<>> <=> Len(incoming) = 0
      /\ setting # <<>> => setting[1][1] \in Receives /\ setting[1][2] \in Messages
  <2>1. setting # <<>> => setting[1] \in Receives \X Messages
    BY EmptySeq, ElementOfSeq DEF ReceiveTypes
  <2> QED
    BY <2>1, EmptySeq, LenProperties DEF ReceiveTypes
<1>1. CASE UNCHANGED receiveVars
  BY <1>1 DEF receiveVars, ReceiveShape, InQueue, InReceive, InSetting
<1>2. CASE ClosePending
  <2>1. UNCHANGED <<incoming, setting, arrived>> /\ waiting' = <<>>
    BY <1>2 DEF ClosePending
  <2>2. \A r \in Receives : \/ receive'[r] = receive[r]
                            \/ /\ receive[r] = Waiting /\ receive'[r] = Error
                               /\ \E j \in 1..Len(waiting) : waiting[j] = r
    <3>1. DOMAIN waiting = 1..Len(waiting)
      BY <1>0, LenProperties
    <3> QED
      BY <1>0, <1>2, <3>1 DEF ClosePending, ReceiveShape
  <2>3. \A m \in Nat \ {0} : \A r \in Receives : receive'[r] = m <=> receive[r] = m
    BY <1>0, <2>2 DEF Waiting, Error
  <2>4. \A m \in 1..arrived : InReceive(m)' <=> InReceive(m)
    BY <1>0, <2>3 DEF InReceive
  <2>5. setting # <<>> => receive'[setting[1][1]] = Waiting
    BY <1>0, <2>2 DEF ReceiveShape
  <2>6. /\ \A r \in Receives : receive'[r] =< arrived
        /\ \A r, q \in Receives : receive'[r] = receive'[q] /\ receive'[r] > 0 => r = q
    BY <1>0, <2>2, SMTT(30) DEF ReceiveShape, Error
  <2> QED
    BY <1>0, <2>1, <2>4, <2>5, <2>6 DEF ReceiveShape, InQueue, InSetting
<1>3. CASE MessageHandler /\ waiting = <<>>
  <2> DEFINE n == arrived + 1
  <2>1. /\ setting = <<>> /\ setting' = <<>> /\ waiting' = waiting
        /\ receive' = receive /\ arrived' = n /\ incoming' = Append(incoming, n)
        /\ frontClosed' = frontClosed
    BY <1>3 DEF MessageHandler, OnThread
  <2>0. n \in Messages /\ n \in Nat /\ n \in 1..n
    BY <1>0, <1>3, WebSocketAssumption DEF MessageHandler, Messages
  <2>2. /\ Len(incoming') = Len(incoming) + 1 /\ incoming'[Len(incoming) + 1] = n
        /\ \A j \in 1..Len(incoming) : incoming'[j] = incoming[j]
    BY <1>0, <2>0, <2>1, AppendProperties
  <2> HIDE DEF n
  <2>3. \A m \in 1..arrived : InQueue(m)' <=> InQueue(m)
    <3>1. \A j \in 1..Len(incoming') : j \in 1..Len(incoming) \/ j = Len(incoming) + 1
      BY <1>0, <2>2
    <3>2. n \notin 1..arrived
      BY <1>0 DEF n
    <3>3. \A j \in 1..Len(incoming) : j \in 1..Len(incoming')
      BY <1>0, <2>2
    <3> QED
      BY <2>2, <3>1, <3>2, <3>3 DEF InQueue
  <2>4. \A m \in 1..n : m = n => InQueue(m)' /\ ~InReceive(m)
    <3>1. Len(incoming) + 1 \in 1..Len(incoming')
      BY <1>0, <2>2
    <3> QED
      <4>1. \A r \in Receives : receive[r] # n
        BY <1>0, <2>0 DEF n, ReceiveShape
      <4> QED
        BY <2>1, <2>2, <3>1, <4>1 DEF InQueue, InReceive
  <2>5. \A m \in 1..n : m = n \/ m \in 1..arrived
    BY <1>0 DEF n
  <2>6. /\ \A j \in 1..Len(incoming') : incoming'[j] \in 1..arrived'
        /\ \A j, k \in 1..Len(incoming') : incoming'[j] = incoming'[k] => j = k
    <3>1. \A j \in 1..Len(incoming') : j \in 1..Len(incoming) \/ j = Len(incoming) + 1
      BY <1>0, <2>2
    <3>2. n \notin 1..arrived /\ \A m \in 1..arrived : m \in 1..n
      BY <1>0, <2>0 DEF n
    <3>3. \A j \in 1..Len(incoming) : incoming[j] \in 1..arrived
      BY DEF ReceiveShape
    <3> QED
      BY <2>0, <2>1, <2>2, <3>1, <3>2, <3>3 DEF ReceiveShape
  <2>7. \A m \in 1..arrived' :
       /\ InQueue(m)' \/ InReceive(m)' \/ InSetting(m)'
       /\ ~(InQueue(m)' /\ InReceive(m)')
       /\ ~(InQueue(m)' /\ InSetting(m)')
       /\ ~(InReceive(m)' /\ InSetting(m)')
    <3>1. \A m \in 1..n : ~InSetting(m)' /\ (InReceive(m)' <=> InReceive(m))
      BY <2>1 DEF InReceive, InSetting
    <3>2. \A m \in 1..arrived : ~InSetting(m)
      BY <2>1 DEF InSetting
    <3> QED
      BY <2>1, <2>3, <2>4, <2>5, <3>1, <3>2 DEF ReceiveShape
  <2>8. \A r \in Receives : receive'[r] =< arrived'
    BY <1>0, <2>1 DEF ReceiveShape, n
  <2> QED
    BY <1>0, <1>3, <2>1, <2>6, <2>7, <2>8 DEF ReceiveShape
<1>4. CASE MessageHandler /\ waiting # <<>>
  <2> DEFINE n == arrived + 1
             q == Head(waiting)
  <2>1. /\ setting = <<>> /\ setting' = <<<<q, n>>>> /\ waiting' = Tail(waiting)
        /\ UNCHANGED <<receive, incoming, frontClosed>> /\ arrived' = n
    BY <1>4 DEF MessageHandler, OnThread
  <2>0. n \in Messages /\ n \in Nat /\ n \in 1..n
    BY <1>0, <1>4, WebSocketAssumption DEF MessageHandler, Messages
  <2>2. /\ q \in Receives /\ q = waiting[1] /\ Len(waiting) > 0
        /\ Len(waiting') = Len(waiting) - 1
        /\ \A j \in 1..Len(waiting') : waiting'[j] = waiting[j + 1]
    BY <1>0, <1>4, <2>1, HeadTailProperties
  <2>3. incoming = <<>> /\ ~frontClosed
    BY <1>4 DEF ReceiveShape
  <2>4. \A j \in 1..Len(waiting') : /\ j + 1 \in 1..Len(waiting) /\ 1 \in 1..Len(waiting)
                                    /\ j + 1 # 1
    BY <1>0, <2>2
  <2>5. \A j \in 1..Len(waiting') : waiting'[j] # q /\ receive[waiting'[j]] = Waiting
    <3> SUFFICES ASSUME NEW j \in 1..Len(waiting')
                 PROVE  waiting'[j] # q /\ receive[waiting'[j]] = Waiting
      OBVIOUS
    <3>1. j + 1 \in 1..Len(waiting) /\ 1 \in 1..Len(waiting) /\ j + 1 # 1
      BY <2>4
    <3>2. waiting[j + 1] # waiting[1] /\ receive[waiting[j + 1]] = Waiting
      BY <3>1 DEF ReceiveShape
    <3> QED
      BY <2>2, <3>2
  <2>6. \A j, k \in 1..Len(waiting') : waiting'[j] = waiting'[k] => j = k
    <3> SUFFICES ASSUME NEW j \in 1..Len(waiting'), NEW k \in 1..Len(waiting'),
                        waiting'[j] = waiting'[k]
                 PROVE  j = k
      OBVIOUS
    <3>1. j + 1 = k + 1
      BY <2>2, <2>4 DEF ReceiveShape
    <3> QED
      BY <1>0, <3>1
  <2>7. /\ setting' # <<>> /\ Len(setting') = 1 /\ setting'[1][1] = q /\ setting'[1][2] = n
    BY <2>1
  <2>8. receive[q] = Waiting
    BY <1>0, <2>2 DEF ReceiveShape
  <2>9. ~InReceive(n) /\ n \in 1..n
    BY <1>0, <2>1 DEF InReceive, ReceiveShape
  <2>10. \A m \in 1..n : /\ ~InQueue(m)'
                         /\ InReceive(m)' <=> InReceive(m)
                         /\ InSetting(m)' <=> m = n
                         /\ m = n \/ m \in 1..arrived
    BY <1>0, <2>1, <2>3, <2>7 DEF InQueue, InReceive, InSetting
  <2>11. \A m \in 1..arrived : InReceive(m) /\ m # n
    BY <1>0, <2>1, <2>3 DEF ReceiveShape, InQueue, InSetting
  <2>12. \A m \in 1..arrived' :
       /\ InQueue(m)' \/ InReceive(m)' \/ InSetting(m)'
       /\ ~(InQueue(m)' /\ InReceive(m)')
       /\ ~(InQueue(m)' /\ InSetting(m)')
       /\ ~(InReceive(m)' /\ InSetting(m)')
    BY <2>1, <2>9, <2>10, <2>11
  <2>13. /\ \A r \in Receives : receive'[r] =< arrived'
         /\ \A j \in 1..Len(incoming') : incoming'[j] \in 1..arrived'
    BY <1>0, <2>1, <2>3 DEF ReceiveShape
  <2> HIDE DEF n, q
  <2> QED
    BY <2>1, <2>3, <2>5, <2>6, <2>7, <2>8, <2>9, <2>12, <2>13 DEF ReceiveShape
<1>5. CASE SetReceive
  <2> DEFINE q == setting[1][1]
             n == setting[1][2]
  <2>1. /\ setting # <<>> /\ setting' = <<>> /\ UNCHANGED <<incoming, waiting, frontClosed, arrived>>
        /\ receive' = [receive EXCEPT ![q] = n]
    BY <1>5 DEF SetReceive
  <2>2. /\ q \in Receives /\ n \in 1..arrived /\ receive[q] = Waiting
        /\ \A j \in 1..Len(waiting) : waiting[j] # q
    BY <1>0, <2>1 DEF ReceiveShape
  <2>3. ~InQueue(n) /\ ~InReceive(n)
    BY <2>1, <2>2 DEF ReceiveShape, InSetting
  <2>4. \A m \in 1..arrived : InSetting(m) <=> m = n
    BY <2>1 DEF InSetting
  <2> HIDE DEF q, n
  <2>5. receive'[q] = n /\ \A r \in Receives : r # q => receive'[r] = receive[r]
    BY <1>0, <2>1, <2>2
  <2>6. \A m \in 1..arrived : InReceive(m)' <=> InReceive(m) \/ m = n
    <3> SUFFICES ASSUME NEW m \in 1..arrived
                 PROVE  InReceive(m)' <=> InReceive(m) \/ m = n
      OBVIOUS
    <3>1. ASSUME NEW r \in Receives, receive[r] = m
          PROVE  r # q
      BY <1>0, <2>2, <3>1 DEF Waiting
    <3> QED
      BY <2>2, <2>5, <3>1 DEF InReceive
  <2>7. \A m \in 1..arrived : (InQueue(m)' <=> InQueue(m)) /\ ~InSetting(m)'
    BY <2>1 DEF InQueue, InSetting
  <2>8. \A m \in 1..arrived' :
       /\ InQueue(m)' \/ InReceive(m)' \/ InSetting(m)'
       /\ ~(InQueue(m)' /\ InReceive(m)')
       /\ ~(InQueue(m)' /\ InSetting(m)')
       /\ ~(InReceive(m)' /\ InSetting(m)')
    BY <2>1, <2>3, <2>4, <2>6, <2>7 DEF ReceiveShape
  <2>9. \A r, p \in Receives : receive'[r] = receive'[p] /\ receive'[r] > 0 => r = p
    BY <2>3, <2>5 DEF ReceiveShape, InReceive
  <2>10. \A r \in Receives : receive'[r] =< arrived'
    BY <1>0, <2>1, <2>2, <2>5 DEF ReceiveShape
  <2>11. \A j \in 1..Len(waiting) : waiting[j] \in Receives
    BY <1>0, ElementOfSeq
  <2>12. \A j \in 1..Len(waiting') : receive'[waiting'[j]] = Waiting
    BY <2>1, <2>2, <2>5, <2>11 DEF ReceiveShape
  <2> QED
    BY <2>1, <2>8, <2>9, <2>10, <2>12 DEF ReceiveShape
<1>6. ASSUME NEW r \in Receives, Receive(r)
      PROVE  ReceiveShape'
  <2>1. receive[r] = NotCalled /\ UNCHANGED <<setting, frontClosed, arrived>>
    BY <1>6 DEF Receive
  <2>2. CASE frontClosed
    <3>1. receive' = [receive EXCEPT ![r] = Error] /\ UNCHANGED <<incoming, waiting>>
      BY <1>6, <2>2 DEF Receive
    <3>2. /\ receive'[r] = Error /\ \A q \in Receives : q # r => receive'[q] = receive[q]
          /\ waiting = <<>>
      BY <1>0, <2>2, <3>1 DEF ReceiveShape
    <3>3. \A m \in 1..arrived : /\ InReceive(m)' <=> InReceive(m)
                                /\ InQueue(m)' <=> InQueue(m)
                                /\ InSetting(m)' <=> InSetting(m)
      BY <1>0, <2>1, <3>1, <3>2 DEF InReceive, InQueue, InSetting, NotCalled, Error
    <3>4. setting # <<>> => setting[1][1] # r
      BY <2>1 DEF ReceiveShape, Waiting, NotCalled
    <3>5. /\ \A q \in Receives : receive'[q] =< arrived
          /\ \A p, q \in Receives : receive'[p] = receive'[q] /\ receive'[p] > 0 => p = q
      BY <1>0, <3>2 DEF ReceiveShape, Error
    <3> QED
      BY <1>0, <2>1, <3>1, <3>2, <3>3, <3>4, <3>5 DEF ReceiveShape
  <2>3. CASE ~frontClosed /\ incoming = <<>>
    <3>1. /\ receive' = [receive EXCEPT ![r] = Waiting]
          /\ waiting' = Append(waiting, r) /\ UNCHANGED incoming
      BY <1>6, <2>3 DEF Receive
    <3>2. /\ receive'[r] = Waiting /\ \A q \in Receives : q # r => receive'[q] = receive[q]
          /\ \A j \in 1..Len(waiting) : waiting[j] # r /\ waiting[j] \in Receives
          /\ Len(waiting') = Len(waiting) + 1 /\ waiting'[Len(waiting) + 1] = r
          /\ \A j \in 1..Len(waiting) : waiting'[j] = waiting[j]
      <4>1. \A j \in 1..Len(waiting) : waiting[j] # r
        BY <2>1 DEF ReceiveShape, Waiting, NotCalled
      <4> QED
        BY <1>0, <3>1, <4>1, AppendProperties, ElementOfSeq
    <3>3. \A j \in 1..Len(waiting') : j \in 1..Len(waiting) \/ j = Len(waiting) + 1
      BY <1>0, <3>2
    <3>4. \A m \in 1..arrived : /\ InReceive(m)' <=> InReceive(m)
                                /\ InQueue(m)' <=> InQueue(m)
                                /\ InSetting(m)' <=> InSetting(m)
      BY <1>0, <2>1, <3>1, <3>2 DEF InReceive, InQueue, InSetting, NotCalled, Waiting
    <3>5. setting # <<>> => setting[1][1] # r
      BY <2>1 DEF ReceiveShape, Waiting, NotCalled
    <3>6. /\ \A q \in Receives : receive'[q] =< arrived
          /\ \A p, q \in Receives : receive'[p] = receive'[q] /\ receive'[p] > 0 => p = q
      <4>1. /\ \A q \in Receives : receive[q] =< arrived
            /\ \A p, q \in Receives : receive[p] = receive[q] /\ receive[p] > 0 => p = q
        BY DEF ReceiveShape
      <4>2. Waiting =< arrived /\ ~(Waiting > 0)
        BY <1>0 DEF Waiting
      <4>3. \A q \in Receives : receive'[q] =< arrived
        BY <3>2, <4>1, <4>2
      <4>4. ASSUME NEW p \in Receives, NEW q \in Receives,
                   receive'[p] = receive'[q], receive'[p] > 0
            PROVE  p = q
        <5>1. p # r /\ q # r
          BY <3>2, <4>2, <4>4
        <5> QED
          BY <3>2, <4>1, <4>4, <5>1
      <4> QED
        BY <4>3, <4>4
    <3>7. /\ \A j \in 1..Len(waiting') : receive'[waiting'[j]] = Waiting
          /\ \A j, k \in 1..Len(waiting') : waiting'[j] = waiting'[k] => j = k
      BY <3>2, <3>3 DEF ReceiveShape
    <3>8. setting' # <<>> => /\ setting'[1][2] \in 1..arrived'
                             /\ receive'[setting'[1][1]] = Waiting
                             /\ \A j \in 1..Len(waiting') : waiting'[j] # setting'[1][1]
      BY <1>0, <2>1, <3>2, <3>3, <3>5 DEF ReceiveShape
    <3> QED
      BY <1>0, <2>1, <2>3, <3>1, <3>4, <3>6, <3>7, <3>8, SMTT(30) DEF ReceiveShape
  <2>4. CASE ~frontClosed /\ incoming # <<>>
    <3> DEFINE n == Head(incoming)
    <3>1. /\ receive' = [receive EXCEPT ![r] = n]
          /\ incoming' = Tail(incoming) /\ UNCHANGED waiting /\ waiting = <<>>
      BY <1>6, <2>4 DEF Receive, ReceiveShape
    <3>2. /\ n = incoming[1] /\ n \in 1..arrived /\ Len(incoming) > 0
          /\ Len(incoming') = Len(incoming) - 1
          /\ \A j \in 1..Len(incoming') : incoming'[j] = incoming[j + 1]
      <4>1. Len(incoming) > 0 /\ 1 \in 1..Len(incoming)
        BY <1>0, <2>4
      <4> QED
        BY <1>0, <2>4, <3>1, <4>1, HeadTailProperties DEF ReceiveShape
    <3>3. ~InReceive(n) /\ ~InSetting(n) /\ InQueue(n)
      <4>1. InQueue(n)
        BY <1>0, <3>2 DEF InQueue
      <4> QED
        BY <3>2, <4>1 DEF ReceiveShape
    <3>4. \A j \in 1..Len(incoming') : /\ j + 1 \in 1..Len(incoming) /\ j + 1 # 1
                                       /\ 1 \in 1..Len(incoming)
      BY <1>0, <3>2
    <3>5. \A j \in 1..Len(incoming') : incoming'[j] # n /\ incoming'[j] \in 1..arrived
      BY <3>2, <3>4 DEF ReceiveShape
    <3>6. \A j, k \in 1..Len(incoming') : incoming'[j] = incoming'[k] => j = k
      <4> SUFFICES ASSUME NEW j \in 1..Len(incoming'), NEW k \in 1..Len(incoming'),
                          incoming'[j] = incoming'[k]
                   PROVE  j = k
        OBVIOUS
      <4>1. incoming[j + 1] = incoming[k + 1]
        BY <3>2
      <4>2. j + 1 = k + 1
        BY <3>4, <4>1 DEF ReceiveShape
      <4> QED
        BY <1>0, <4>2
    <3>7. \A m \in 1..arrived : InQueue(m)' <=> InQueue(m) /\ m # n
      <4> SUFFICES ASSUME NEW m \in 1..arrived
                   PROVE  InQueue(m)' <=> InQueue(m) /\ m # n
        OBVIOUS
      <4>1. InQueue(m)' => InQueue(m) /\ m # n
        BY <3>2, <3>4, <3>5 DEF InQueue
      <4>2. ASSUME InQueue(m), m # n
            PROVE  InQueue(m)'
        <5>1. PICK j \in 1..Len(incoming) : incoming[j] = m
          BY <4>2 DEF InQueue
        <5>2. j # 1
          BY <3>2, <4>2, <5>1
        <5>3. j - 1 \in 1..Len(incoming') /\ (j - 1) + 1 = j
          BY <1>0, <3>2, <5>2
        <5> QED
          BY <3>2, <5>1, <5>3 DEF InQueue
      <4> QED
        BY <4>1, <4>2
    <3> HIDE DEF n
    <3>8. receive'[r] = n /\ \A q \in Receives : q # r => receive'[q] = receive[q]
      BY <1>0, <3>1
    <3>9. \A m \in 1..arrived : InReceive(m)' <=> InReceive(m) \/ m = n
      <4> SUFFICES ASSUME NEW m \in 1..arrived
                   PROVE  InReceive(m)' <=> InReceive(m) \/ m = n
        OBVIOUS
      <4>1. ASSUME NEW q \in Receives, receive[q] = m
            PROVE  q # r
        BY <1>0, <2>1, <4>1 DEF NotCalled
      <4> QED
        BY <3>8, <4>1 DEF InReceive
    <3>10. \A m \in 1..arrived' :
         /\ InQueue(m)' \/ InReceive(m)' \/ InSetting(m)'
         /\ ~(InQueue(m)' /\ InReceive(m)')
         /\ ~(InQueue(m)' /\ InSetting(m)')
         /\ ~(InReceive(m)' /\ InSetting(m)')
      <4>1. \A m \in 1..arrived : InSetting(m)' <=> InSetting(m)
        BY <2>1 DEF InSetting
      <4> QED
        BY <2>1, <3>3, <3>7, <3>9, <4>1 DEF ReceiveShape
    <3>11. \A q, p \in Receives : receive'[q] = receive'[p] /\ receive'[q] > 0 => q = p
      <4>1. \A q \in Receives : receive[q] # n
        BY <3>3 DEF InReceive
      <4>2. \A p, q \in Receives : receive[p] = receive[q] /\ receive[p] > 0 => p = q
        BY DEF ReceiveShape
      <4>3. ASSUME NEW p \in Receives, NEW q \in Receives,
                   receive'[p] = receive'[q], receive'[p] > 0
            PROVE  p = q
        <5>1. CASE p = r \/ q = r
          BY <3>8, <4>1, <4>3, <5>1
        <5>2. CASE p # r /\ q # r
          BY <3>8, <4>2, <4>3, <5>2
        <5> QED
          BY <5>1, <5>2
      <4> QED
        BY <4>3
    <3>12. \A q \in Receives : receive'[q] =< arrived'
      <4>1. \A q \in Receives : receive[q] =< arrived
        BY DEF ReceiveShape
      <4>2. n =< arrived /\ arrived' = arrived
        BY <1>0, <2>1, <3>2
      <4> QED
        BY <3>8, <4>1, <4>2
    <3>13. setting # <<>> => setting[1][1] # r
      BY <2>1 DEF ReceiveShape, Waiting, NotCalled
    <3>14. setting' # <<>> => /\ setting'[1][2] \in 1..arrived'
                              /\ receive'[setting'[1][1]] = Waiting
      BY <1>0, <2>1, <3>8, <3>13 DEF ReceiveShape
    <3>15. Len(waiting') = 0 /\ waiting' = <<>>
      BY <3>1
    <3> QED
      BY <2>1, <3>5, <3>6, <3>10, <3>11, <3>12, <3>14, <3>15 DEF ReceiveShape
  <2> QED
    BY <2>2, <2>3, <2>4
<1> QED
  BY <1>1, <1>2, <1>3, <1>4, <1>5, <1>6, ReceivesLeft

\* The inductive invariant.
LEMMA Invariant == Spec => []IInv
<1>1. ASSUME IInv, [Next]_vars
      PROVE  IInv'
  <2>1. LinkTypes /\ ReceiveTypes /\ ReceiveShape
    BY <1>1, Types DEF IInv
  <2>2. LinkTypes' /\ SendTypes' /\ ReceiveTypes'
    BY <1>1, <2>1, LinkTypesStep, SendTypesStep, ReceiveTypesStep
  <2>3. TypeOK'
    BY <2>2 DEF TypeOK, LinkTypes, SendTypes, ReceiveTypes
  <2> QED
    BY <1>1, <2>1, <2>3, LinkStep, CountStep, OrderStep, ReceiveStep DEF IInv
<1> QED
  BY <1>1, IInvInit, PTL DEF Spec

\* The types of the variables: the client's fields hold what their types say and
\* m_num_sends never passes the number of messages sent.
THEOREM TypeCorrect == Spec => []TypeOK
<1>1. IInv => TypeOK
  BY DEF IInv
<1> QED
  BY <1>1, Invariant, PTL

\* A message whose stream was read is handed to m_client only while it is there:
\* once the task of shutdown_wspp_impl has reset it, the state tested under the
\* lock says so.
THEOREM ClientIsThere == Spec => []ClientThere
<1>1. IInv => ClientThere
  BY DEF IInv, LinkShape, ClientThere
<1> QED
  BY <1>1, Invariant, PTL

\* One message at a time goes through the chain of tasks, and sends are answered
\* in the order in which m_num_sends or the queue took them, for any number of
\* senders.
THEOREM SendsStayInOrder == Spec => []SendsInOrder
<1>1. ASSUME IInv
      PROVE  SendsInOrder
  <2>1. \A s, t \in Sends : send[s] \in InChain /\ send[t] \in InChain => s = t
    BY <1>1 DEF IInv, CountShape
  <2>2. Len(accepted) \in Nat /\ Len(answers) \in Nat /\ Len(outgoing) \in Nat
    BY <1>1, LenProperties DEF IInv, TypeOK
  <2>3. Len(answers) =< Len(accepted)
    BY <1>1, <2>2 DEF IInv, OrderShape
  <2>4. \A i \in 1..Len(answers) : answers[i] = accepted[i]
    BY <1>1 DEF IInv, OrderShape
  <2> QED
    BY <2>1, <2>3, <2>4 DEF SendsInOrder
<1> QED
  BY <1>1, Invariant, PTL

\* Every message that came in is in the queue, in the event that is being set or
\* with one receive, and in one of these only; no message waits while a receive
\* does, and none is left to wait once the front is closed.
THEOREM MessagesMatchReceives == Spec => []ReceivesMatch
<1>1. ASSUME IInv
      PROVE  ReceivesMatch
  <2>1. waiting # <<>> => incoming = <<>> /\ ~frontClosed
    BY <1>1 DEF IInv, ReceiveShape
  <2>2. /\ DOMAIN incoming = 1..Len(incoming) /\ DOMAIN setting = 1..Len(setting)
        /\ Len(setting) \in Nat /\ (setting # <<>> => Len(setting) > 0)
    BY <1>1, LenProperties, EmptySeq DEF IInv, TypeOK
  <2>3. ASSUME NEW m \in 1..arrived
        PROVE  Cardinality({i \in DOMAIN incoming : incoming[i] = m})
                 + Cardinality({r \in Receives : receive[r] = m})
                 + Cardinality({i \in DOMAIN setting : setting[i][2] = m}) = 1
    <3> DEFINE Q == {i \in DOMAIN incoming : incoming[i] = m}
               R == {r \in Receives : receive[r] = m}
               S == {i \in DOMAIN setting : setting[i][2] = m}
    <3>1. Cardinality(Q) = IF InQueue(m) THEN 1 ELSE 0
      <4>1. CASE InQueue(m)
        <5>1. PICK i \in 1..Len(incoming) : incoming[i] = m
          BY <4>1 DEF InQueue
        <5>2. Q = {i}
          BY <1>1, <2>2, <5>1 DEF IInv, ReceiveShape
        <5> QED
          BY <4>1, <5>2, FS_Singleton
      <4>2. CASE ~InQueue(m)
        <5>1. Q = {}
          BY <2>2, <4>2 DEF InQueue
        <5> QED
          BY <4>2, <5>1, FS_EmptySet
      <4> QED
        BY <4>1, <4>2
    <3>2. Cardinality(R) = IF InReceive(m) THEN 1 ELSE 0
      <4>1. CASE InReceive(m)
        <5>1. PICK r \in Receives : receive[r] = m
          BY <4>1 DEF InReceive
        <5>2. m > 0
          BY <1>1 DEF IInv, TypeOK
        <5>3. \A q \in R : q = r
          BY <1>1, <5>1, <5>2 DEF IInv, ReceiveShape
        <5>4. R = {r}
          BY <5>1, <5>3
        <5> QED
          BY <4>1, <5>4, FS_Singleton
      <4>2. CASE ~InReceive(m)
        <5>1. R = {}
          BY <4>2 DEF InReceive
        <5> QED
          BY <4>2, <5>1, FS_EmptySet
      <4> QED
        BY <4>1, <4>2
    <3>3. Cardinality(S) = IF InSetting(m) THEN 1 ELSE 0
      <4>1. \A i \in DOMAIN setting : i = 1 /\ setting # <<>>
        BY <1>1, <2>2 DEF IInv, ReceiveShape
      <4>2. setting # <<>> => 1 \in DOMAIN setting
        BY <2>2
      <4>3. CASE InSetting(m)
        <5>1. S = {1}
          BY <4>1, <4>2, <4>3 DEF InSetting
        <5> QED
          BY <4>3, <5>1, FS_Singleton
      <4>4. CASE ~InSetting(m)
        <5>1. S = {}
          BY <4>1, <4>4 DEF InSetting
        <5> QED
          BY <4>4, <5>1, FS_EmptySet
      <4> QED
        BY <4>3, <4>4
    <3>4. /\ InQueue(m) \/ InReceive(m) \/ InSetting(m)
          /\ ~(InQueue(m) /\ InReceive(m))
          /\ ~(InQueue(m) /\ InSetting(m))
          /\ ~(InReceive(m) /\ InSetting(m))
      BY <1>1 DEF IInv, ReceiveShape
    <3> HIDE DEF Q, R, S
    <3>5. Cardinality(Q) + Cardinality(R) + Cardinality(S) = 1
      BY <3>1, <3>2, <3>3, <3>4
    <3> QED
      BY <3>5 DEF Q, R, S
  <2> QED
    BY <2>1, <2>3 DEF ReceivesMatch
<1> QED
  BY <1>1, Invariant, PTL

----------------------------------------------------------------------------
(* Waiting *)

\* While messages are counted a chain goes on, or one ended early.
ChainShape == numSends > 0 => \E s \in Sends : send[s] \in InChain \cup {"stalled"}

\* How far the connection is says who is to do the next step.
EndShape ==
  /\ state = "CONNECTING" <=> link = "connecting"
  /\ state \in {"CONNECTED", "CLOSING"} <=> link \in Up
  /\ state = "CONNECTED" => link # "refused"
  /\ state = "CLOSING" => link # "open"
  /\ link \in {"connecting"} \cup Up => thread.running /\ shut = "none"
  /\ link = "ended" => shut # "none"
  /\ state = "CLOSED" => link = "ended"
  /\ state = "DESTROYED" => owner = "none"
  /\ closed <=> shut = "done"
  /\ link = "connecting" => opened = "none"
  /\ opened = "none" => link \in {"none", "connecting"} \/ shut = "failing"
  /\ owner \in {"sends", "destructor"} => state = "CREATED" \/ opened # "none"

\* A message that waits for its turn, or is about to, has one before it in the chain
\* whose end takes the next, unless a chain ended early.
QueuedHasChain ==
  (\E s \in Sends : send[s] \in {"counted", "queued"}) =>
    \E s \in Sends : send[s] \in InChain \cup {"stalled"}

\* Whoever waits for the connection waits for something that is under way: for its
\* opening or for a closing handshake, which has its timer, while m_thread runs, or
\* for the task of shutdown_wspp_impl, which waits for m_thread alone and only after
\* the end.  A close() whose code websocketpp has refused is the exception, and the
\* only one: nothing on this side ends the connection then.
EndIsUnderWay ==
  /\ state = "CONNECTING" => link = "connecting" /\ thread.running
  /\ state = "CLOSING" => thread.running /\ (link = "closing" \/ Refused)
  /\ opened = "none" =>
       state \in {"CREATED", "CONNECTING", "DESTROYED"} \/ shut = "failing"
  /\ owner = "destructor" /\ ~closed =>
       \/ state \in {"CREATED", "CONNECTED", "CLOSING"}
       \/ shut \in {"failing", "closing", "handler", "last"}
  /\ shut \in {"failing", "closing"} => link = "ended"

\* A chain passes the count on until nothing is counted.
LEMMA ChainStep ==
  ASSUME IInv, ChainShape, [Next]_vars
  PROVE  ChainShape'
<1>0. send \in [Sends -> InChain \cup {"unsent", "counted", "queued", "stalled", "done"}]
      /\ numSends \in Nat
  BY CountedFinite DEF IInv, TypeOK, CountShape
<1>1. CASE UNCHANGED sendVars
  BY <1>1 DEF ChainShape, sendVars
<1>2. ASSUME NEW s \in Sends, Send(s)
      PROVE  ChainShape'
  <2>1. CASE numSends = 0
    BY <1>0, <1>2, <2>1 DEF Send, ChainShape, InChain
  <2>2. CASE numSends # 0
    <3>1. PICK t \in Sends : send[t] \in InChain \cup {"stalled"}
      BY <1>0, <2>2 DEF ChainShape
    <3>2. t # s
      BY <1>2, <3>1 DEF Send, InChain
    <3>3. send'[t] = send[t]
      BY <1>0, <1>2, <2>2, <3>2 DEF Send
    <3> QED
      BY <3>1, <3>3 DEF ChainShape
  <2> QED
    BY <2>1, <2>2
<1>3. ASSUME NEW s \in Sends, Push(s)
      PROVE  ChainShape'
  BY <1>0, <1>3 DEF Push, ChainShape, InChain
<1>4. ASSUME NEW s \in Sends, StreamFails(s) \/ HandOver(s)
      PROVE  ChainShape'
  BY <1>0, <1>4 DEF StreamFails, HandOver, ChainShape, InChain
<1>5. ASSUME NEW s \in Sends, CountDown(s)
      PROVE  ChainShape'
  BY <1>0, <1>5 DEF CountDown, ChainShape, InChain
<1>6. ASSUME NEW s \in Sends, TakeNext(s)
      PROVE  ChainShape'
  <2>1. CASE outgoing = <<>>
    BY <1>6, <2>1 DEF TakeNext, ChainShape
  <2>2. CASE outgoing # <<>>
    <3> DEFINE h == Head(outgoing)
    <3>1. h \in Sends
      BY <2>2 DEF IInv, TypeOK
    <3>2. send' = [send EXCEPT ![s] = "done", ![h] = "reading"]
      BY <1>6, <2>2 DEF TakeNext
    <3> HIDE DEF h
    <3>3. send'[h] = "reading"
      BY <1>0, <3>1, <3>2
    <3> QED
      BY <3>1, <3>3 DEF ChainShape, InChain
  <2> QED
    BY <2>1, <2>2
<1> QED
  BY <1>1, <1>2, <1>3, <1>4, <1>5, <1>6, Others

\* The steps of the connection, each of which leaves somebody to do the next.
LEMMA EndStep ==
  ASSUME TypeOK, LinkShape, EndShape, [Next]_vars
  PROVE  EndShape'
<1> USE DEF TypeOK, LinkShape, EndShape, Up, linkVars, sendVars, frontVars, Sane, OnThread
<1>1. CASE ConnectRefused \/ Connect \/ AssignThread
  <2>1. CASE ConnectRefused
    BY <2>1 DEF ConnectRefused
  <2>2. CASE Connect
    BY <2>2 DEF Connect
  <2>3. CASE AssignThread
    BY <2>3 DEF AssignThread
  <2> QED
    BY <1>1, <2>1, <2>2, <2>3
<1>2. CASE OpenHandler \/ PeerCloses \/ Shutdown \/ ThreadReturns
  BY <1>2 DEF OpenHandler, PeerCloses, Shutdown, ThreadReturns
<1>3. CASE Join \/ CloseHandler \/ CloseSet
  BY <1>3 DEF Join, CloseHandler, CloseSet
<1>4. CASE Close \/ CloseRefused \/ Drop \/ DestroyFront \/ LastSend \/ Destroy
  BY <1>4 DEF Close, CloseRefused, Drop, DestroyFront, LastSend, Destroy
<1>5. CASE \E s \in Sends : \/ Send(s) \/ Push(s) \/ StreamFails(s) \/ HandOver(s)
                            \/ CountDown(s) \/ TakeNext(s)
  <2>1. UNCHANGED <<linkVars, owner>>
    BY <1>5, Zenon DEF Send, Push, StreamFails, HandOver, CountDown, TakeNext
  <2> QED
    BY <2>1
<1>6. CASE MessageHandler \/ MessageOrphaned \/ SetReceive \/ \E r \in Receives : Receive(r)
  <2>1. UNCHANGED <<linkVars, owner>>
    BY <1>6, Zenon DEF MessageHandler, MessageOrphaned, SetReceive, Receive
  <2> QED
    BY <2>1
<1>7. CASE UNCHANGED vars
  BY <1>7 DEF vars
<1> QED
  BY <1>1, <1>2, <1>3, <1>4, <1>5, <1>6, <1>7 DEF Next

\* A message that is queued or about to be is never left behind: each send that
\* completes takes the next as long as m_num_sends says that there is one, and only a
\* stream that cannot be read breaks the chain.
THEOREM SendsDoNotStall == Spec => []QueuedHasChain
<1>1. Init => ChainShape
  BY DEF Init, ChainShape
<1>2. IInv /\ ChainShape /\ [Next]_vars => ChainShape'
  BY ChainStep
<1>3. ASSUME IInv, ChainShape
      PROVE  QueuedHasChain
  <2> SUFFICES ASSUME NEW s \in Sends, send[s] \in {"counted", "queued"}
               PROVE  \E t \in Sends : send[t] \in InChain \cup {"stalled"}
    BY DEF QueuedHasChain
  <2>1. s \in Counted
    BY DEF Counted
  <2>2. numSends \in Nat /\ numSends # 0
    BY <1>3, <2>1, CountedFinite DEF IInv, CountShape
  <2> QED
    BY <1>3, <2>2 DEF ChainShape
<1> QED
  BY <1>1, <1>2, <1>3, Invariant, PTL DEF Spec

\* close(), connect() and the destructor wait for something that is under way,
\* whether the connection was refused, opened, closed by either side or dropped,
\* unless websocketpp has refused the code that close() was called with.
THEOREM ClosesDoNotHang == Spec => []EndIsUnderWay
<1>1. Init => EndShape
  BY DEF Init, EndShape, Up
<1>2. IInv /\ EndShape /\ [Next]_vars => EndShape'
  BY EndStep DEF IInv
<1>3. IInv /\ EndShape => EndIsUnderWay
  BY DEF IInv, TypeOK, LinkShape, EndShape, EndIsUnderWay, Up, Refused
<1> QED
  BY <1>1, <1>2, <1>3, Invariant, PTL DEF Spec

=============================================================================
