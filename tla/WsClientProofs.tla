---------------------------- MODULE WsClientProofs ----------------------------
(***************************************************************************)
(* Theorems about WsClient, for any number of requests, pushes, frames and *)
(* connections, on both platforms.                                         *)
(***************************************************************************)
EXTENDS WsClient, SequenceTheorems, TLAPS

Acked(queue) == \E i \in DOMAIN queue : queue[i].type = "ack"

AckFirst(queue) ==
    \A i \in DOMAIN queue : queue[i].type = "push" =>
        \E j \in DOMAIN queue : j < i /\ queue[j].type = "ack"

\* Where a client is in connecting: without one nothing is under way, the wasm client
\* neither waits nor buffers, an acknowledgement on the wire is the server's, and while it
\* is awaited no push overtakes it.
ConnectInv ==
    /\ conn = 0 => ~up /\ ~initial /\ ~verified /\ wire = <<>>
                /\ pending = {} /\ buffered = <<>>
    /\ initial => platform = "wasm" /\ ~verified /\ pending = {}
    /\ platform = "wasm" => waiting = 0 /\ buffered = <<>>
    /\ Acked(wire) => accepted
    /\ initial => (accepted => Acked(wire)) /\ AckFirst(wire)
    /\ OkMeansAccepted

\* A request is pending, buffered as a response or reported, never two of them.
Once(queue, type) ==
    \A i, j \in DOMAIN queue :
        i # j /\ queue[i].type = type /\ queue[j].type = type => queue[i].id # queue[j].id
RequestInv ==
    /\ \A r \in Requests : r > sent => verdicts[r] = 0
    /\ BufferedResponses \subseteq (1..sent) \ pending
    /\ Once(buffered, "Response")
    /\ OneVerdictPerRequest
    /\ NoResponseAcrossConnections

ClientInv == TypeOK /\ ConnectInv /\ RequestInv /\ PushesConserved

-----------------------------------------------------------------------------
(* Queues of items *)

\* What an item adds to the ids of a queue.
IdOf(item, type) == IF item.type = type THEN {item.id} ELSE {}

\* What the first item takes with it when it leaves the queue.
LEMMA IdsTail ==
    ASSUME NEW S, NEW q \in Seq(S), q # <<>>, NEW type
    PROVE  Ids(q, type) = Ids(Tail(q), type) \cup IdOf(Head(q), type)
  <1>1. /\ 1 \in DOMAIN q /\ Head(q) = q[1]
        /\ \A i \in DOMAIN Tail(q) : i + 1 \in DOMAIN q /\ Tail(q)[i] = q[i + 1]
        /\ \A i \in DOMAIN q : i = 1 \/ (i - 1 \in DOMAIN Tail(q) /\ q[i] = Tail(q)[i - 1])
    <2>1. /\ Len(q) \in Nat \ {0} /\ DOMAIN q = 1..Len(q) /\ Head(q) = q[1]
          /\ DOMAIN Tail(q) = 1..(Len(q) - 1)
          /\ \A i \in 1..(Len(q) - 1) : Tail(q)[i] = q[i + 1]
      OBVIOUS
    <2> QED BY <2>1
  <1>2. \A x : x \in Ids(q, type) <=> \E i \in DOMAIN q : q[i].type = type /\ x = q[i].id
    BY DEF Ids
  <1>3. \A x : x \in Ids(Tail(q), type)
                 <=> \E i \in DOMAIN Tail(q) : Tail(q)[i].type = type /\ x = Tail(q)[i].id
    BY DEF Ids
  <1>4. \A x : x \in Ids(Tail(q), type) => x \in Ids(q, type)
    BY <1>1, <1>2, <1>3
  <1>5. ASSUME NEW i \in DOMAIN q, q[i].type = type
        PROVE  q[i].id \in Ids(Tail(q), type) \/ (q[1].type = type /\ q[i].id = q[1].id)
    <2>1. CASE i = 1
      BY <1>5, <2>1
    <2>2. CASE i - 1 \in DOMAIN Tail(q) /\ q[i] = Tail(q)[i - 1]
      BY <1>3, <1>5, <2>2
    <2> QED BY <1>1, <2>1, <2>2
  <1>6. q[1].type = type => q[1].id \in Ids(q, type)
    BY <1>1, <1>2
  <1> QED BY <1>1, <1>2, <1>4, <1>5, <1>6 DEF IdOf

LEMMA QueueTail ==
    ASSUME NEW S, NEW q \in Seq(S), q # <<>>, NEW type
    PROVE  /\ Tail(q) \in Seq(S) /\ Head(q) \in S
           /\ InOrder(q, type) => /\ InOrder(Tail(q), type)
                                  /\ Head(q).type = type => Before({Head(q).id}, Ids(Tail(q), type))
           /\ Once(q, type) => /\ Once(Tail(q), type)
                               /\ Head(q).type = type => Head(q).id \notin Ids(Tail(q), type)
  <1>1. /\ Len(q) \in Nat \ {0} /\ DOMAIN q = 1..Len(q)
        /\ Tail(q) \in Seq(S) /\ Head(q) = q[1] /\ q[1] \in S
        /\ DOMAIN Tail(q) = 1..(Len(q) - 1)
        /\ \A i \in 1..(Len(q) - 1) : Tail(q)[i] = q[i + 1]
    OBVIOUS
  <1>2. InOrder(q, type) => InOrder(Tail(q), type)
    BY <1>1 DEF InOrder
  <1>3. InOrder(q, type) /\ Head(q).type = type => Before({Head(q).id}, Ids(Tail(q), type))
    BY <1>1 DEF InOrder, Before, Ids
  <1>4. Once(q, type) => Once(Tail(q), type)
    BY <1>1 DEF Once
  <1>5. Once(q, type) /\ Head(q).type = type => Head(q).id \notin Ids(Tail(q), type)
    BY <1>1 DEF Once, Ids
  <1> QED BY <1>1, <1>2, <1>3, <1>4, <1>5

\* What a new item adds at the end of the queue.
LEMMA IdsAppend ==
    ASSUME NEW S, NEW q \in Seq(S), NEW e \in S, NEW type
    PROVE  Ids(Append(q, e), type) = Ids(q, type) \cup IdOf(e, type)
  <1> DEFINE a == Append(q, e)
  <1>1. /\ DOMAIN q \subseteq DOMAIN a /\ Len(q) + 1 \in DOMAIN a
        /\ \A i \in DOMAIN q : a[i] = q[i]
        /\ a[Len(q) + 1] = e
        /\ \A i \in DOMAIN a : i = Len(q) + 1 \/ i \in DOMAIN q
    OBVIOUS
  <1> HIDE DEF a
  <1>2. \A x : x \in Ids(q, type) <=> \E i \in DOMAIN q : q[i].type = type /\ x = q[i].id
    BY DEF Ids
  <1>3. \A x : x \in Ids(a, type) <=> \E i \in DOMAIN a : a[i].type = type /\ x = a[i].id
    BY DEF Ids
  <1>4. Ids(a, type) = Ids(q, type) \cup IdOf(e, type)
    BY <1>1, <1>2, <1>3 DEF IdOf
  <1> QED BY <1>4 DEF a

\* It comes last, and is the only one of its number if it is new.
LEMMA QueueAppend ==
    ASSUME NEW S, NEW q \in Seq(S), NEW e \in S, NEW type
    PROVE  /\ Append(q, e) \in Seq(S)
           /\ InOrder(q, type) /\ (e.type = type => Before(Ids(q, type), {e.id}))
                => InOrder(Append(q, e), type)
           /\ Once(q, type) /\ (e.type = type => e.id \notin Ids(q, type))
                => Once(Append(q, e), type)
  <1> DEFINE a == Append(q, e)
  <1>1. /\ Len(q) \in Nat /\ DOMAIN q = 1..Len(q)
        /\ a \in Seq(S) /\ DOMAIN a = 1..(Len(q) + 1)
        /\ \A i \in 1..Len(q) : a[i] = q[i]
        /\ a[Len(q) + 1] = e
    OBVIOUS
  <1> HIDE DEF a
  <1>2. \A i \in DOMAIN a : i = Len(q) + 1 \/ (i \in DOMAIN q /\ a[i] = q[i])
    BY <1>1
  <1>3. InOrder(q, type) /\ (e.type = type => Before(Ids(q, type), {e.id})) => InOrder(a, type)
    BY <1>1, <1>2 DEF InOrder, Before, Ids
  <1>4. Once(q, type) /\ (e.type = type => e.id \notin Ids(q, type)) => Once(a, type)
    BY <1>1, <1>2 DEF Once, Ids
  <1> QED BY <1>1, <1>3, <1>4 DEF a

LEMMA AckTail ==
    ASSUME NEW S, NEW q \in Seq(S), q # <<>>
    PROVE  /\ Acked(Tail(q)) => Acked(q)
           /\ Head(q).type = "ack" => Acked(q)
           /\ AckFirst(q) => Head(q).type # "push"
           /\ Head(q).type # "ack" /\ Acked(q) => Acked(Tail(q))
           /\ Head(q).type # "ack" /\ AckFirst(q) => AckFirst(Tail(q))
  <1>1. /\ Len(q) \in Nat \ {0} /\ DOMAIN q = 1..Len(q) /\ Head(q) = q[1]
        /\ DOMAIN Tail(q) = 1..(Len(q) - 1)
        /\ \A i \in 1..(Len(q) - 1) : Tail(q)[i] = q[i + 1]
    OBVIOUS
  <1>2. \A i \in DOMAIN q : i = 1 \/ (i - 1 \in DOMAIN Tail(q) /\ q[i] = Tail(q)[i - 1])
    BY <1>1
  <1>3. \A i \in DOMAIN Tail(q) : i + 1 \in DOMAIN q /\ Tail(q)[i] = q[i + 1]
    BY <1>1
  <1>4. Acked(Tail(q)) => Acked(q)
    BY <1>3 DEF Acked
  <1>5. Head(q).type = "ack" => Acked(q)
    BY <1>1 DEF Acked
  <1>6. AckFirst(q) => Head(q).type # "push"
    BY <1>1 DEF AckFirst
  <1>7. Head(q).type # "ack" /\ Acked(q) => Acked(Tail(q))
    BY <1>1, <1>2 DEF Acked
  <1>8. ASSUME Head(q).type # "ack", AckFirst(q), NEW i \in DOMAIN Tail(q), Tail(q)[i].type = "push"
        PROVE  \E j \in DOMAIN Tail(q) : j < i /\ Tail(q)[j].type = "ack"
    <2>1. PICK j \in DOMAIN q : j < i + 1 /\ q[j].type = "ack"
      BY <1>3, <1>8 DEF AckFirst
    <2>2. j - 1 \in DOMAIN Tail(q) /\ j - 1 < i /\ Tail(q)[j - 1].type = "ack"
      BY <1>1, <1>2, <1>8, <2>1
    <2> QED BY <2>2
  <1> QED BY <1>4, <1>5, <1>6, <1>7, <1>8 DEF AckFirst

LEMMA AckAppend ==
    ASSUME NEW S, NEW q \in Seq(S), NEW e
    PROVE  /\ e.type # "ack" /\ Acked(Append(q, e)) => Acked(q)
           /\ Acked(q) \/ e.type = "ack" => Acked(Append(q, e))
           /\ AckFirst(q) /\ (e.type = "push" => Acked(q)) => AckFirst(Append(q, e))
  <1> DEFINE a == Append(q, e)
  <1>1. /\ Len(q) \in Nat /\ DOMAIN q = 1..Len(q) /\ DOMAIN a = 1..(Len(q) + 1)
        /\ \A i \in 1..Len(q) : a[i] = q[i]
        /\ a[Len(q) + 1] = e
    OBVIOUS
  <1> HIDE DEF a
  <1>2. e.type # "ack" /\ Acked(a) => Acked(q)
    BY <1>1 DEF Acked
  <1>3. Acked(q) \/ e.type = "ack" => Acked(a)
    BY <1>1 DEF Acked
  <1>4. AckFirst(q) /\ (e.type = "push" => Acked(q)) => AckFirst(a)
    BY <1>1 DEF AckFirst, Acked
  <1> QED BY <1>2, <1>3, <1>4 DEF a

-----------------------------------------------------------------------------
(* Events *)

\* What route_envelope makes of a frame.
LEMMA Routed ==
    ASSUME NEW frame \in Frame
    PROVE  /\ Route(frame) \in BufferedEvent /\ Route(frame).id = frame.id
           /\ Route(frame).type = "Push" <=> frame.type = "push"
           /\ Route(frame).type = "Response" <=> frame.type # "push" /\ frame.id \in pending
  BY DEF Route, Item, Frame, BufferedEvent

\* An event that may be reported: a response to a request of this client, a push it is owed.
Reportable(event) ==
    /\ event \in BufferedEvent
    /\ event.type = "Response" => event.id \in 1..sent
    /\ event.type = "Push" => event.id \in owed

\* A reportable event leaves the history variables typed.
LEMMA ReportIsTyped ==
    ASSUME TypeOK, NEW event, Reportable(event), Report(event)
    PROVE  verdicts' \in [Requests -> Nat] /\ got' \in Seq(1..MaxPushes)
  <1>1. 1..sent \subseteq Requests /\ owed \subseteq 1..MaxPushes
    BY ClientConstants DEF ClientConstants, TypeOK, Requests
  <1>2. CASE event.type = "Response"
    <2>1. event.id \in Requests /\ event.type # "Push"
      BY <1>1, <1>2 DEF Reportable
    <2> QED BY <1>2, <2>1 DEF TypeOK, Report
  <1>3. CASE event.type = "Push"
    <2>1. event.id \in 1..MaxPushes /\ event.type # "Response"
      BY <1>1, <1>3 DEF Reportable
    <2>2. got \in Seq(1..MaxPushes)
      BY DEF TypeOK
    <2>3. Append(got, event.id) \in Seq(1..MaxPushes)
      BY <2>1, <2>2
    <2> QED BY <1>3, <2>1, <2>3 DEF TypeOK, Report
  <1>4. CASE event.type \notin {"Response", "Push"}
    BY <1>4 DEF TypeOK, Report
  <1> QED BY <1>2, <1>3, <1>4

\* The first item of a queue is one of its items.
LEMMA HeadOfQueue ==
    ASSUME NEW S, NEW q \in Seq(S), q # <<>>
    PROVE  Head(q) \in S /\ Head(q).id \in Ids(q, Head(q).type)
  <1>1. Head(q) \in S /\ 1 \in DOMAIN q /\ Head(q) = q[1]
    OBVIOUS
  <1> QED BY <1>1 DEF Ids

\* The first frame on the wire, once routed, may be reported; so may the first event buffered.
LEMMA FrameIsReportable ==
    ASSUME ClientInv, wire # <<>>, Decodes(Head(wire))
    PROVE  Reportable(Route(Head(wire)))
  <1>1. wire \in Seq(Frame) /\ pending \subseteq 1..sent
    BY DEF ClientInv, TypeOK
  <1>2. Head(wire) \in Frame /\ Head(wire).id \in Ids(wire, Head(wire).type)
    BY <1>1, HeadOfQueue
  <1>3. Ids(wire, "push") \subseteq owed
    BY DEF ClientInv, PushesConserved
  <1> QED BY <1>1, <1>2, <1>3, Routed DEF Reportable

LEMMA BufferedIsReportable ==
    ASSUME ClientInv, buffered # <<>>
    PROVE  Reportable(Head(buffered))
  <1>1. buffered \in Seq(BufferedEvent)
    BY DEF ClientInv, TypeOK
  <1>2. Head(buffered) \in BufferedEvent /\ Head(buffered).id \in Ids(buffered, Head(buffered).type)
    BY <1>1, HeadOfQueue
  <1>3. Ids(buffered, "Push") \subseteq owed /\ Ids(buffered, "Response") \subseteq 1..sent
    BY DEF ClientInv, PushesConserved, RequestInv, BufferedResponses
  <1> QED BY <1>2, <1>3 DEF Reportable

-----------------------------------------------------------------------------
(* One step *)

LEMMA InitClientInv == Init => ClientInv
  <1> SUFFICES ASSUME Init PROVE ClientInv
    OBVIOUS
  <1> USE DEF Init
  <1>1. TypeOK
    <2>1. /\ wire \in Seq(Frame) /\ buffered \in Seq(BufferedEvent) /\ got \in Seq(1..MaxPushes)
          /\ sentOn \in [Requests -> 0..MaxConnections] /\ verdicts \in [Requests -> Nat]
      BY ClientConstants DEF ClientConstants
    <2>2. conn \in 0..MaxConnections /\ pushes \in 0..MaxPushes /\ sent \in 0..MaxRequests
      BY ClientConstants DEF ClientConstants
    <2>3. /\ initial \in BOOLEAN /\ accepted \in BOOLEAN /\ verified \in BOOLEAN /\ up \in BOOLEAN
          /\ conn = 0 /\ ~initial /\ ~accepted /\ ~verified
      OBVIOUS
    <2> QED BY <2>1, <2>2, <2>3 DEF TypeOK
  <1>2. ConnectInv
    BY DEF ConnectInv, OkMeansAccepted, Acked
  <1>3. \A type : Ids(<<>>, type) = {} /\ InOrder(<<>>, type) /\ Once(<<>>, type)
    BY DEF Ids, InOrder, Once
  <1>4. RequestInv
    BY <1>3 DEF RequestInv, OneVerdictPerRequest, NoResponseAcrossConnections, BufferedResponses
  <1>5. PushesConserved
    BY <1>3 DEF PushesConserved, Before, Range
  <1> QED BY <1>1, <1>2, <1>4, <1>5 DEF ClientInv

\* Connecting: only the wasm client reads an initial response, and only an ack is Ok.
LEMMA ConnectStep == ClientInv /\ [Next]_vars => ConnectInv'
  <1> SUFFICES ASSUME ClientInv, [Next]_vars PROVE ConnectInv'
    OBVIOUS
  <1> USE DEF ClientInv, ConnectInv, OkMeansAccepted
  <1>1. ~Acked(<<>>) /\ AckFirst(<<>>)
    BY DEF Acked, AckFirst
  <1>2. wire # <<>> => /\ Acked(Tail(wire)) => Acked(wire)
                       /\ Head(wire).type = "ack" => Acked(wire)
                       /\ AckFirst(wire) => Head(wire).type # "push"
                       /\ Head(wire).type # "ack" /\ Acked(wire) => Acked(Tail(wire))
                       /\ Head(wire).type # "ack" /\ AckFirst(wire) => AckFirst(Tail(wire))
    BY AckTail DEF TypeOK
  <1>3. \A e : /\ e.type # "ack" /\ Acked(Append(wire, e)) => Acked(wire)
               /\ Acked(wire) \/ e.type = "ack" => Acked(Append(wire, e))
               /\ AckFirst(wire) /\ (e.type = "push" => Acked(wire)) => AckFirst(Append(wire, e))
    BY AckAppend DEF TypeOK
  <1>4. CASE ConnectWithRetries \/ WasmConnect
    <2>1. CASE ConnectWithRetries
      BY <2>1 DEF ConnectWithRetries
    <2>2. CASE WasmConnect
      BY <1>1, <2>2 DEF WasmConnect, OpenSocket
    <2> QED BY <1>4, <2>1, <2>2
  <1>5. CASE SendAsync \/ WasmSendRequest \/ SendAndWait
    BY <1>5 DEF SendAsync, WasmSendRequest, SendAndWait, SendOnly, SendRequest, Idle, link
  <1>6. CASE WaitReads
    BY <1>6, <1>2 DEF WaitReads, link, Resolved, TypeOK
  <1>7. CASE WaitTimesOut
    BY <1>7 DEF WaitTimesOut, link, TypeOK
  <1>8. CASE RecvBuffered
    BY <1>8 DEF RecvBuffered, Idle, link, TypeOK
  <1>9. CASE RecvFromStream \/ WasmRecvEvent
    <2>1. /\ conn > 0 /\ ~initial /\ wire # <<>> /\ wire' = Tail(wire)
          /\ UNCHANGED <<link, conn, waiting>> /\ (buffered = <<>> => buffered' = <<>>)
      BY <1>9 DEF RecvFromStream, WasmRecvEvent, RecvFrame, Idle
    <2> QED BY <2>1, <1>2 DEF link, TypeOK
  <1>10. CASE RecvTimesOut
    BY <1>10 DEF RecvTimesOut, link, TypeOK
  <1>11. CASE Reconnect \/ WasmReconnect
    BY <1>1, <1>11 DEF Reconnect, WasmReconnect, OpenSocket, Idle, link, TypeOK
  <1>12. CASE ReadInitialResponse
    <2>1. initial /\ wire # <<>> /\ conn # 0 /\ UNCHANGED <<platform, pending, buffered, waiting>>
      BY <1>12 DEF ReadInitialResponse
    <2>2. CASE wire' = Tail(wire) /\ UNCHANGED <<initial, verified, conn, up, accepted>>
      <3>1. IsHeartbeat(Head(wire)) => Head(wire).type # "ack"
        BY DEF IsHeartbeat
      <3>2. IsHeartbeat(Head(wire)) \/ ~initial'
        BY <1>12 DEF ReadInitialResponse, InitialResponseRead
      <3> QED BY <2>1, <2>2, <3>1, <3>2, <1>2
    <2>3. CASE InitialResponseRead(IsConnectAck(Head(wire)))
      <3>1. CASE conn = 1 /\ ~IsConnectAck(Head(wire))
        BY <2>1, <2>3, <3>1, <1>1 DEF InitialResponseRead
      <3>2. CASE ~(conn = 1 /\ ~IsConnectAck(Head(wire)))
        <4>1. verified' => Acked(wire)
          BY <2>1, <2>3, <1>2 DEF InitialResponseRead, IsConnectAck
        <4> QED BY <2>1, <2>3, <3>2, <4>1, <1>2 DEF InitialResponseRead
      <3> QED BY <3>1, <3>2
    <2> QED BY <1>12, <2>2, <2>3 DEF ReadInitialResponse
  <1>13. CASE ServerGreets
    <2>1. up /\ conn # 0 /\ UNCHANGED <<platform, initial, verified, conn, pending, buffered, waiting>>
      BY <1>13 DEF ServerGreets
    <2>2. CASE accepted' /\ wire' = Append(wire, Item("ack", 0))
      <3>1. Item("ack", 0).type = "ack"
        BY DEF Item
      <3> QED BY <2>1, <2>2, <3>1, <1>3
    <2>3. CASE ~accepted' /\ wire' = wire \o <<Item("nack", 0), Item("end", 0)>>
      <3> DEFINE w == Append(wire, Item("nack", 0))
      <3>1. wire' = Append(w, Item("end", 0))
        BY <2>3 DEF TypeOK
      <3>2. ~accepted /\ ~Acked(wire)
        BY <1>13 DEF ServerGreets
      <3>3. Item("nack", 0).type = "nack" /\ Item("end", 0).type = "end"
        BY DEF Item
      <3>4. ~Acked(w) /\ (AckFirst(wire) => AckFirst(w))
        BY <3>2, <3>3, <1>3
      <3>5. w \in Seq(Frame \cup {Item("nack", 0)})
        BY DEF TypeOK
      <3> HIDE DEF w
      <3>6. ~Acked(wire') /\ (AckFirst(w) => AckFirst(wire'))
        BY <3>1, <3>3, <3>4, <3>5, AckAppend
      <3> QED BY <2>1, <2>3, <3>2, <3>4, <3>6
    <2> QED BY <1>13, <2>2, <2>3 DEF ServerGreets
  <1>14. CASE ServerAnswers \/ ServerPush \/ ServerNoise \/ LinkEnds
    <2>1. /\ up /\ UNCHANGED <<link, conn, pending, buffered, waiting>>
          /\ \E e : e.type # "ack" /\ (e.type = "push" => accepted) /\ wire' = Append(wire, e)
      BY <1>14 DEF ServerAnswers, ServerPush, ServerNoise, LinkEnds, Write, Item, Noise
    <2> QED BY <2>1, <1>3 DEF link
  <1>15. CASE UNCHANGED vars
    BY <1>15 DEF vars, link
  <1> QED BY <1>4, <1>5, <1>6, <1>7, <1>8, <1>9, <1>10, <1>11, <1>12, <1>13, <1>14, <1>15 DEF Next


\* Requests: at most one of pending, buffered and reported, on the current connection.
LEMMA RequestStep == ClientInv /\ [Next]_vars => RequestInv'
  <1> SUFFICES ASSUME ClientInv, [Next]_vars PROVE RequestInv'
    OBVIOUS
  <1>1. /\ wire \in Seq(Frame) /\ buffered \in Seq(BufferedEvent)
        /\ sent \in Nat /\ conn \in Nat /\ pending \subseteq 1..sent
        /\ verdicts \in [Requests -> Nat] /\ sentOn \in [Requests -> 0..MaxConnections]
        /\ waiting \in {0} \cup pending
    BY ClientConstants DEF ClientConstants, ClientInv, TypeOK
  <1>2. 1..sent \subseteq Requests
    BY ClientConstants DEF ClientConstants, ClientInv, TypeOK, Requests
  <1>3. RequestInv
    BY DEF ClientInv
  <1>0. buffered' = buffered => BufferedResponses' = BufferedResponses /\ Once(buffered, "Response")'
    BY <1>3 DEF BufferedResponses, RequestInv, Ids, Once
  <1> USE DEF RequestInv, OneVerdictPerRequest, NoResponseAcrossConnections
  <1>4. CASE UNCHANGED <<conn, pending, buffered, sent, sentOn, verdicts>>
    BY <1>3, <1>4, <1>0
  <1>5. CASE SendRequest /\ UNCHANGED <<conn, buffered, verdicts>>
    <2>1. /\ sent' = sent + 1 /\ sent' \in Requests /\ pending' = pending \cup {sent'}
          /\ sentOn' = [sentOn EXCEPT ![sent'] = conn]
      BY <1>1, <1>5, ClientConstants
      DEF ClientConstants, SendRequest, GenMsgIncr, Registered, Requests
    <2>2. \A r \in Requests : r > sent' => verdicts'[r] = 0
      BY <1>1, <1>3, <1>5, <2>1
    <2>3. BufferedResponses' \subseteq (1..sent') \ pending'
      <3> SUFFICES ASSUME NEW x \in BufferedResponses PROVE x \in 1..sent' /\ x \notin pending'
        BY <1>5, <1>0
      <3>1. x \in 1..sent /\ x \notin pending
        BY <1>3
      <3> QED BY <1>1, <2>1, <3>1
    <2>4. OneVerdictPerRequest'
      BY <1>1, <1>3, <1>5, <1>0, <2>1
    <2>5. NoResponseAcrossConnections'
      BY <1>1, <1>3, <1>5, <1>0, <2>1
    <2> QED BY <1>5, <1>0, <2>2, <2>3, <2>4, <2>5
  \* A request leaves pending when it is reported...
  <1>6. ASSUME NEW r \in pending, pending' \subseteq pending \ {r},
               verdicts' = [verdicts EXCEPT ![r] = @ + 1],
               UNCHANGED <<conn, buffered, sent, sentOn>>
        PROVE  RequestInv'
    <2>1. r \in 1..sent /\ r \in Requests /\ r \notin BufferedResponses /\ verdicts[r] = 0
      BY <1>1, <1>2, <1>3
    <2>2. \A q \in Requests : verdicts'[q] = IF q = r THEN 1 ELSE verdicts[q]
      BY <1>1, <1>6, <2>1
    <2>3. OneVerdictPerRequest'
      BY <1>3, <1>6, <1>0, <2>1, <2>2
    <2>4. \A q \in Requests : q > sent' => verdicts'[q] = 0
      BY <1>1, <1>3, <1>6, <2>1, <2>2
    <2>5. BufferedResponses' \subseteq (1..sent') \ pending' /\ NoResponseAcrossConnections'
      BY <1>3, <1>6, <1>0
    <2> QED BY <1>6, <1>0, <2>3, <2>4, <2>5
  \* ...or buffered, and the buffer when it is reported.
  <1>7. ASSUME NEW e \in BufferedEvent, pending' = Resolved(e), buffered' = Append(buffered, e),
               e.type = "Response" => e.id \in pending,
               UNCHANGED <<conn, sent, sentOn, verdicts>>
        PROVE  RequestInv'
    <2>1. /\ BufferedResponses' = BufferedResponses \cup IdOf(e, "Response")
          /\ Once(buffered, "Response")'
      <3>1. Ids(Append(buffered, e), "Response")
              = Ids(buffered, "Response") \cup IdOf(e, "Response")
        BY <1>1, <1>7, IdsAppend
      <3>3. Once(buffered, "Response") /\ (e.type = "Response" => e.id \notin Ids(buffered, "Response"))
              => Once(Append(buffered, e), "Response")
        BY <1>1, <1>7, QueueAppend
      <3>2. /\ Once(buffered, "Response")
            /\ e.type = "Response" => e.id \notin Ids(buffered, "Response")
        BY <1>3, <1>7 DEF BufferedResponses
      <3> QED BY <1>7, <3>1, <3>2, <3>3 DEF BufferedResponses
    <2> QED BY <1>1, <1>2, <1>3, <1>7, <2>1 DEF Resolved, IdOf
  <1>8. CASE RecvBuffered
    <2> DEFINE e == Head(buffered)
    <2>1. buffered # <<>> /\ buffered' = Tail(buffered) /\ Report(e)
          /\ UNCHANGED <<conn, pending, sent, sentOn>>
      BY <1>8 DEF RecvBuffered
    <2>2. /\ BufferedResponses = BufferedResponses' \cup IdOf(e, "Response")
          /\ Once(buffered, "Response")'
          /\ e.type = "Response" => e.id \notin BufferedResponses'
      <3>1. Ids(buffered, "Response") = Ids(Tail(buffered), "Response") \cup IdOf(e, "Response")
        BY <1>1, <2>1, IdsTail
      <3>2. Once(buffered, "Response") =>
               /\ Once(Tail(buffered), "Response")
               /\ e.type = "Response" => e.id \notin Ids(Tail(buffered), "Response")
        BY <1>1, <2>1, QueueTail
      <3> QED BY <1>3, <2>1, <3>1, <3>2 DEF BufferedResponses
    <2> HIDE DEF e
    <2>3. CASE e.type = "Response"
      <3>1. e.id \in BufferedResponses /\ e.id \in Requests /\ verdicts' = [verdicts EXCEPT ![e.id] = @ + 1]
        BY <1>2, <1>3, <2>1, <2>2, <2>3 DEF Report, IdOf
      <3> QED BY <1>1, <1>2, <1>3, <2>1, <2>2, <2>3, <3>1
    <2>4. CASE e.type # "Response"
      BY <1>1, <1>3, <2>1, <2>2, <2>4 DEF Report, IdOf
    <2> QED BY <2>3, <2>4
  \* A frame of the stream, in a wait or in a receive.
  <1>9. ASSUME wire # <<>>, pending' = Resolved(Route(Head(wire))), Report(Route(Head(wire))),
               UNCHANGED <<conn, buffered, sent, sentOn>>
        PROVE  RequestInv'
    <2> DEFINE e == Route(Head(wire))
    <2>1. e.type = "Response" => e.id \in pending
      BY <1>1, <1>9, HeadOfQueue, Routed
    <2>2. CASE e.type = "Response"
      BY <2>1, <2>2, <1>6, <1>9 DEF Resolved, Report
    <2>3. CASE e.type # "Response"
      BY <2>3, <1>4, <1>9 DEF Resolved, Report
    <2> QED BY <2>2, <2>3
  <1>10. CASE WaitReads
    <2>1. /\ Route(Head(wire)) \in BufferedEvent
          /\ Route(Head(wire)).type = "Response" => Route(Head(wire)).id \in pending
      BY <1>1, <1>10, HeadOfQueue, Routed DEF WaitReads
    <2> QED BY <1>4, <1>7, <1>9, <1>10, <2>1 DEF WaitReads
  <1>11. CASE WaitTimesOut
    BY <1>1, <1>6, <1>11 DEF WaitTimesOut
  <1>12. CASE RecvFromStream \/ WasmRecvEvent
    BY <1>4, <1>9, <1>12 DEF RecvFromStream, WasmRecvEvent, RecvFrame
  <1>13. CASE RecvTimesOut
    BY <1>6, <1>13 DEF RecvTimesOut, Expired
  \* Nothing is pending or buffered where the connection changes.
  <1>14. ASSUME pending' = {}, buffered' = <<>>, UNCHANGED <<sent, sentOn, verdicts>>
         PROVE  RequestInv'
    BY <1>3, <1>14 DEF BufferedResponses, Ids, Once
  <1>15. CASE ConnectWithRetries \/ WasmConnect \/ ReadInitialResponse
    <2>1. pending = {} /\ UNCHANGED <<pending, buffered, sent, sentOn, verdicts>>
      BY <1>15 DEF ConnectWithRetries, WasmConnect, ReadInitialResponse, ClientInv, ConnectInv
    <2>2. BufferedResponses = {}
      BY <1>15, <2>1 DEF ClientInv, ConnectInv, ConnectWithRetries, WasmConnect, ReadInitialResponse,
             BufferedResponses, Ids
    <2> QED BY <1>3, <1>0, <2>1, <2>2
  <1>16. CASE Reconnect \/ WasmReconnect
    BY <1>14, <1>16 DEF Reconnect, WasmReconnect, ClientInv, ConnectInv
  <1> QED BY <1>4, <1>5, <1>8, <1>10, <1>11, <1>12, <1>13, <1>15, <1>16
     DEF Next, SendAsync, WasmSendRequest, SendOnly, SendAndWait, ServerGreets, ServerAnswers,
         ServerPush, ServerNoise, LinkEnds, vars


\* Pushes: what is owed was received, is buffered or is on the wire, in this order.
LEMMA PushStep == ClientInv /\ [Next]_vars => PushesConserved'
  <1> SUFFICES ASSUME ClientInv, [Next]_vars PROVE PushesConserved'
    OBVIOUS
  <1> DEFINE Received == Range(got)
             Buffered == Ids(buffered, "Push")
             OnWire == Ids(wire, "push")
             GotInOrder == \A i, j \in DOMAIN got : i < j => got[i] < got[j]
  <1>1. /\ wire \in Seq(Frame) /\ buffered \in Seq(BufferedEvent)
        /\ pushes \in Nat /\ owed \subseteq 1..pushes /\ got \in Seq(1..MaxPushes)
    BY DEF ClientInv, TypeOK
  <1>2. /\ owed = Received \cup Buffered \cup OnWire /\ GotInOrder
        /\ InOrder(buffered, "Push") /\ InOrder(wire, "push")
        /\ Before(Received, Buffered) /\ Before(Received \cup Buffered, OnWire)
    BY DEF ClientInv, PushesConserved
  <1>3. got' = got => Received' = Received /\ GotInOrder'
    BY <1>2
  <1>4. buffered' = buffered => Buffered' = Buffered /\ InOrder(buffered, "Push")'
    BY <1>2 DEF Ids, InOrder
  <1>5. wire' = wire => OnWire' = OnWire /\ InOrder(wire, "push")'
    BY <1>2 DEF Ids, InOrder
  \* The caller gets the first of what is left.
  <1>6. ASSUME NEW e, e.type = "Push", e.id \in Nat, Report(e), Before(Received, {e.id})
        PROVE  Received' = Received \cup {e.id} /\ GotInOrder'
    <2>1. got' = Append(got, e.id)
      BY <1>6 DEF Report
    <2>2. /\ Len(got) \in Nat /\ DOMAIN got = 1..Len(got) /\ DOMAIN got' = 1..(Len(got) + 1)
          /\ \A i \in 1..Len(got) : got'[i] = got[i] /\ got[i] \in Received
          /\ got'[Len(got) + 1] = e.id
      BY <1>1, <2>1 DEF Range
    <2>3. GotInOrder'
      BY <1>2, <1>6, <2>2 DEF Before
    <2>4. \A x : x \in Received <=> \E i \in DOMAIN got : x = got[i]
      BY DEF Range
    <2>5. \A x : x \in Received' <=> \E i \in DOMAIN got' : x = got'[i]
      BY DEF Range
    <2>6. Received' = Received \cup {e.id}
      BY <2>2, <2>4, <2>5
    <2> QED BY <2>3, <2>6
  <1>7. ASSUME NEW e, e.type # "Push", Report(e)
        PROVE  got' = got
    BY <1>7 DEF Report
  <1> HIDE DEF Received, Buffered, OnWire, GotInOrder
  <1>8. ASSUME owed' = Received' \cup Buffered' \cup OnWire', GotInOrder',
               InOrder(buffered, "Push")', InOrder(wire, "push")',
               Before(Received', Buffered'), Before(Received' \cup Buffered', OnWire')
        PROVE  PushesConserved'
    BY <1>8 DEF PushesConserved, Received, Buffered, OnWire, GotInOrder
  <1>9. CASE UNCHANGED <<owed, got, buffered, wire>>
    BY <1>2, <1>3, <1>4, <1>5, <1>8, <1>9
  \* The server or the link writes a frame that is no push.
  <1>10. ASSUME NEW q \in Seq(Frame), NEW e \in Frame, e.type # "push",
                Ids(q, "push") = OnWire, InOrder(q, "push")
         PROVE  Ids(Append(q, e), "push") = OnWire /\ InOrder(Append(q, e), "push")
    <2>1. Ids(Append(q, e), "push") = Ids(q, "push") \cup IdOf(e, "push")
      BY <1>10, IdsAppend
    <2>2. InOrder(Append(q, e), "push")
      BY <1>10, QueueAppend
    <2> QED BY <1>10, <2>1, <2>2 DEF IdOf
  <1>14. CASE ServerAnswers \/ ServerNoise \/ LinkEnds
    <2>1. UNCHANGED <<owed, got, buffered>>
      BY <1>14 DEF ServerAnswers, ServerNoise, LinkEnds
    <2>2. PICK e \in Frame : e.type # "push" /\ wire' = Append(wire, e)
      <3>1. \A type \in {"resp", "end"} \cup Noise, id \in Nat :
                Item(type, id) \in Frame /\ Item(type, id).type # "push"
        BY DEF Item, Frame, Noise
      <3>2. asked \subseteq Nat
        BY DEF ClientInv, TypeOK, Requests
      <3> QED BY <1>14, <3>1, <3>2 DEF ServerAnswers, ServerNoise, LinkEnds, Write
    <2>3. OnWire' = OnWire /\ InOrder(wire, "push")'
      BY <1>1, <1>2, <1>10, <2>2 DEF OnWire
    <2> QED BY <1>2, <1>3, <1>4, <1>8, <2>1, <2>3
  <1>15. CASE ServerGreets
    <2>1. UNCHANGED <<owed, got, buffered>>
      BY <1>15 DEF ServerGreets
    <2>2. \A type \in {"ack", "nack", "end"} : Item(type, 0) \in Frame /\ Item(type, 0).type # "push"
      BY DEF Item, Frame
    <2>3. CASE wire' = Append(wire, Item("ack", 0))
      BY <1>1, <1>2, <1>3, <1>4, <1>8, <1>10, <2>1, <2>2, <2>3 DEF OnWire
    <2>4. CASE wire' = wire \o <<Item("nack", 0), Item("end", 0)>>
      <3> DEFINE w == Append(wire, Item("nack", 0))
      <3>1. wire' = Append(w, Item("end", 0)) /\ w \in Seq(Frame)
        BY <1>1, <2>2, <2>4
      <3>2. Ids(w, "push") = OnWire /\ InOrder(w, "push")
        BY <1>1, <1>2, <1>10, <2>2 DEF OnWire
      <3> HIDE DEF w
      <3>3. OnWire' = OnWire /\ InOrder(wire, "push")'
        BY <1>10, <2>2, <3>1, <3>2 DEF OnWire
      <3> QED BY <1>2, <1>3, <1>4, <1>8, <2>1, <3>3
    <2> QED BY <1>15, <2>3, <2>4 DEF ServerGreets
  <1>11. CASE ServerPush
    <2> DEFINE p == pushes + 1
               e == Item("push", p)
    <2>1. /\ e \in Frame /\ e.type = "push" /\ e.id = p /\ wire' = Append(wire, e)
          /\ owed' = owed \cup {p} /\ UNCHANGED <<got, buffered>>
      BY <1>1, <1>11 DEF ServerPush, Write, Item, Frame
    <2>2. Before(owed, {p})
      BY <1>1 DEF Before
    <2> HIDE DEF e, p
    <2>3. OnWire' = OnWire \cup {p}
      BY <1>1, <2>1, IdsAppend DEF IdOf, OnWire
    <2>4. Before(Ids(wire, "push"), {e.id})
      BY <1>2, <2>1, <2>2 DEF Before, OnWire
    <2>5. InOrder(Append(wire, e), "push")
      BY <1>1, <1>2, <2>1, <2>4, QueueAppend
    <2>6. Before(Received \cup Buffered, OnWire \cup {p})
      BY <1>2, <2>2 DEF Before
    <2> QED BY <1>2, <1>3, <1>4, <1>8, <2>1, <2>3, <2>5, <2>6
  \* A frame that is no push leaves the wire.
  <1>12. ASSUME wire # <<>>, Head(wire).type # "push", wire' = Tail(wire)
         PROVE  OnWire' = OnWire /\ InOrder(wire, "push")'
    <2>1. Ids(wire, "push") = Ids(Tail(wire), "push") \cup IdOf(Head(wire), "push")
      BY <1>1, <1>12, IdsTail
    <2>2. InOrder(Tail(wire), "push")
      BY <1>1, <1>2, <1>12, QueueTail
    <2> QED BY <1>12, <2>1, <2>2 DEF IdOf, OnWire
  \* A push leaves the wire.
  <1>13. ASSUME wire # <<>>, Head(wire).type = "push", wire' = Tail(wire)
         PROVE  /\ OnWire = OnWire' \cup {Head(wire).id} /\ InOrder(wire, "push")'
                /\ Before({Head(wire).id}, OnWire') /\ Head(wire).id \in Nat
    <2>1. Ids(wire, "push") = Ids(Tail(wire), "push") \cup IdOf(Head(wire), "push")
      BY <1>1, <1>13, IdsTail
    <2>2. InOrder(Tail(wire), "push") /\ Before({Head(wire).id}, Ids(Tail(wire), "push"))
      BY <1>1, <1>2, <1>13, QueueTail
    <2>3. Head(wire) \in Frame
      BY <1>1, <1>13
    <2> QED BY <1>13, <2>1, <2>2, <2>3 DEF IdOf, OnWire, Frame
  \* A frame that is handed out while nothing is buffered.
  <1>16. CASE RecvFromStream \/ WasmRecvEvent
    <2> DEFINE frame == Head(wire)
    <2>1. /\ wire # <<>> /\ wire' = Tail(wire) /\ UNCHANGED <<owed, buffered>> /\ buffered = <<>>
          /\ IF Decodes(frame) THEN Report(Route(frame)) ELSE got' = got
      BY <1>16 DEF RecvFromStream, WasmRecvEvent, RecvFrame, ClientInv, ConnectInv
    <2>2. Buffered = {} /\ frame \in Frame
      BY <1>1, <2>1 DEF Buffered, Ids
    <2> HIDE DEF frame
    <2>3. CASE frame.type = "push"
      <3>1. Route(frame).type = "Push" /\ Route(frame).id = frame.id /\ Report(Route(frame))
        BY <2>1, <2>2, <2>3, Routed DEF Decodes
      <3>2. /\ OnWire = OnWire' \cup {frame.id} /\ InOrder(wire, "push")'
            /\ Before({frame.id}, OnWire') /\ frame.id \in Nat
        BY <1>13, <2>1, <2>3 DEF frame
      <3>3. Received' = Received \cup {frame.id} /\ GotInOrder'
        BY <1>2, <1>6, <3>1, <3>2 DEF Before
      <3>4. Before(Received', Buffered') /\ Before(Received' \cup Buffered', OnWire')
        BY <1>2, <1>4, <2>1, <2>2, <3>2, <3>3 DEF Before
      <3> QED BY <1>2, <1>4, <1>8, <2>1, <2>2, <3>2, <3>3, <3>4
    <2>4. CASE frame.type # "push"
      <3>1. got' = got
        BY <1>7, <2>1, <2>2, <2>4, Routed
      <3> QED BY <1>2, <1>3, <1>4, <1>8, <1>12, <2>1, <2>4, <3>1 DEF frame
    <2> QED BY <2>3, <2>4
  \* A wait buffers the pushes it reads.
  <1>17. CASE WaitReads
    <2> DEFINE frame == Head(wire)
               e == Route(frame)
    <2>1. /\ wire # <<>> /\ wire' = Tail(wire) /\ owed' = owed /\ frame \in Frame
          /\ \/ got' = got /\ buffered' = buffered /\ frame.type # "push"
             \/ e = Item("Response", waiting) /\ Report(e) /\ buffered' = buffered
             \/ got' = got /\ buffered' = Append(buffered, e)
      BY <1>1, <1>17 DEF WaitReads, Decodes, IsHeartbeat
    <2>2. /\ e \in BufferedEvent /\ e.id = frame.id
          /\ e.type = "Push" <=> frame.type = "push"
      BY <2>1, Routed
    <2> HIDE DEF frame, e
    <2>3. CASE got' = got /\ buffered' = buffered /\ frame.type # "push"
      BY <1>2, <1>3, <1>4, <1>8, <1>12, <2>1, <2>3 DEF frame
    <2>4. CASE e = Item("Response", waiting) /\ Report(e) /\ buffered' = buffered
      <3>1. e.type # "Push" /\ got' = got
        BY <1>7, <2>4 DEF Item
      <3> QED BY <1>2, <1>3, <1>4, <1>8, <1>12, <2>1, <2>2, <2>4, <3>1 DEF frame
    <2>5. CASE got' = got /\ buffered' = Append(buffered, e) /\ frame.type # "push"
      <3>1. Buffered' = Buffered /\ InOrder(buffered, "Push")'
        <4>1. Ids(Append(buffered, e), "Push") = Ids(buffered, "Push") \cup IdOf(e, "Push")
          BY <1>1, <2>2, IdsAppend
        <4>2. InOrder(Append(buffered, e), "Push")
          BY <1>1, <1>2, <2>2, <2>5, QueueAppend
        <4> QED BY <2>2, <2>5, <4>1, <4>2 DEF IdOf, Buffered
      <3> QED BY <1>2, <1>3, <1>8, <1>12, <2>1, <2>5, <3>1 DEF frame
    <2>6. CASE got' = got /\ buffered' = Append(buffered, e) /\ frame.type = "push"
      <3>1. /\ OnWire = OnWire' \cup {e.id} /\ InOrder(wire, "push")' /\ Before({e.id}, OnWire')
        BY <1>13, <2>1, <2>2, <2>6 DEF frame
      <3>2. Before(Buffered, {e.id}) /\ Before(Received, {e.id})
        BY <1>2, <3>1 DEF Before
      <3>3. Buffered' = Buffered \cup {e.id} /\ InOrder(buffered, "Push")'
        <4>1. Ids(Append(buffered, e), "Push") = Ids(buffered, "Push") \cup IdOf(e, "Push")
          BY <1>1, <2>2, IdsAppend
        <4>2. InOrder(Append(buffered, e), "Push")
          BY <1>1, <1>2, <2>2, <2>6, <3>2, QueueAppend DEF Buffered
        <4> QED BY <2>2, <2>6, <4>1, <4>2 DEF IdOf, Buffered
      <3>4. Before(Received', Buffered') /\ Before(Received' \cup Buffered', OnWire')
        BY <1>2, <1>3, <2>6, <3>1, <3>2, <3>3 DEF Before
      <3> QED BY <1>2, <1>3, <1>8, <2>1, <2>6, <3>1, <3>3, <3>4
    <2> QED BY <2>1, <2>3, <2>4, <2>5, <2>6
  <1>18. CASE RecvBuffered
    <2> DEFINE e == Head(buffered)
    <2>1. /\ buffered # <<>> /\ buffered' = Tail(buffered) /\ Report(e) /\ e \in BufferedEvent
          /\ UNCHANGED <<owed, wire>>
      BY <1>1, <1>18 DEF RecvBuffered
    <2>2. Ids(buffered, "Push") = Ids(Tail(buffered), "Push") \cup IdOf(e, "Push")
      BY <1>1, <2>1, IdsTail
    <2>3. /\ InOrder(Tail(buffered), "Push")
          /\ e.type = "Push" => Before({e.id}, Ids(Tail(buffered), "Push"))
      BY <1>1, <1>2, <2>1, QueueTail
    <2> HIDE DEF e
    <2>4. CASE e.type = "Push"
      <3>1. Buffered = Buffered' \cup {e.id} /\ Before({e.id}, Buffered') /\ e.id \in Nat
        BY <2>1, <2>2, <2>3, <2>4 DEF Buffered, IdOf, BufferedEvent
      <3>2. Received' = Received \cup {e.id} /\ GotInOrder'
        BY <1>2, <1>6, <2>1, <2>4, <3>1 DEF Before
      <3>3. Before(Received', Buffered') /\ Before(Received' \cup Buffered', OnWire')
        BY <1>2, <1>5, <2>1, <3>1, <3>2 DEF Before
      <3> QED BY <1>2, <1>5, <1>8, <2>1, <2>3, <3>1, <3>2, <3>3
    <2>5. CASE e.type # "Push"
      <3>1. got' = got /\ Buffered' = Buffered
        BY <1>7, <2>1, <2>2, <2>5 DEF Buffered, IdOf
      <3> QED BY <1>2, <1>3, <1>5, <1>8, <2>1, <2>3, <3>1
    <2> QED BY <2>4, <2>5
  \* A new connection starts with nothing owed.
  <1>19. ASSUME owed' = {}, got' = <<>>, wire' = <<>>, buffered' = <<>>
         PROVE  PushesConserved'
    BY <1>19 DEF PushesConserved, Before, InOrder, Ids, Range
  <1>20. CASE WasmConnect \/ Reconnect \/ WasmReconnect
    BY <1>19, <1>20 DEF WasmConnect, Reconnect, WasmReconnect, OpenSocket, ClientInv, ConnectInv
  <1>21. CASE ReadInitialResponse
    <2>1. /\ wire # <<>> /\ buffered' = buffered /\ buffered = <<>> /\ AckFirst(wire)
          /\ \/ wire' = Tail(wire) /\ UNCHANGED <<owed, got>>
             \/ owed' = {} /\ got' = <<>> /\ wire' = <<>>
      BY <1>21 DEF ReadInitialResponse, InitialResponseRead, ClientInv, ConnectInv
    <2>2. Head(wire).type # "push"
      BY <1>1, <2>1, AckTail
    <2> QED BY <1>2, <1>3, <1>4, <1>8, <1>12, <1>19, <2>1, <2>2
  <1> QED BY <1>9, <1>11, <1>14, <1>15, <1>16, <1>17, <1>18, <1>20, <1>21
    DEF Next, ConnectWithRetries, SendAsync, WasmSendRequest, SendOnly, SendAndWait, WaitTimesOut,
        RecvTimesOut, vars


\* Types, in four parts.
LinkType ==
    /\ platform \in {"native", "wasm"}
    /\ initial \in BOOLEAN /\ accepted \in BOOLEAN /\ verified \in BOOLEAN /\ up \in BOOLEAN
    /\ platform = "native" => (accepted <=> conn > 0) /\ (verified <=> conn > 0) /\ ~initial
    /\ conn \in 0..MaxConnections
QueueType == wire \in Seq(Frame) /\ buffered \in Seq(BufferedEvent)
RequestType ==
    /\ asked \subseteq Requests /\ pending \subseteq 1..sent
    /\ waiting \in {0} \cup pending
    /\ sent \in 0..MaxRequests
    /\ sentOn \in [Requests -> 0..MaxConnections]
PushType == pushes \in 0..MaxPushes /\ owed \subseteq 1..pushes
ReportType == verdicts \in [Requests -> Nat] /\ got \in Seq(1..MaxPushes)

LEMMA TypeParts == TypeOK <=> LinkType /\ QueueType /\ RequestType /\ PushType /\ ReportType
  BY DEF TypeOK, LinkType, QueueType, RequestType, PushType, ReportType

LEMMA LinkTypeStep == ClientInv /\ [Next]_vars => LinkType'
  <1> SUFFICES ASSUME ClientInv, [Next]_vars PROVE LinkType'
    OBVIOUS
  <1>1. LinkType /\ MaxConnections \in Nat \ {0} /\ ConnectInv
    BY ClientConstants, TypeParts DEF ClientConstants, ClientInv
  <1>2. CASE UNCHANGED <<link, conn>> /\ up' \in BOOLEAN
    BY <1>1, <1>2 DEF LinkType, link
  <1>3. CASE ConnectWithRetries
    BY <1>1, <1>3 DEF ConnectWithRetries, LinkType
  \* On wasm only the domains are left to show.
  <1>10. ASSUME platform' = "wasm", conn' \in 0..MaxConnections, initial' \in BOOLEAN,
                accepted' \in BOOLEAN, verified' \in BOOLEAN, up' \in BOOLEAN
         PROVE  LinkType'
    BY <1>10 DEF LinkType
  <1>11. accepted \in BOOLEAN /\ verified \in BOOLEAN /\ up \in BOOLEAN /\ initial \in BOOLEAN
    BY <1>1 DEF LinkType
  <1>4. CASE WasmConnect
    <2>1. platform' = "wasm" /\ conn' = 1 /\ initial' = TRUE /\ accepted' = FALSE
          /\ verified' = verified /\ up' = TRUE
      BY <1>4 DEF WasmConnect, OpenSocket
    <2>2. conn' \in 0..MaxConnections
      BY <1>1, <2>1
    <2> QED BY <1>10, <1>11, <2>1, <2>2
  <1>5. CASE Reconnect
    <2>1. conn > 0 /\ conn' = conn + 1 /\ conn' \in 0..MaxConnections /\ UNCHANGED link /\ up'
      BY <1>1, <1>5 DEF Reconnect, Idle, LinkType
    <2> QED BY <1>1, <2>1 DEF LinkType, link
  <1>6. CASE WasmReconnect
    <2>1. platform' = "wasm" /\ initial' = TRUE /\ accepted' = FALSE /\ verified' = FALSE /\ up' = TRUE
      BY <1>6 DEF WasmReconnect, OpenSocket
    <2>2. conn' \in 0..MaxConnections
      <3>1. conn \in 0..MaxConnections
        BY <1>1 DEF LinkType
      <3>2. conn < MaxConnections /\ conn' = conn + 1
        BY <1>6 DEF WasmReconnect
      <3> QED BY <1>1, <3>1, <3>2
    <2> QED BY <1>10, <2>1, <2>2
  <1>7. CASE ReadInitialResponse
    <2>1. initial /\ platform = "wasm" /\ platform' = platform
      BY <1>1, <1>7 DEF ReadInitialResponse, ConnectInv
    <2>2. CASE UNCHANGED <<initial, verified, conn, up, accepted>>
      BY <1>1, <2>1, <2>2 DEF LinkType
    <2>3. CASE InitialResponseRead(IsConnectAck(Head(wire)))
      <3>1. initial' = FALSE /\ verified' = IsConnectAck(Head(wire))
            /\ \/ up' = FALSE /\ accepted' = FALSE /\ conn' = 0
               \/ up' = up /\ accepted' = accepted /\ conn' = conn
        BY <2>3 DEF InitialResponseRead
      <3>2. conn' \in 0..MaxConnections
        <4>1. conn \in 0..MaxConnections
          BY <1>1 DEF LinkType
        <4> QED BY <1>1, <3>1, <4>1
      <3>3. IsConnectAck(Head(wire)) \in BOOLEAN
        BY DEF IsConnectAck
      <3> QED BY <1>10, <1>11, <2>1, <3>1, <3>2, <3>3
    <2> QED BY <1>7, <2>2, <2>3 DEF ReadInitialResponse
  <1>8. CASE ServerGreets
    <2>1. platform = "wasm"
      BY <1>1, <1>8 DEF ServerGreets, LinkType, ConnectInv
    <2> QED BY <1>1, <1>8, <2>1 DEF ServerGreets, LinkType
  <1>9. CASE \/ SendAsync \/ SendAndWait \/ WaitReads \/ WaitTimesOut \/ RecvBuffered \/ RecvFromStream
             \/ RecvTimesOut \/ WasmSendRequest \/ WasmRecvEvent \/ ServerAnswers \/ ServerPush
             \/ ServerNoise \/ LinkEnds \/ UNCHANGED vars
    <2>1. UNCHANGED <<link, conn>> /\ (up' = up \/ up' = FALSE)
      BY <1>9
      DEF SendAsync, SendAndWait, SendOnly, WaitReads, WaitTimesOut, RecvBuffered, RecvFromStream,
          RecvFrame, RecvTimesOut, WasmSendRequest, WasmRecvEvent, ServerAnswers, ServerPush,
          ServerNoise, LinkEnds, vars
    <2> QED BY <1>1, <1>2, <2>1 DEF LinkType
  <1> QED BY <1>3, <1>4, <1>5, <1>6, <1>7, <1>8, <1>9 DEF Next

LEMMA QueueTypeStep == ClientInv /\ [Next]_vars => QueueType'
  <1> SUFFICES ASSUME ClientInv, [Next]_vars PROVE QueueType'
    OBVIOUS
  <1>1. QueueType
    BY TypeParts DEF ClientInv
  <1>2. wire # <<>> => Tail(wire) \in Seq(Frame) /\ Head(wire) \in Frame
    BY <1>1 DEF QueueType
  <1>3. /\ <<>> \in Seq(Frame) /\ <<>> \in Seq(BufferedEvent)
        /\ \A q \in Seq(Frame), e \in Frame : Append(q, e) \in Seq(Frame)
        /\ \A e \in BufferedEvent : Append(buffered, e) \in Seq(BufferedEvent)
    BY <1>1 DEF QueueType
  <1>4. \A type \in {"resp", "push", "end", "ack", "nack"} \cup Noise, id \in Nat : Item(type, id) \in Frame
    BY DEF Item, Frame
  <1>5. CASE \/ ConnectWithRetries \/ SendAsync \/ WasmSendRequest \/ SendAndWait \/ WaitTimesOut
             \/ RecvTimesOut \/ UNCHANGED vars
    BY <1>1, <1>5 DEF QueueType, ConnectWithRetries, SendAsync, WasmSendRequest, SendAndWait, SendOnly,
       WaitTimesOut, RecvTimesOut, vars
  <1>6. CASE WaitReads
    <2>1. wire' = Tail(wire) /\ wire # <<>> /\ (buffered' = buffered \/ buffered' = Append(buffered, Route(Head(wire))))
      BY <1>6 DEF WaitReads
    <2>2. Route(Head(wire)) \in BufferedEvent
      BY <1>2, <2>1, Routed
    <2> QED BY <1>1, <1>2, <1>3, <2>1, <2>2 DEF QueueType
  <1>7. CASE RecvBuffered
    BY <1>1, <1>7 DEF QueueType, RecvBuffered
  <1>8. CASE RecvFromStream \/ WasmRecvEvent
    BY <1>1, <1>2, <1>8 DEF QueueType, RecvFromStream, WasmRecvEvent, RecvFrame
  <1>9. CASE WasmConnect \/ Reconnect \/ WasmReconnect
    BY <1>1, <1>3, <1>9 DEF QueueType, WasmConnect, Reconnect, WasmReconnect, OpenSocket
  <1>10. CASE ReadInitialResponse
    BY <1>1, <1>2, <1>3, <1>10 DEF QueueType, ReadInitialResponse, InitialResponseRead
  <1>11. CASE ServerGreets
    <2>1. wire \o <<Item("nack", 0), Item("end", 0)>> = Append(Append(wire, Item("nack", 0)), Item("end", 0))
      BY <1>1 DEF QueueType
    <2>2. Append(wire, Item("nack", 0)) \in Seq(Frame)
      BY <1>1, <1>3, <1>4 DEF QueueType
    <2> QED BY <1>1, <1>3, <1>4, <1>11, <2>1, <2>2 DEF QueueType, ServerGreets
  <1>12. CASE ServerAnswers \/ ServerPush \/ ServerNoise \/ LinkEnds
    <2>1. asked \subseteq Nat /\ pushes \in Nat
      BY TypeParts DEF ClientInv, RequestType, PushType, Requests
    <2>2. (\E e \in Frame : wire' = Append(wire, e)) /\ buffered' = buffered
      BY <1>4, <1>12, <2>1 DEF ServerAnswers, ServerPush, ServerNoise, LinkEnds, Write, Noise
    <2> QED BY <1>1, <1>3, <2>2 DEF QueueType
  <1> QED BY <1>5, <1>6, <1>7, <1>8, <1>9, <1>10, <1>11, <1>12 DEF Next

LEMMA RequestTypeStep == ClientInv /\ [Next]_vars => RequestType' /\ PushType'
  <1> SUFFICES ASSUME ClientInv, [Next]_vars PROVE RequestType' /\ PushType'
    OBVIOUS
  <1>1. /\ RequestType /\ PushType /\ MaxRequests \in Nat /\ MaxPushes \in Nat
        /\ conn \in 0..MaxConnections /\ ConnectInv
    BY ClientConstants, TypeParts DEF ClientConstants, ClientInv, LinkType
  <1> USE DEF RequestType, PushType
  <1>2. CASE SendRequest /\ UNCHANGED <<pushes, owed>> /\ waiting' \in {waiting, GenMsgIncr}
    <2>1. sent' = sent + 1 /\ sent' \in Requests /\ pending' = pending \cup {sent'}
          /\ asked' \in {asked, asked \cup {sent'}} /\ sentOn' = [sentOn EXCEPT ![sent'] = conn]
      BY <1>1, <1>2 DEF SendRequest, GenMsgIncr, Registered, Requests
    <2>2. sentOn' \in [Requests -> 0..MaxConnections]
      BY <1>1, <2>1
    <2>3. 1..sent \subseteq 1..sent' /\ sent' \in 1..sent' /\ sent' \in 0..MaxRequests
      BY <1>1, <2>1 DEF Requests
    <2> QED BY <1>1, <1>2, <2>1, <2>2, <2>3 DEF GenMsgIncr
  <1>3. CASE pending' \subseteq pending /\ waiting' \in {0} \cup pending'
             /\ UNCHANGED <<asked, sent, sentOn, pushes, owed>>
    BY <1>1, <1>3
  <1>4. CASE WaitReads
    <2>1. wire # <<>> /\ waiting # 0 /\ Head(wire) \in Frame
      BY <1>4, TypeParts DEF WaitReads, ClientInv, QueueType
    <2> DEFINE e == Route(Head(wire))
    <2>2. e = Item("Response", waiting) \/ (e.type = "Response" => e.id # waiting)
      <3>1. e = [type |-> e.type, id |-> e.id]
        BY <2>1, Routed DEF BufferedEvent
      <3> QED BY <3>1 DEF Item
    <2>3. pending' \in {pending, Resolved(e)} /\ UNCHANGED <<asked, sent, sentOn, pushes, owed>>
          /\ (waiting' = 0 \/ (waiting' = waiting /\ (pending' = pending \/ e # Item("Response", waiting))))
      BY <1>4 DEF WaitReads
    <2> HIDE DEF e
    <2> QED BY <1>1, <1>3, <2>1, <2>2, <2>3 DEF Resolved
  <1>5. CASE WaitTimesOut \/ RecvBuffered \/ RecvTimesOut
    BY <1>1, <1>3, <1>5 DEF WaitTimesOut, RecvBuffered, RecvTimesOut, Idle
  <1>6. CASE RecvFromStream \/ WasmRecvEvent
    BY <1>1, <1>3, <1>6 DEF RecvFromStream, WasmRecvEvent, RecvFrame, Idle, Resolved
  <1>7. CASE ConnectWithRetries \/ ServerGreets \/ ServerNoise \/ LinkEnds \/ UNCHANGED vars
    BY <1>1, <1>3, <1>7 DEF ConnectWithRetries, ServerGreets, ServerNoise, LinkEnds, vars
  <1>8. CASE WasmConnect \/ Reconnect \/ WasmReconnect \/ ReadInitialResponse
    <2>1. waiting = 0 /\ waiting' = waiting /\ pending' \subseteq pending /\ owed' \in {owed, {}}
          /\ UNCHANGED <<asked, sent, sentOn, pushes>>
      BY <1>1, <1>8 DEF WasmConnect, Reconnect, WasmReconnect, ReadInitialResponse, InitialResponseRead,
         OpenSocket, Idle, ConnectInv
    <2> QED BY <1>1, <2>1
  <1>9. CASE ServerAnswers
    BY <1>1, <1>9 DEF ServerAnswers
  <1>10. CASE ServerPush
    BY <1>1, <1>10 DEF ServerPush
  <1>11. CASE SendAsync \/ WasmSendRequest \/ SendAndWait
    BY <1>2, <1>11 DEF SendAsync, WasmSendRequest, SendOnly, SendAndWait
  <1> QED BY <1>4, <1>5, <1>6, <1>7, <1>8, <1>9, <1>10, <1>11 DEF Next

LEMMA ReportTypeStep == ClientInv /\ [Next]_vars => ReportType'
  <1> SUFFICES ASSUME ClientInv, [Next]_vars PROVE ReportType'
    OBVIOUS
  <1>1. /\ TypeOK /\ ReportType /\ 1..sent \subseteq Requests
        /\ pending \subseteq 1..sent /\ waiting \in {0} \cup pending
    BY ClientConstants, TypeParts DEF ClientConstants, ClientInv, RequestType, Requests
  <1>2. CASE UNCHANGED <<verdicts, got>>
    BY <1>1, <1>2 DEF ReportType
  <1>3. ASSUME NEW e, Reportable(e), Report(e)
        PROVE  ReportType'
    BY <1>1, <1>3, ReportIsTyped DEF ReportType
  <1>4. ASSUME NEW r \in pending, verdicts' = [verdicts EXCEPT ![r] = @ + 1], got' = got
        PROVE  ReportType'
    <2>1. r \in Requests
      BY <1>1, <1>4
    <2> QED BY <1>1, <1>4, <2>1 DEF ReportType
  <1>5. got' = <<>> => got' \in Seq(1..MaxPushes)
    OBVIOUS
  <1>6. CASE WaitReads \/ RecvFromStream \/ WasmRecvEvent
    <2>1. \/ UNCHANGED <<verdicts, got>>
          \/ wire # <<>> /\ Decodes(Head(wire)) /\ Report(Route(Head(wire)))
      BY <1>6 DEF WaitReads, RecvFromStream, WasmRecvEvent, RecvFrame
    <2> QED BY <1>2, <1>3, <2>1, FrameIsReportable
  <1>7. CASE RecvBuffered
    BY <1>3, <1>7, BufferedIsReportable DEF RecvBuffered
  <1>8. CASE WaitTimesOut \/ RecvTimesOut
    BY <1>1, <1>4, <1>8 DEF WaitTimesOut, RecvTimesOut, Expired
  <1>9. CASE WasmConnect \/ Reconnect \/ WasmReconnect \/ ReadInitialResponse
    <2>1. verdicts' = verdicts /\ (got' = got \/ got' = <<>>)
      BY <1>9 DEF WasmConnect, Reconnect, WasmReconnect, ReadInitialResponse, InitialResponseRead, OpenSocket
    <2> QED BY <1>1, <1>5, <2>1 DEF ReportType
  <1> QED BY <1>2, <1>6, <1>7, <1>8, <1>9
    DEF Next, ConnectWithRetries, SendAsync, WasmSendRequest, SendOnly, SendAndWait, ServerGreets,
        ServerAnswers, ServerPush, ServerNoise, LinkEnds, vars

-----------------------------------------------------------------------------
(* Theorems *)

\* The invariant behind the theorems below is inductive.
THEOREM ClientInvariance == Spec => []ClientInv
  <1>1. Init => ClientInv
    BY InitClientInv
  <1>2. ClientInv /\ [Next]_vars => ClientInv'
    <2> SUFFICES ASSUME ClientInv, [Next]_vars PROVE ClientInv'
      OBVIOUS
    <2>1. LinkType' /\ QueueType' /\ RequestType' /\ PushType' /\ ReportType'
      BY LinkTypeStep, QueueTypeStep, RequestTypeStep, ReportTypeStep
    <2>2. TypeOK'
      BY <2>1 DEF TypeOK, LinkType, QueueType, RequestType, PushType, ReportType
    <2>3. ConnectInv' /\ RequestInv' /\ PushesConserved'
      BY ConnectStep, RequestStep, PushStep
    <2> QED BY <2>2, <2>3 DEF ClientInv
  <1> QED BY <1>1, <1>2, PTL DEF Spec

\* No request is reported twice: not as answered and timed out, not from the buffer and
\* again from the stream, however late its answer is.
THEOREM OneVerdict == Spec => []OneVerdictPerRequest
  <1>1. ClientInv => OneVerdictPerRequest
    BY DEF ClientInv, RequestInv
  <1> QED BY <1>1, ClientInvariance, PTL

\* What is pending or buffered as a response was sent on the current connection, on both
\* platforms and after any number of reconnects.
THEOREM ResponsesKeepTheirConnection == Spec => []NoResponseAcrossConnections
  <1>1. ClientInv => NoResponseAcrossConnections
    BY DEF ClientInv, RequestInv
  <1> QED BY <1>1, ClientInvariance, PTL

\* Pushes are neither lost, repeated nor reordered while a connection lasts.
THEOREM PushesAreConserved == Spec => []PushesConserved
  <1>1. ClientInv => PushesConserved
    BY DEF ClientInv
  <1> QED BY <1>1, ClientInvariance, PTL

\* connect and reconnect return Ok only on a connection the server has accepted.
THEOREM OkIsAccepted == Spec => []OkMeansAccepted
  <1>1. ClientInv => OkMeansAccepted
    BY DEF ClientInv, ConnectInv
  <1> QED BY <1>1, ClientInvariance, PTL

-----------------------------------------------------------------------------
(* Refinement of RequestLife *)

\* Steps that concern no request: noise, pushes, connections that end, failed waits.
LifeStays == UNCHANGED <<conn, sent, pending, BufferedResponses, verdicts>>
LifeMoves == LifeOf!Next \/ LifeStays

\* A reported event settles its request, if it is a response, and concerns none otherwise.
LEMMA ReportSettles ==
    ASSUME ClientInv, NEW e, Report(e), UNCHANGED <<conn, sent>>,
           e.type = "Response" => e.id \in pending \cup BufferedResponses,
           pending' = IF e.type = "Response" THEN pending \ {e.id} ELSE pending,
           BufferedResponses' = IF e.type = "Response" THEN BufferedResponses \ {e.id}
                                                       ELSE BufferedResponses
    PROVE  LifeMoves
  <1>1. pending \cup BufferedResponses \subseteq Requests
    BY ClientConstants DEF ClientConstants, ClientInv, TypeOK, RequestInv, Requests
  <1>2. CASE e.type = "Response"
    <2>1. e.id \in Requests /\ LifeOf!Settle(e.id)
      BY <1>1, <1>2 DEF Report, LifeOf!Settle, LifeOf!Told
    <2> QED BY <2>1 DEF LifeMoves, LifeOf!Next
  <1>3. CASE e.type # "Response"
    BY <1>3 DEF Report, LifeMoves, LifeStays
  <1> QED BY <1>2, <1>3

\* A buffered event keeps the answer it carries, if it carries one.
LEMMA BufferKeeps ==
    ASSUME ClientInv, NEW e \in BufferedEvent, e.type = "Response" => e.id \in pending,
           pending' = Resolved(e), buffered' = Append(buffered, e),
           UNCHANGED <<conn, sent, verdicts>>
    PROVE  LifeMoves
  <1>1. BufferedResponses' = BufferedResponses \cup IdOf(e, "Response")
    <2>1. buffered \in Seq(BufferedEvent)
      BY DEF ClientInv, TypeOK
    <2>2. Ids(Append(buffered, e), "Response") = Ids(buffered, "Response") \cup IdOf(e, "Response")
      BY <2>1, IdsAppend
    <2> QED BY <2>2 DEF BufferedResponses
  <1>2. CASE e.type = "Response"
    <2>1. e.id \in Requests
      <3>1. pending \subseteq Requests
        BY ClientConstants DEF ClientConstants, ClientInv, TypeOK, Requests
      <3> QED BY <1>2, <3>1
    <2>2. LifeOf!Keep(e.id)
      BY <1>1, <1>2 DEF Resolved, IdOf, LifeOf!Keep
    <2> QED BY <2>1, <2>2 DEF LifeMoves, LifeOf!Next
  <1>3. CASE e.type # "Response"
    BY <1>1, <1>3 DEF Resolved, IdOf, LifeMoves, LifeStays
  <1> QED BY <1>2, <1>3

\* A frame handed straight to the caller: its request was pending, never buffered.
LEMMA FrameSettles ==
    ASSUME ClientInv, wire # <<>>, pending' = Resolved(Route(Head(wire))),
           Report(Route(Head(wire))), UNCHANGED <<conn, sent, buffered>>
    PROVE  LifeMoves
  <1> DEFINE e == Route(Head(wire))
  <1>1. e.type = "Response" => e.id \in pending
    <2>1. Head(wire) \in Frame
      BY HeadOfQueue DEF ClientInv, TypeOK
    <2> QED BY <2>1, Routed
  <1>2. e.type = "Response" => e.id \notin BufferedResponses
    BY <1>1 DEF ClientInv, RequestInv
  <1>3. BufferedResponses' = BufferedResponses
    BY DEF BufferedResponses, Ids
  <1> HIDE DEF e
  <1>4. Report(e) /\ pending' = IF e.type = "Response" THEN pending \ {e.id} ELSE pending
    BY DEF e, Resolved
  <1>5. BufferedResponses' = IF e.type = "Response" THEN BufferedResponses \ {e.id} ELSE BufferedResponses
    BY <1>2, <1>3
  <1> QED BY <1>1, <1>4, <1>5, ReportSettles

\* The first event of the buffer: its request is nowhere else in it.
LEMMA BufferedSettles ==
    ASSUME ClientInv, RecvBuffered
    PROVE  LifeMoves
  <1> DEFINE e == Head(buffered)
  <1>1. /\ buffered \in Seq(BufferedEvent) /\ buffered # <<>>
        /\ buffered' = Tail(buffered) /\ Report(e) /\ UNCHANGED <<conn, sent, pending>>
    BY DEF RecvBuffered, ClientInv, TypeOK
  <1>2. BufferedResponses = BufferedResponses' \cup IdOf(e, "Response")
    <2>1. Ids(buffered, "Response") = Ids(Tail(buffered), "Response") \cup IdOf(e, "Response")
      BY <1>1, IdsTail
    <2> QED BY <1>1, <2>1 DEF BufferedResponses
  <1>3. e.type = "Response" => e.id \notin BufferedResponses'
    <2>1. Once(buffered, "Response")
      BY DEF ClientInv, RequestInv
    <2>2. Once(buffered, "Response") =>
             (e.type = "Response" => e.id \notin Ids(Tail(buffered), "Response"))
      BY <1>1, QueueTail
    <2> QED BY <1>1, <2>1, <2>2 DEF BufferedResponses
  <1> HIDE DEF e
  <1>4. e.type = "Response" => e.id \in BufferedResponses /\ e.id \notin pending
    BY <1>2 DEF IdOf, ClientInv, RequestInv
  <1>5. BufferedResponses' = IF e.type = "Response" THEN BufferedResponses \ {e.id} ELSE BufferedResponses
    BY <1>2, <1>3 DEF IdOf
  <1>6. pending' = IF e.type = "Response" THEN pending \ {e.id} ELSE pending
    BY <1>1, <1>4
  <1> QED BY <1>1, <1>4, <1>5, <1>6, ReportSettles

\* One step, of either platform.
LEMMA LifeStep == ClientInv /\ [Next]_vars => LifeMoves
  <1> SUFFICES ASSUME ClientInv, [Next]_vars PROVE LifeMoves
    OBVIOUS
  <1>1. /\ sent \in Nat /\ conn \in Nat /\ pending \subseteq 1..sent /\ 1..sent \subseteq Requests
        /\ waiting \in {0} \cup pending
    BY ClientConstants DEF ClientConstants, ClientInv, TypeOK, Requests
  <1>2. buffered' = buffered => BufferedResponses' = BufferedResponses
    BY DEF BufferedResponses, Ids
  <1>3. CASE UNCHANGED <<conn, sent, pending, buffered, verdicts>>
    BY <1>2, <1>3 DEF LifeMoves, LifeStays
  <1>4. CASE SendRequest /\ UNCHANGED <<conn, buffered, verdicts>>
    <2>1. /\ sent' = sent + 1 /\ sent' \in Requests /\ pending' = pending \cup {sent'}
      BY <1>1, <1>4, ClientConstants
      DEF ClientConstants, SendRequest, GenMsgIncr, Registered, Requests
    <2>2. sent' \notin 1..sent /\ 1..sent' = (1..sent) \cup {sent'}
      BY <1>1, <2>1
    <2>3. LifeOf!Issue(sent')
      BY <1>2, <1>4, <2>1, <2>2 DEF LifeOf!Issue
    <2> QED BY <2>1, <2>3 DEF LifeMoves, LifeOf!Next
  <1>5. CASE WaitReads
    <2>1. /\ Route(Head(wire)) \in BufferedEvent
          /\ Route(Head(wire)).type = "Response" => Route(Head(wire)).id \in pending
      <3>1. Head(wire) \in Frame
        BY <1>5, HeadOfQueue DEF WaitReads, ClientInv, TypeOK
      <3> QED BY <3>1, Routed
    <2> QED BY <1>3, <1>5, <2>1, BufferKeeps, FrameSettles DEF WaitReads
  <1>6. CASE WaitTimesOut
    <2>1. waiting \in pending /\ waiting \in Requests /\ waiting \notin BufferedResponses
      BY <1>1, <1>6 DEF WaitTimesOut, ClientInv, RequestInv
    <2>2. LifeOf!Settle(waiting)
      BY <1>2, <1>6, <2>1 DEF WaitTimesOut, LifeOf!Settle, LifeOf!Told
    <2> QED BY <2>1, <2>2 DEF LifeMoves, LifeOf!Next
  <1>7. CASE RecvTimesOut
    <2>1. PICK r \in pending : verdicts' = [verdicts EXCEPT ![r] = @ + 1]
      BY <1>7 DEF RecvTimesOut, Expired
    <2>2. r \in Requests /\ pending' = {} /\ UNCHANGED <<conn, sent, buffered>>
      BY <1>1, <1>7 DEF RecvTimesOut, Expired
    <2>3. LifeOf!Expire(r)
      BY <1>2, <2>1, <2>2 DEF LifeOf!Expire, LifeOf!Told
    <2> QED BY <2>2, <2>3 DEF LifeMoves, LifeOf!Next
  <1>8. CASE RecvBuffered
    BY <1>8, BufferedSettles
  <1>9. CASE RecvFromStream \/ WasmRecvEvent
    BY <1>3, <1>9, FrameSettles DEF RecvFromStream, WasmRecvEvent, RecvFrame
  \* Nothing is pending or buffered where the connection changes.
  <1>10. ASSUME pending' = {}, buffered' = <<>>, conn' \in Nat, conn' # conn,
                UNCHANGED <<sent, verdicts>>
         PROVE  LifeMoves
    <2>1. BufferedResponses' = {}
      BY <1>10 DEF BufferedResponses, Ids
    <2> QED BY <1>10, <2>1 DEF LifeMoves, LifeOf!Next, LifeOf!Forget
  <1>11. CASE ConnectWithRetries \/ WasmConnect
    BY <1>10, <1>11 DEF ConnectWithRetries, WasmConnect, ClientInv, ConnectInv
  <1>12. CASE ReadInitialResponse
    <2>1. /\ pending' = {} /\ buffered' = <<>> /\ UNCHANGED <<sent, pending, buffered, verdicts>>
          /\ conn' = conn \/ (conn = 1 /\ conn' = 0)
      BY <1>12 DEF ReadInitialResponse, InitialResponseRead, ClientInv, ConnectInv
    <2> QED BY <1>1, <1>3, <1>10, <2>1
  <1>13. CASE Reconnect \/ WasmReconnect
    <2>1. pending' = {} /\ buffered' = <<>> /\ conn' = conn + 1 /\ UNCHANGED <<sent, verdicts>>
      BY <1>13 DEF Reconnect, WasmReconnect, ClientInv, ConnectInv
    <2> QED BY <1>1, <1>10, <2>1
  <1> QED BY <1>3, <1>4, <1>5, <1>6, <1>7, <1>8, <1>9, <1>11, <1>12, <1>13
     DEF Next, SendAsync, WasmSendRequest, SendOnly, SendAndWait, ServerGreets, ServerAnswers,
         ServerPush, ServerNoise, LinkEnds, vars, link

\* Both clients implement RequestLife: whatever is issued is awaited, and then reported once,
\* or forgotten with its connection or with the timeout of another request.
THEOREM ClientImplementsRequestLife == Spec => ImplementsRequestLife
  <1>1. Init => LifeOf!Init
    <2> SUFFICES ASSUME Init PROVE LifeOf!Init
      OBVIOUS
    <2>1. BufferedResponses = {} /\ 1..sent = {}
      BY DEF Init, BufferedResponses, Ids
    <2> QED BY <2>1 DEF Init, LifeOf!Init
  <1>2. ClientInv /\ [Next]_vars => [LifeOf!Next]_(LifeOf!vars)
    <2>1. LifeStays => UNCHANGED LifeOf!vars
      BY DEF LifeStays, LifeOf!vars
    <2> QED BY <2>1, LifeStep DEF LifeMoves
  <1> QED BY <1>1, <1>2, ClientInvariance, PTL DEF Spec, ImplementsRequestLife, LifeOf!Spec

=============================================================================
