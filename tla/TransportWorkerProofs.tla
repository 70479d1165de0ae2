------------------------ MODULE TransportWorkerProofs ------------------------
(***************************************************************************)
(* The hand-over of the native transport resource between the session      *)
(* thread and its worker, and the order of what the session drains from    *)
(* it, for any reconnect policy and any traffic.                           *)
(***************************************************************************)
EXTENDS TransportWorker, TLAPS

\* Before start_native_transport_task there is no worker.
LEMMA InitHandover == Init => HandoverInv
  BY DEF Init, HandoverInv, SessStates, WorkerStates

\* Every step of either thread, of the server or of the network keeps it.
LEMMA NextHandover == HandoverInv /\ [Next]_vars => HandoverInv'
<1> SUFFICES ASSUME HandoverInv, [Next]_vars PROVE HandoverInv'
  OBVIOUS
<1> USE DEF HandoverInv, SessStates, WorkerStates
<1>1. CASE Start \/ StartReturnsOk \/ StartReturnsErr
  BY <1>1 DEF Start, StartReturnsOk, StartReturnsErr, workerVars, netVars
<1>2. CASE Close \/ CloseAgain \/ DropResource
  BY <1>2 DEF Close, CloseAgain, DropResource, workerVars, netVars
<1>3. CASE JoinReturns
  BY <1>3 DEF JoinReturns, workerVars, netVars
<1>4. CASE DrainTransportEvents
  BY <1>4 DEF DrainTransportEvents, sessVars, workerVars, netVars
<1>5. CASE BuildRuntime
  BY <1>5 DEF BuildRuntime, Exit, sessVars
<1>6. CASE ConnectStream
  BY <1>6 DEF ConnectStream, Exit, sessVars
<1>7. CASE ReadInitialResponse
  BY <1>7 DEF ReadInitialResponse, Exit, sessVars
<1>8. CASE CheckShutdown
  BY <1>8 DEF CheckShutdown, sessVars, netVars
<1>9. CASE PollFrame
  BY <1>9 DEF PollFrame, Exit, sessVars
<1>10. CASE PollTimeout
  BY <1>10 DEF PollTimeout, sessVars, netVars
<1>11. CASE ReconnectGivesUp
  BY <1>11 DEF ReconnectGivesUp, Exit, sessVars
<1>12. CASE ReconnectStream \/ ReconnectSleep
  BY <1>12 DEF ReconnectStream, ReconnectSleep, sessVars, netVars
<1>13. CASE ReconnectInitialResponse
  BY <1>13 DEF ReconnectInitialResponse, Exit, sessVars
<1>14. CASE CloseClient
  BY <1>14 DEF CloseClient, Exit, sessVars
<1>15. CASE ServerPush \/ ServerPing \/ LinkEnds
  BY <1>15 DEF ServerPush, ServerPing, LinkEnds, sessVars, workerVars
<1>16. CASE UNCHANGED vars
  BY <1>16 DEF vars
<1> QED
  BY <1>1, <1>2, <1>3, <1>4, <1>5, <1>6, <1>7, <1>8, <1>9, <1>10, <1>11,
     <1>12, <1>13, <1>14, <1>15, <1>16
  DEF Next, SessionThread, WorkerLocal, WorkerRemote, Environment

\* HandoverInv holds in every reachable state, with or without fairness.
THEOREM HandoverInvariance == SilentServerSpec => []HandoverInv
  BY InitHandover, NextHandover, PTL DEF SilentServerSpec

\* No worker thread outlives a failed start or a close that returned.
THEOREM WorkerIsJoined == SilentServerSpec => []NoWorkerLeftBehind
<1>1. HandoverInv => NoWorkerLeftBehind
  BY DEF HandoverInv, NoWorkerLeftBehind
<1> QED BY <1>1, HandoverInvariance, PTL

\* The session only ever holds a transport the server has accepted.
THEOREM ConnectedBeforeOpen == SilentServerSpec => []OpenOnlyIfConnected
<1>1. HandoverInv => OpenOnlyIfConnected
  BY DEF HandoverInv, OpenOnlyIfConnected, SessStates, WorkerStates
<1> QED BY <1>1, HandoverInvariance, PTL

\* A retried close never fails on the transport a second time.
THEOREM RetriedCloseSucceeds == SilentServerSpec => []CloseFailsAtMostOnce
<1>1. HandoverInv => CloseFailsAtMostOnce
  BY DEF HandoverInv, CloseFailsAtMostOnce
<1> QED BY <1>1, HandoverInvariance, PTL

-----------------------------------------------------------------------------
(* Types *)

\* An attempt that failed was within the policy's limit.
AttemptCounted == worker = "sleeping" => MaxAttempts = 0 \/ attempt <= MaxAttempts

TypeInv == TypeOK /\ AttemptCounted

LEMMA FrameTypes ==
  /\ \A n \in 0..MaxPushes : Push(n) \in Frame /\ Push(n).type = "push" /\ Push(n).id = n
  /\ \A type \in {"ping", "close", "error"} : Control(type) \in Frame /\ Control(type).type = type
  BY WorkerConstants DEF WorkerConstants, Push, Control, Frame

LEMMA InitTypes == Init => TypeInv
<1> SUFFICES ASSUME Init PROVE TypeInv
  OBVIOUS
<1>1. inbox \in Seq(Frame) /\ events \in Seq(WorkerEvent) /\ drained \in Seq(WorkerEvent)
  BY DEF Init
<1>2. attempt \in 1..MaxAttempts + 1 /\ pushed \in 0..MaxPushes /\ breaks \in 0..MaxBreaks /\ closeErrs \in Nat
  BY WorkerConstants DEF WorkerConstants, Init
<1> QED BY <1>1, <1>2 DEF Init, TypeInv, TypeOK, AttemptCounted, SessStates, WorkerStates

\* Reading and writing a list keeps its elements' type.
LEMMA SeqSteps ==
  ASSUME NEW S, NEW s \in Seq(S), NEW t \in Seq(S), NEW e \in S
  PROVE  /\ Append(s, e) \in Seq(S) /\ s \o t \in Seq(S)
         /\ s # <<>> => Tail(s) \in Seq(S) /\ Head(s) \in S
  OBVIOUS

LEMMA EventTypes ==
  ASSUME TypeInv, NEW e \in WorkerEvent, SendEvent(e)
  PROVE  events' \in Seq(WorkerEvent)
  <1>1. events \in Seq(WorkerEvent)
    BY DEF TypeInv, TypeOK
  <1> QED BY <1>1, SeqSteps DEF SendEvent

LEMMA NextTypes ==
  ASSUME TypeInv, [Next]_vars
  PROVE  TypeInv'
<1> USE WorkerConstants DEF WorkerConstants, TypeInv, TypeOK, AttemptCounted
<1>1. CASE Start \/ StartReturnsOk \/ StartReturnsErr
  BY <1>1 DEF Start, StartReturnsOk, StartReturnsErr, workerVars, netVars, counts, SessStates, WorkerStates
<1>2. CASE Close \/ CloseAgain
  BY <1>2 DEF Close, CloseAgain, workerVars, netVars, counts, SessStates
<1>3. CASE DropResource
  BY <1>3 DEF DropResource, workerVars, netVars, counts, SessStates
<1>4. CASE JoinReturns
  BY <1>4 DEF JoinReturns, workerVars, netVars, counts, SessStates
<1>5. CASE DrainTransportEvents
  <2>1. drained' \in Seq(WorkerEvent) /\ events' \in Seq(WorkerEvent)
    BY <1>5, SeqSteps DEF DrainTransportEvents
  <2> QED BY <1>5, <2>1 DEF DrainTransportEvents, sessVars, workerVars, netVars, counts
<1>6. CASE BuildRuntime \/ ConnectStream \/ ReadInitialResponse
  BY <1>6 DEF BuildRuntime, ConnectStream, ReadInitialResponse, Exit, sessVars, counts, WorkerStates
<1>7. CASE CheckShutdown \/ PollTimeout \/ ReconnectGivesUp
  BY <1>7 DEF CheckShutdown, PollTimeout, ReconnectGivesUp, Exit, sessVars, netVars, counts, WorkerStates
<1>8. CASE PollFrame
  <2> DEFINE frame == Head(inbox)
  <2>1. inbox' \in Seq(Frame) /\ frame \in Frame
    BY <1>8, SeqSteps DEF PollFrame
  <2>2. events' \in Seq(WorkerEvent)
    <3>1. frame.id \in 0..MaxPushes /\ 0 \in 0..MaxPushes
      BY <2>1 DEF Frame
    <3>2. [type |-> "Push", id |-> frame.id] \in WorkerEvent /\ [type |-> "Disconnected", id |-> 0] \in WorkerEvent
      BY <3>1 DEF WorkerEvent
    <3>3. \/ SendEvent([type |-> "Push", id |-> frame.id])
          \/ SendEvent([type |-> "Disconnected", id |-> 0])
          \/ events' = events
      BY <1>8 DEF PollFrame
    <3> QED BY <3>2, <3>3, EventTypes
  <2>3. /\ worker' \in {"checking", "dialing", "exited"} /\ outcome' \in {outcome, "Err"}
        /\ attempt' \in {attempt, 1} /\ link' \in {link, "down"}
        /\ UNCHANGED <<sess, lastClose, closeErrs, ready, shutdown, pushed, breaks, drained>>
    BY <1>8 DEF PollFrame, Exit, sessVars, counts
  <2> QED BY <2>1, <2>2, <2>3 DEF WorkerStates
<1>9. CASE ReconnectStream \/ ReconnectSleep
  BY <1>9 DEF ReconnectStream, ReconnectSleep, AttemptsExhausted, sessVars, netVars, counts, WorkerStates
<1>10. CASE ReconnectInitialResponse \/ CloseClient
  <2>1. inbox' \in Seq(Frame)
    <3>1. inbox' = <<>> \/ inbox' = inbox
      BY <1>10 DEF ReconnectInitialResponse, CloseClient
    <3>2. <<>> \in Seq(Frame)
      OBVIOUS
    <3> QED BY <3>1, <3>2
  <2>2. /\ worker' \in {"checking", "exited"} /\ outcome' \in {outcome, "Ok", "Err"} /\ link' \in {"up", "down"}
        /\ UNCHANGED <<sess, lastClose, closeErrs, ready, attempt, shutdown, pushed, breaks, events, drained>>
    BY <1>10 DEF ReconnectInitialResponse, CloseClient, Exit, sessVars, counts
  <2> QED BY <2>1, <2>2 DEF WorkerStates
<1>11. CASE ServerPush \/ ServerPing \/ LinkEnds
  <2>1. inbox' \in Seq(Frame)
    <3>1. ASSUME NEW e \in Frame PROVE Append(inbox, e) \in Seq(Frame)
      BY SeqSteps
    <3>2. CASE ServerPush
      <4>1. pushed + 1 \in 0..MaxPushes
        BY <3>2 DEF ServerPush
      <4>2. Push(pushed + 1) \in Frame
        BY <4>1, FrameTypes
      <4> QED BY <3>1, <3>2, <4>2 DEF ServerPush
    <3>3. CASE ServerPing
      <4>1. Control("ping") \in Frame
        BY FrameTypes
      <4> QED BY <3>1, <3>3, <4>1 DEF ServerPing
    <3>4. CASE LinkEnds
      <4>1. Control("close") \in Frame /\ Control("error") \in Frame
        BY FrameTypes
      <4> QED BY <3>1, <3>4, <4>1 DEF LinkEnds
    <3> QED BY <1>11, <3>2, <3>3, <3>4
  <2>2. /\ pushed' \in 0..MaxPushes /\ breaks' \in 0..MaxBreaks /\ link' \in {link, "down"}
        /\ UNCHANGED <<sess, lastClose, closeErrs, worker, outcome, ready, attempt, shutdown, events, drained>>
    BY <1>11 DEF ServerPush, ServerPing, LinkEnds, sessVars, workerVars, counts
  <2> QED BY <2>1, <2>2
<1>12. CASE UNCHANGED vars
  BY <1>12 DEF vars
<1> QED
  BY <1>1, <1>2, <1>3, <1>4, <1>5, <1>6, <1>7, <1>8, <1>9, <1>10, <1>11, <1>12
  DEF Next, SessionThread, WorkerLocal, WorkerRemote, Environment

\* Every variable stays in its domain, and reconnect counts no attempt past the policy's
\* limit and one.
THEOREM WorkerTypes == SilentServerSpec => []TypeOK
<1>1. TypeInv /\ [Next]_vars => TypeInv'
  BY NextTypes
<1>2. TypeInv => TypeOK
  BY DEF TypeInv
<1> QED BY <1>1, <1>2, InitTypes, PTL DEF SilentServerSpec

-----------------------------------------------------------------------------
(* Pushes on their way to the session *)

Seen == drained \o events

\* The frame of push n has not been read yet.
Waiting(n) == \E k \in DOMAIN inbox : inbox[k] = Push(n)

\* The server has written every push up to n, as far as this connection goes.
WrittenUpTo(n) == Waiting(n) \/ (link = "up" /\ n = pushed)

\* Before the first connection nothing has come.
NothingBeforeConnect ==
    worker \in {"none", "spawned", "connecting", "authing"} =>
        inbox = <<>> /\ events = <<>> /\ drained = <<>>

\* Unread pushes are in order, follow whatever the session has seen, and none is missing
\* between one of them and the last one written.
InboxInOrder ==
    /\ \A i, j \in DOMAIN inbox :
          (i < j /\ inbox[i].type = "push" /\ inbox[j].type = "push") => inbox[i].id < inbox[j].id
    /\ \A i \in DOMAIN inbox : inbox[i].type = "push" => inbox[i].id <= pushed
    /\ \A n, m, k \in 0..MaxPushes : n <= m /\ m <= k /\ Waiting(n) /\ WrittenUpTo(k) => Waiting(m)

SeenComesFirst ==
    \A i \in DOMAIN Seen : Seen[i].type = "Push" =>
        /\ Seen[i].id <= pushed
        /\ \A n \in 0..MaxPushes : Waiting(n) => Seen[i].id < n

\* Nothing is missing between the push the session saw last and the unread ones.
NoneLostInBetween ==
    (sess # "dropped" /\ Seen # <<>> /\ Last(Seen).type = "Push") =>
        \A m, k \in 0..MaxPushes : Last(Seen).id < m /\ m <= k /\ WrittenUpTo(k) => Waiting(m)

\* A worker that lost its connection has said so.
LossIsAnnounced ==
    (worker \in {"dialing", "reauthing", "sleeping"} /\ sess # "dropped") =>
        Seen # <<>> /\ Last(Seen).type = "Disconnected"

GapsInv ==
    /\ NothingBeforeConnect
    /\ InboxInOrder
    /\ SeenComesFirst
    /\ NoneLostInBetween
    /\ LossIsAnnounced
    /\ Resource!Gapless(Seen)

\* What a step that moves no push means: the same pushes wait, and no more were written.
Quiet ==
    /\ pushed' = pushed
    /\ \A n \in 0..MaxPushes : Waiting(n)' <=> Waiting(n)
    /\ \A n \in 0..MaxPushes : WrittenUpTo(n)' => WrittenUpTo(n)

\* Waiting, by the frames of the inbox.
LEMMA WaitingIs ==
  ASSUME TypeInv, NEW i \in DOMAIN inbox, inbox[i].type = "push"
  PROVE  inbox[i].id \in 0..MaxPushes /\ Waiting(inbox[i].id)
  <1>1. inbox[i] \in Frame
    BY DEF TypeInv, TypeOK
  <1>2. inbox[i] = [type |-> inbox[i].type, id |-> inbox[i].id] /\ inbox[i].id \in 0..MaxPushes
    BY <1>1 DEF Frame
  <1>3. inbox[i] = Push(inbox[i].id)
    BY <1>2 DEF Push
  <1> QED BY <1>2, <1>3 DEF Waiting

\* The inbox is untouched and the connection no better than before.
LEMMA UntouchedInbox ==
  ASSUME InboxInOrder, inbox' = inbox, pushed' = pushed, link' \in {link, "down"}
  PROVE  InboxInOrder' /\ Quiet
  <1>1. \A n \in 0..MaxPushes : Waiting(n)' <=> Waiting(n)
    BY DEF Waiting
  <1>2. \A n \in 0..MaxPushes : WrittenUpTo(n)' => WrittenUpTo(n)
    BY <1>1 DEF WrittenUpTo
  <1> HIDE DEF Waiting, WrittenUpTo
  <1>3. InboxInOrder'
    BY <1>1, <1>2 DEF InboxInOrder
  <1> QED BY <1>1, <1>2, <1>3 DEF Quiet

LEMMA TailOf ==
  ASSUME NEW S, NEW s \in Seq(S), s # <<>>
  PROVE  /\ DOMAIN Tail(s) = 1..(Len(s) - 1) /\ DOMAIN s = 1..Len(s) /\ Len(s) \in Nat \ {0}
         /\ \A k \in 1..(Len(s) - 1) : Tail(s)[k] = s[k + 1]
         /\ Head(s) = s[1]
  OBVIOUS

LEMMA AppendOf ==
  ASSUME NEW S, NEW s \in Seq(S), NEW e \in S
  PROVE  /\ DOMAIN Append(s, e) = 1..(Len(s) + 1) /\ DOMAIN s = 1..Len(s) /\ Len(s) \in Nat
         /\ \A k \in 1..Len(s) : Append(s, e)[k] = s[k]
         /\ Append(s, e)[Len(s) + 1] = e /\ Append(s, e) # <<>> /\ Last(Append(s, e)) = e
         /\ Len(Append(s, e)) = Len(s) + 1
  BY DEF Last

\* The first frame is read.
LEMMA HeadRead ==
  ASSUME TypeInv, InboxInOrder, inbox # <<>>, inbox' = Tail(inbox), pushed' = pushed, link' \in {link, "down"}
  PROVE  /\ InboxInOrder'
         /\ Head(inbox).type # "push" => Quiet
         /\ \A n \in 0..MaxPushes : Waiting(n) => Waiting(n)' \/ Head(inbox) = Push(n)
         /\ \A n \in 0..MaxPushes : Waiting(n)' => Waiting(n)
         /\ \A n \in 0..MaxPushes : WrittenUpTo(n)' => WrittenUpTo(n)
  <1> DEFINE l == Len(inbox)
  <1>1. /\ DOMAIN inbox' = 1..(l - 1) /\ DOMAIN inbox = 1..l /\ l \in Nat \ {0}
        /\ \A k \in 1..(l - 1) : inbox'[k] = inbox[k + 1]
        /\ Head(inbox) = inbox[1]
    BY TailOf DEF TypeInv, TypeOK
  <1> HIDE DEF l
  <1>2. ASSUME NEW n \in 0..MaxPushes, Waiting(n)' PROVE Waiting(n)
    <2>1. PICK k \in DOMAIN inbox' : inbox'[k] = Push(n)
      BY <1>2 DEF Waiting
    <2>2. k + 1 \in DOMAIN inbox /\ inbox[k + 1] = Push(n)
      BY <1>1, <2>1
    <2> QED BY <2>2 DEF Waiting
  <1>3. ASSUME NEW n \in 0..MaxPushes, Waiting(n) PROVE Waiting(n)' \/ Head(inbox) = Push(n)
    <2>1. PICK k \in DOMAIN inbox : inbox[k] = Push(n)
      BY <1>3 DEF Waiting
    <2>2. CASE k = 1
      BY <1>1, <2>1, <2>2
    <2>3. CASE k # 1
      <3>1. k - 1 \in DOMAIN inbox' /\ inbox'[k - 1] = inbox[(k - 1) + 1] /\ (k - 1) + 1 = k
        BY <1>1, <2>3
      <3>2. inbox'[k - 1] = Push(n)
        BY <2>1, <3>1
      <3> QED BY <3>1, <3>2 DEF Waiting
    <2> QED BY <2>2, <2>3
  <1>4. \A n \in 0..MaxPushes : WrittenUpTo(n)' => WrittenUpTo(n)
    BY <1>2 DEF WrittenUpTo
  <1>5. \A n \in 0..MaxPushes : Push(n).type = "push" /\ Push(n).id = n
    BY FrameTypes
  <1>6. Head(inbox).type # "push" => Quiet
    BY <1>2, <1>3, <1>4, <1>5 DEF Quiet
  <1>7. ASSUME NEW i \in DOMAIN inbox', NEW j \in DOMAIN inbox', i < j, inbox'[i].type = "push", inbox'[j].type = "push"
        PROVE  inbox'[i].id < inbox'[j].id
    <2>1. i + 1 \in DOMAIN inbox /\ j + 1 \in DOMAIN inbox /\ i + 1 < j + 1
          /\ inbox'[i] = inbox[i + 1] /\ inbox'[j] = inbox[j + 1]
      BY <1>1, <1>7
    <2> QED BY <1>7, <2>1 DEF InboxInOrder
  <1>8. ASSUME NEW i \in DOMAIN inbox', inbox'[i].type = "push" PROVE inbox'[i].id <= pushed'
    <2>1. i + 1 \in DOMAIN inbox /\ inbox'[i] = inbox[i + 1]
      BY <1>1
    <2> QED BY <1>8, <2>1 DEF InboxInOrder
  <1>9. ASSUME NEW n \in 0..MaxPushes, NEW m \in 0..MaxPushes, NEW k \in 0..MaxPushes,
               n <= m, m <= k, Waiting(n)', WrittenUpTo(k)'
        PROVE  Waiting(m)'
    <2>1. Waiting(m)
      BY <1>2, <1>4, <1>9 DEF InboxInOrder
    <2>2. ASSUME Head(inbox) = Push(m) PROVE m = n
      <3>1. PICK i \in DOMAIN inbox' : inbox'[i] = Push(n)
        BY <1>9 DEF Waiting
      <3>2. 1 \in DOMAIN inbox /\ i + 1 \in DOMAIN inbox /\ 1 < i + 1 /\ inbox[i + 1] = Push(n) /\ inbox[1] = Push(m)
        BY <1>1, <2>2, <3>1
      <3>3. m < n
        BY <1>5, <3>2 DEF InboxInOrder
      <3> QED BY <1>9, <3>3
    <2> QED BY <1>3, <1>9, <2>1, <2>2
  <1>10. InboxInOrder'
    BY <1>7, <1>8, <1>9 DEF InboxInOrder
  <1> QED BY <1>2, <1>3, <1>4, <1>6, <1>10

\* A frame that is no push is written.
LEMMA ControlWritten ==
  ASSUME TypeInv, InboxInOrder, NEW type \in {"ping", "close", "error"},
         inbox' = Append(inbox, Control(type)), pushed' = pushed, link' \in {link, "down"}
  PROVE  InboxInOrder' /\ Quiet
  <1> DEFINE l == Len(inbox)
             e == Control(type)
  <1>0. e \in Frame /\ e.type # "push"
    BY FrameTypes
  <1> HIDE DEF e
  <1>1. /\ DOMAIN inbox' = 1..(l + 1) /\ DOMAIN inbox = 1..l /\ l \in Nat
        /\ \A k \in 1..l : inbox'[k] = inbox[k]
        /\ inbox'[l + 1] = e
    BY <1>0, AppendOf DEF TypeInv, TypeOK, e
  <1> HIDE DEF l
  <1>2. \A i \in DOMAIN inbox' : inbox'[i].type = "push" => i \in DOMAIN inbox /\ inbox'[i] = inbox[i]
    BY <1>0, <1>1
  <1>3. \A i \in DOMAIN inbox : i \in DOMAIN inbox' /\ inbox'[i] = inbox[i]
    BY <1>1
  <1>4. ASSUME NEW n \in 0..MaxPushes PROVE Waiting(n)' <=> Waiting(n)
    <2>1. Push(n).type = "push"
      BY FrameTypes
    <2>2. ASSUME NEW i \in DOMAIN inbox', inbox'[i] = Push(n) PROVE i \in DOMAIN inbox /\ inbox[i] = Push(n)
      BY <1>2, <2>1, <2>2
    <2> QED BY <1>3, <2>2 DEF Waiting
  <1>5. \A n \in 0..MaxPushes : WrittenUpTo(n)' => WrittenUpTo(n)
    BY <1>4 DEF WrittenUpTo
  <1>6. InboxInOrder'
    <2>1. \A i, j \in DOMAIN inbox' :
             (i < j /\ inbox'[i].type = "push" /\ inbox'[j].type = "push") => inbox'[i].id < inbox'[j].id
      BY <1>2 DEF InboxInOrder
    <2>2. \A i \in DOMAIN inbox' : inbox'[i].type = "push" => inbox'[i].id <= pushed'
      BY <1>2 DEF InboxInOrder
    <2>3. \A n, m, k \in 0..MaxPushes : n <= m /\ m <= k /\ Waiting(n)' /\ WrittenUpTo(k)' => Waiting(m)'
      BY <1>4, <1>5 DEF InboxInOrder
    <2> QED BY <2>1, <2>2, <2>3 DEF InboxInOrder
  <1> QED BY <1>4, <1>5, <1>6 DEF Quiet

\* The next push is written.
LEMMA PushWritten ==
  ASSUME TypeInv, InboxInOrder, pushed < MaxPushes, link = "up", link' = "up",
         inbox' = Append(inbox, Push(pushed + 1)), pushed' = pushed + 1
  PROVE  /\ InboxInOrder'
         /\ \A n \in 0..MaxPushes : Waiting(n)' <=> Waiting(n) \/ n = pushed + 1
         /\ \A n \in 0..MaxPushes : WrittenUpTo(n)' => WrittenUpTo(n) \/ n = pushed + 1
  <1> DEFINE l == Len(inbox)
             e == Push(pushed + 1)
  <1>a. pushed \in 0..MaxPushes /\ pushed + 1 \in 0..MaxPushes /\ pushed \in Nat
    BY WorkerConstants DEF WorkerConstants, TypeInv, TypeOK
  <1>0. e \in Frame /\ e.type = "push" /\ e.id = pushed + 1
    BY <1>a, FrameTypes
  <1> HIDE DEF e
  <1>1. /\ DOMAIN inbox' = 1..(l + 1) /\ DOMAIN inbox = 1..l /\ l \in Nat
        /\ \A k \in 1..l : inbox'[k] = inbox[k]
        /\ inbox'[l + 1] = e
    BY <1>0, AppendOf DEF TypeInv, TypeOK, e
  <1> HIDE DEF l
  <1>2. ASSUME NEW n \in 0..MaxPushes PROVE Waiting(n)' <=> Waiting(n) \/ n = pushed + 1
    <2>1. Push(n).id = n
      BY FrameTypes
    <2>2. ASSUME Waiting(n)' PROVE Waiting(n) \/ n = pushed + 1
      <3>1. PICK i \in DOMAIN inbox' : inbox'[i] = Push(n)
        BY <2>2 DEF Waiting
      <3>2. CASE i = l + 1
        BY <1>0, <1>1, <2>1, <3>1, <3>2
      <3>3. CASE i # l + 1
        <4>1. i \in DOMAIN inbox /\ inbox[i] = Push(n)
          BY <1>1, <3>1, <3>3
        <4> QED BY <4>1 DEF Waiting
      <3> QED BY <3>2, <3>3
    <2>3. ASSUME Waiting(n) PROVE Waiting(n)'
      <3>1. PICK i \in DOMAIN inbox : inbox[i] = Push(n)
        BY <2>3 DEF Waiting
      <3>2. i \in DOMAIN inbox' /\ inbox'[i] = Push(n)
        BY <1>1, <3>1
      <3> QED BY <3>2 DEF Waiting
    <2>4. ASSUME n = pushed + 1 PROVE Waiting(n)'
      <3>1. l + 1 \in DOMAIN inbox' /\ inbox'[l + 1] = Push(n)
        BY <1>1, <2>4 DEF e
      <3> QED BY <3>1 DEF Waiting
    <2> QED BY <2>2, <2>3, <2>4
  <1>3. \A n \in 0..MaxPushes : WrittenUpTo(n)' => WrittenUpTo(n) \/ n = pushed + 1
    BY <1>2 DEF WrittenUpTo
  <1>4. \A i \in DOMAIN inbox : inbox[i].type = "push" => inbox[i].id <= pushed /\ inbox[i].id \in Nat
    BY WaitingIs DEF InboxInOrder
  <1>5. ASSUME NEW i \in DOMAIN inbox', NEW j \in DOMAIN inbox', i < j, inbox'[i].type = "push", inbox'[j].type = "push"
        PROVE  inbox'[i].id < inbox'[j].id
    <2>1. i \in DOMAIN inbox /\ inbox'[i] = inbox[i]
      BY <1>1, <1>5
    <2>2. CASE j = l + 1
      BY <1>a, <1>0, <1>1, <1>4, <1>5, <2>1, <2>2
    <2>3. CASE j # l + 1
      <3>1. j \in DOMAIN inbox /\ inbox'[j] = inbox[j]
        BY <1>1, <2>3
      <3> QED BY <1>5, <2>1, <3>1 DEF InboxInOrder
    <2> QED BY <2>2, <2>3
  <1>6. ASSUME NEW i \in DOMAIN inbox', inbox'[i].type = "push" PROVE inbox'[i].id <= pushed'
    <2>1. CASE i = l + 1
      BY <1>a, <1>0, <1>1, <2>1
    <2>2. CASE i # l + 1
      <3>1. i \in DOMAIN inbox /\ inbox'[i] = inbox[i]
        BY <1>1, <2>2
      <3> QED BY <1>a, <1>4, <1>6, <3>1
    <2> QED BY <2>1, <2>2
  <1>7. ASSUME NEW n \in 0..MaxPushes, NEW m \in 0..MaxPushes, NEW k \in 0..MaxPushes,
               n <= m, m <= k, Waiting(n)', WrittenUpTo(k)'
        PROVE  Waiting(m)'
    <2>1. \A x \in 0..MaxPushes : Waiting(x) => x <= pushed
      <3> SUFFICES ASSUME NEW x \in 0..MaxPushes, Waiting(x) PROVE x <= pushed
        OBVIOUS
      <3>1. PICK i \in DOMAIN inbox : inbox[i] = Push(x)
        BY DEF Waiting
      <3>2. inbox[i].type = "push" /\ inbox[i].id = x
        BY <3>1, FrameTypes
      <3> QED BY <1>4, <3>1, <3>2
    <2>2. WrittenUpTo(pushed)
      BY DEF WrittenUpTo
    <2>3. k <= pushed + 1
      BY <1>3, <1>7, <1>a, <2>1 DEF WrittenUpTo
    <2>4. CASE m = pushed + 1
      BY <1>2, <2>4
    <2>5. CASE m # pushed + 1
      <3>1. n <= m /\ m <= pushed
        BY <1>7, <1>a, <2>3, <2>5
      <3>2. n # pushed + 1
        BY <1>a, <3>1
      <3>3. Waiting(n)
        BY <1>2, <1>7, <3>2
      <3>4. Waiting(m)
        BY <1>a, <2>2, <3>1, <3>3 DEF InboxInOrder
      <3> QED BY <1>2, <3>4
    <2> QED BY <2>4, <2>5
  <1>8. InboxInOrder'
    BY <1>5, <1>6, <1>7 DEF InboxInOrder
  <1> QED BY <1>2, <1>3, <1>8

LEMMA SeenSteps ==
  ASSUME TypeInv
  PROVE  /\ Seen \in Seq(WorkerEvent)
         /\ events' = events /\ drained' = drained => Seen' = Seen
         /\ events' = <<>> /\ drained' = drained \o events => Seen' = Seen
         /\ \A e \in WorkerEvent : events' = Append(events, e) /\ drained' = drained => Seen' = Append(Seen, e)
         /\ events' = <<>> /\ drained' = drained => Seen' = drained
  <1>1. events \in Seq(WorkerEvent) /\ drained \in Seq(WorkerEvent)
    BY DEF TypeInv, TypeOK
  <1>2. drained \o events \in Seq(WorkerEvent)
    BY <1>1, SeqSteps
  <1>3. events' = <<>> /\ drained' = drained \o events => Seen' = Seen
    BY <1>2 DEF Seen
  <1>4. \A e \in WorkerEvent : drained \o Append(events, e) = Append(drained \o events, e)
    BY <1>1
  <1>5. events' = <<>> /\ drained' = drained => Seen' = drained
    BY <1>1 DEF Seen
  <1> QED BY <1>2, <1>3, <1>4, <1>5 DEF Seen

\* One event more: it follows the last one.
LEMMA GaplessAppend ==
  ASSUME NEW s \in Seq(WorkerEvent), Resource!Gapless(s), NEW e \in WorkerEvent,
         e.type = "Push" => \A i \in DOMAIN s : s[i].type = "Push" => s[i].id < e.id,
         (e.type = "Push" /\ s # <<>> /\ Last(s).type = "Push") => e.id = Last(s).id + 1
  PROVE  Resource!Gapless(Append(s, e))
  <1> DEFINE t == Append(s, e)
             l == Len(s)
  <1>1. /\ DOMAIN t = 1..(l + 1) /\ DOMAIN s = 1..l /\ l \in Nat
        /\ \A k \in 1..l : t[k] = s[k]
        /\ t[l + 1] = e
    BY AppendOf
  <1>2. \A k \in 1..l : s[k].id \in Int
    <2>1. \A k \in 1..l : s[k] \in WorkerEvent
      OBVIOUS
    <2>2. \A x \in WorkerEvent : x.id \in Int
      BY WorkerConstants DEF WorkerConstants, WorkerEvent
    <2> QED BY <2>1, <2>2
  <1>3. l > 0 => s # <<>> /\ Last(s) = s[l]
    BY DEF Last
  <1> HIDE DEF t, l
  <1>4. ASSUME NEW i \in DOMAIN t, NEW j \in DOMAIN t, i < j, \A k \in i..j : t[k].type = "Push"
        PROVE  t[j].id = t[i].id + (j - i)
    <2>1. i \in DOMAIN s /\ t[i] = s[i]
      BY <1>1, <1>4
    <2>2. CASE j # l + 1
      <3>1. j \in DOMAIN s /\ t[j] = s[j] /\ \A k \in i..j : k \in 1..l /\ t[k] = s[k]
        BY <1>1, <1>4, <2>2
      <3>2. \A k \in i..j : s[k].type = "Push"
        BY <1>4, <3>1
      <3> QED BY <1>4, <2>1, <3>1, <3>2 DEF Resource!Gapless
    <2>3. CASE j = l + 1
      <3>1. l \in i..j /\ j \in i..j /\ l \in 1..l /\ l > 0
        BY <1>1, <1>4, <2>3
      <3>2. t[l] = s[l] /\ t[l].type = "Push" /\ e.type = "Push"
        BY <1>1, <1>4, <2>3, <3>1
      <3>3. e.id = s[l].id + 1
        BY <1>3, <3>1, <3>2
      <3>4. CASE i = l
        BY <1>1, <1>2, <2>1, <2>3, <3>1, <3>3, <3>4
      <3>5. CASE i # l
        <4>1. i < l /\ l \in DOMAIN s
          BY <1>1, <1>4, <2>3, <3>1, <3>5
        <4>2. \A k \in i..l : k \in i..j /\ k \in 1..l
          BY <1>1, <2>1, <2>3
        <4>3. \A k \in i..l : s[k].type = "Push"
          BY <1>1, <1>4, <4>2
        <4>4. s[l].id = s[i].id + (l - i)
          BY <2>1, <4>1, <4>3 DEF Resource!Gapless
        <4> QED BY <1>1, <1>2, <2>1, <2>3, <3>1, <3>3, <4>4
      <3> QED BY <3>4, <3>5
    <2> QED BY <2>2, <2>3
  <1>5. ASSUME NEW i \in DOMAIN t, NEW j \in DOMAIN t, i < j, t[i].type = "Push", t[j].type = "Push"
        PROVE  t[i].id < t[j].id
    <2>1. i \in DOMAIN s /\ t[i] = s[i]
      BY <1>1, <1>5
    <2>2. CASE j = l + 1
      BY <1>1, <1>5, <2>1, <2>2
    <2>3. CASE j # l + 1
      <3>1. j \in DOMAIN s /\ t[j] = s[j]
        BY <1>1, <2>3
      <3> QED BY <1>5, <2>1, <3>1 DEF Resource!Gapless
    <2> QED BY <2>2, <2>3
  <1>6. Resource!Gapless(t)
    BY <1>4, <1>5 DEF Resource!Gapless
  <1> QED BY <1>6 DEF t

\* The events of a dropped session go, those it has drained stay.
LEMMA GaplessPrefix ==
  ASSUME NEW a \in Seq(WorkerEvent), NEW b \in Seq(WorkerEvent), Resource!Gapless(a \o b)
  PROVE  Resource!Gapless(a) /\ \A i \in DOMAIN a : i \in DOMAIN (a \o b) /\ (a \o b)[i] = a[i]
  <1> DEFINE s == a \o b
  <1>1. \A i \in DOMAIN a : i \in DOMAIN s /\ s[i] = a[i]
    OBVIOUS
  <1>2. DOMAIN a = 1..Len(a) /\ Len(a) \in Nat
    OBVIOUS
  <1> HIDE DEF s
  <1>3. Resource!Gapless(s)
    BY DEF s
  <1>4. ASSUME NEW i \in DOMAIN a, NEW j \in DOMAIN a, i < j, \A k \in i..j : a[k].type = "Push"
        PROVE  a[j].id = a[i].id + (j - i)
    <2>1. \A k \in i..j : k \in DOMAIN a
      BY <1>2
    <2>2. \A k \in i..j : s[k].type = "Push"
      BY <1>1, <1>4, <2>1
    <2>3. s[j].id = s[i].id + (j - i)
      BY <1>1, <1>3, <1>4, <2>2 DEF Resource!Gapless
    <2> QED BY <1>1, <2>3
  <1>5. \A i, j \in DOMAIN a : (i < j /\ a[i].type = "Push" /\ a[j].type = "Push") => a[i].id < a[j].id
    BY <1>1, <1>3 DEF Resource!Gapless
  <1>6. Resource!Gapless(a)
    BY <1>4, <1>5 DEF Resource!Gapless
  <1> QED BY <1>1, <1>6 DEF s

-----------------------------------------------------------------------------
(* Steps that lose or bring nothing *)

\* What the session has seen is untouched, or is what it has drained once it is dropped.
LEMMA SameSeen ==
  ASSUME TypeInv, GapsInv, Quiet,
         \/ Seen' = Seen /\ (sess' # "dropped" => sess # "dropped")
         \/ Seen' = drained /\ sess' = "dropped"
  PROVE  SeenComesFirst' /\ NoneLostInBetween' /\ Resource!Gapless(Seen)'
  <1>1. CASE Seen' = Seen /\ (sess' # "dropped" => sess # "dropped")
    <2>1. SeenComesFirst'
      BY <1>1 DEF Quiet, SeenComesFirst, GapsInv
    <2>2. NoneLostInBetween'
      BY <1>1 DEF Quiet, NoneLostInBetween, GapsInv
    <2>3. Resource!Gapless(Seen)'
      BY <1>1 DEF GapsInv, Resource!Gapless
    <2> QED BY <2>1, <2>2, <2>3
  <1>2. CASE Seen' = drained /\ sess' = "dropped"
    <2>1. events \in Seq(WorkerEvent) /\ drained \in Seq(WorkerEvent)
      BY DEF TypeInv, TypeOK
    <2>2. Resource!Gapless(drained) /\ \A i \in DOMAIN drained : i \in DOMAIN Seen /\ Seen[i] = drained[i]
      BY <2>1, GaplessPrefix DEF GapsInv, Seen
    <2>3. SeenComesFirst'
      BY <1>2, <2>2 DEF Quiet, SeenComesFirst, GapsInv
    <2>4. NoneLostInBetween'
      BY <1>2 DEF NoneLostInBetween
    <2>5. Resource!Gapless(Seen)'
      BY <1>2, <2>2 DEF Resource!Gapless
    <2> QED BY <2>3, <2>4, <2>5
  <1> QED BY <1>1, <1>2

\* A step that reads, writes and shows nothing.
LEMMA StillStep ==
  ASSUME TypeInv, GapsInv, UNCHANGED <<inbox, pushed, events, drained>>, link' \in {link, "down"},
         sess' # "dropped" => sess # "dropped",
         worker' \in {"none", "spawned", "connecting", "authing"} =>
            worker \in {"none", "spawned", "connecting", "authing"},
         worker' \in {"dialing", "reauthing", "sleeping"} => worker \in {"dialing", "reauthing", "sleeping"}
  PROVE  GapsInv'
  <1>1. InboxInOrder' /\ Quiet
    BY UntouchedInbox DEF GapsInv
  <1>2. Seen' = Seen
    BY SeenSteps
  <1>3. SeenComesFirst' /\ NoneLostInBetween' /\ Resource!Gapless(Seen)'
    BY <1>1, <1>2, SameSeen
  <1>4. NothingBeforeConnect'
    BY DEF GapsInv, NothingBeforeConnect
  <1>5. LossIsAnnounced'
    BY <1>2 DEF GapsInv, LossIsAnnounced
  <1> QED BY <1>1, <1>3, <1>4, <1>5 DEF GapsInv

-----------------------------------------------------------------------------
(* Steps that show the session something *)

\* A lost connection is announced.
LEMMA LossShown ==
  ASSUME TypeInv, GapsInv, worker = "polling", Quiet, InboxInOrder', sess' = sess, drained' = drained,
         worker' = "dialing", SendEvent([type |-> "Disconnected", id |-> 0])
  PROVE  GapsInv'
  <1> DEFINE e == [type |-> "Disconnected", id |-> 0]
  <1>1. e \in WorkerEvent /\ e.type # "Push" /\ e.type = "Disconnected"
    BY WorkerConstants DEF WorkerConstants, WorkerEvent
  <1>2. NothingBeforeConnect'
    BY DEF NothingBeforeConnect
  <1>3. CASE sess = "dropped"
    <2>1. Seen' = Seen
      BY <1>3, SeenSteps DEF SendEvent
    <2>2. SeenComesFirst' /\ NoneLostInBetween' /\ Resource!Gapless(Seen)'
      BY <2>1, <1>3, SameSeen
    <2>3. LossIsAnnounced'
      BY <1>3 DEF LossIsAnnounced
    <2> QED BY <1>2, <2>2, <2>3 DEF GapsInv
  <1>4. CASE sess # "dropped"
    <2> HIDE DEF e
    <2>1. Seen \in Seq(WorkerEvent) /\ Seen' = Append(Seen, e)
      BY <1>1, <1>4, SeenSteps DEF SendEvent, e
    <2> DEFINE l == Len(Seen)
    <2>2. /\ DOMAIN Seen' = 1..(l + 1) /\ DOMAIN Seen = 1..l /\ l \in Nat
          /\ \A k \in 1..l : Seen'[k] = Seen[k]
          /\ Seen'[l + 1] = e /\ Seen' # <<>> /\ Last(Seen') = e
      BY <1>1, <2>1, AppendOf
    <2> HIDE DEF l
    <2>3. SeenComesFirst'
      <3>1. \A i \in DOMAIN Seen' : Seen'[i].type = "Push" => i \in DOMAIN Seen /\ Seen'[i] = Seen[i]
        BY <1>1, <2>2
      <3> QED BY <3>1 DEF GapsInv, SeenComesFirst, Quiet
    <2>4. Resource!Gapless(Seen)'
      <3>1. Resource!Gapless(Append(Seen, e))
        BY <1>1, <2>1, GaplessAppend DEF GapsInv
      <3> QED BY <2>1, <3>1 DEF Resource!Gapless
    <2>5. LossIsAnnounced' /\ NoneLostInBetween'
      BY <1>1, <2>2 DEF LossIsAnnounced, NoneLostInBetween
    <2> QED BY <1>2, <2>3, <2>4, <2>5 DEF GapsInv
  <1> QED BY <1>3, <1>4

\* The first unread frame is a push, and the session sees it: no push was lost before it.
LEMMA PushShown ==
  ASSUME TypeInv, GapsInv, worker = "polling", inbox # <<>>, inbox' = Tail(inbox), Head(inbox).type = "push",
         SendEvent([type |-> "Push", id |-> Head(inbox).id]), worker' = "checking",
         UNCHANGED <<sess, link, pushed, drained>>
  PROVE  GapsInv'
  <1> DEFINE h == Head(inbox).id
             e == [type |-> "Push", id |-> h]
  <1>1. /\ InboxInOrder'
        /\ \A n \in 0..MaxPushes : Waiting(n) => Waiting(n)' \/ Head(inbox) = Push(n)
        /\ \A n \in 0..MaxPushes : Waiting(n)' => Waiting(n)
        /\ \A n \in 0..MaxPushes : WrittenUpTo(n)' => WrittenUpTo(n)
    BY HeadRead DEF GapsInv
  <1> DEFINE l == Len(inbox)
  <1>2. /\ DOMAIN inbox' = 1..(l - 1) /\ DOMAIN inbox = 1..l /\ l \in Nat \ {0}
        /\ \A k \in 1..(l - 1) : inbox'[k] = inbox[k + 1]
        /\ Head(inbox) = inbox[1]
    BY TailOf DEF TypeInv, TypeOK
  <1>3. 1 \in DOMAIN inbox /\ h \in 0..MaxPushes /\ Waiting(h) /\ h <= pushed
    <2>1. 1 \in DOMAIN inbox /\ inbox[1].type = "push"
      BY <1>2
    <2> QED BY <1>2, <2>1, WaitingIs DEF GapsInv, InboxInOrder
  <1>4. \A n \in 0..MaxPushes : Head(inbox) = Push(n) => n = h
    BY FrameTypes
  <1>5. ASSUME NEW n \in 0..MaxPushes, Waiting(n)' PROVE h < n
    <2>1. PICK k \in DOMAIN inbox' : inbox'[k] = Push(n)
      BY <1>5 DEF Waiting
    <2>2. k + 1 \in DOMAIN inbox /\ 1 < k + 1 /\ inbox[k + 1] = Push(n)
      BY <1>2, <2>1
    <2>3. Push(n).type = "push" /\ Push(n).id = n
      BY FrameTypes
    <2> QED BY <1>2, <1>3, <2>2, <2>3 DEF GapsInv, InboxInOrder
  <1>6. e \in WorkerEvent /\ e.type = "Push" /\ e.id = h
    BY <1>3 DEF WorkerEvent
  <1>7. NothingBeforeConnect' /\ LossIsAnnounced'
    BY DEF NothingBeforeConnect, LossIsAnnounced
  <1> HIDE DEF l
  <1>8. CASE sess = "dropped"
    <2>1. Seen' = Seen /\ sess' = "dropped" /\ pushed' = pushed
      BY <1>8, SeenSteps DEF SendEvent
    <2>2. SeenComesFirst'
      BY <1>1, <2>1 DEF GapsInv, SeenComesFirst
    <2>3. NoneLostInBetween' /\ Resource!Gapless(Seen)'
      BY <2>1 DEF GapsInv, NoneLostInBetween, Resource!Gapless
    <2> QED BY <1>1, <1>7, <2>2, <2>3 DEF GapsInv
  <1>9. CASE sess # "dropped"
    <2> HIDE DEF e
    <2>1. Seen \in Seq(WorkerEvent) /\ Seen' = Append(Seen, e)
      BY <1>6, <1>9, SeenSteps DEF SendEvent, e
    <2> DEFINE m == Len(Seen)
    <2>2. /\ DOMAIN Seen' = 1..(m + 1) /\ DOMAIN Seen = 1..m /\ m \in Nat
          /\ \A k \in 1..m : Seen'[k] = Seen[k]
          /\ Seen'[m + 1] = e /\ Seen' # <<>> /\ Last(Seen') = e
      BY <1>6, <2>1, AppendOf
    <2> HIDE DEF m, h
    <2>3. SeenComesFirst'
      <3> SUFFICES ASSUME NEW i \in DOMAIN Seen', Seen'[i].type = "Push"
                   PROVE  Seen'[i].id <= pushed /\ \A n \in 0..MaxPushes : Waiting(n)' => Seen'[i].id < n
        BY DEF SeenComesFirst
      <3>1. CASE i = m + 1
        BY <1>3, <1>5, <1>6, <2>2, <3>1
      <3>2. CASE i # m + 1
        <4>1. i \in DOMAIN Seen /\ Seen'[i] = Seen[i]
          BY <2>2, <3>2
        <4> QED BY <1>1, <4>1 DEF GapsInv, SeenComesFirst
      <3> QED BY <3>1, <3>2
    <2>4. NoneLostInBetween'
      <3> SUFFICES ASSUME NEW x \in 0..MaxPushes, NEW k \in 0..MaxPushes, h < x, x <= k, WrittenUpTo(k)'
                   PROVE  Waiting(x)'
        BY <1>6, <2>2 DEF NoneLostInBetween
      <3>1. h <= x /\ x # h
        BY <1>3
      <3>2. Waiting(x)
        BY <1>1, <1>3, <3>1 DEF GapsInv, InboxInOrder
      <3> QED BY <1>1, <1>4, <3>1, <3>2
    <2>5. Resource!Gapless(Seen)'
      <3>1. \A i \in DOMAIN Seen : Seen[i].type = "Push" => Seen[i].id < h
        BY <1>3 DEF GapsInv, SeenComesFirst
      <3>2. ASSUME Seen # <<>>, Last(Seen).type = "Push" PROVE h = Last(Seen).id + 1
        <4>1. m \in DOMAIN Seen /\ Last(Seen) = Seen[m]
          BY <2>1, <2>2, <3>2 DEF Last, m
        <4>2. PICK x \in 0..MaxPushes : x = Last(Seen).id /\ x < h
          <5>1. Seen[m] \in WorkerEvent
            BY <2>1, <4>1
          <5> QED BY <3>1, <3>2, <4>1, <5>1 DEF WorkerEvent
        <4>3. x + 1 \in 0..MaxPushes /\ x < x + 1 /\ x + 1 <= h
          <5>1. MaxPushes \in Nat
            BY WorkerConstants DEF WorkerConstants
          <5> QED BY <1>3, <4>2, <5>1
        <4>4. Waiting(x + 1)
          <5>1. WrittenUpTo(h)
            BY <1>3 DEF WrittenUpTo
          <5> QED BY <1>3, <1>9, <3>2, <4>2, <4>3, <5>1 DEF GapsInv, NoneLostInBetween
        <4>5. Waiting(x + 1)' \/ h = x + 1
          BY <1>1, <1>4, <4>3, <4>4
        <4>6. ~Waiting(x + 1)'
          <5>1. ~(h < x + 1)
            BY <1>3, <4>2, <4>3
          <5> QED BY <1>5, <4>3, <5>1
        <4> QED BY <4>2, <4>5, <4>6
      <3>3. Resource!Gapless(Append(Seen, e))
        <4>1. Resource!Gapless(Seen)
          BY DEF GapsInv
        <4> QED BY <1>6, <2>1, <3>1, <3>2, <4>1, GaplessAppend
      <3> QED BY <2>1, <3>3 DEF Resource!Gapless
    <2> QED BY <1>1, <1>7, <2>3, <2>4, <2>5 DEF GapsInv
  <1> QED BY <1>8, <1>9

LEMMA PollFrameKeepsGaps ==
  ASSUME TypeInv, GapsInv, PollFrame
  PROVE  GapsInv'
  <1>1. /\ worker = "polling" /\ inbox # <<>> /\ inbox' = Tail(inbox)
        /\ UNCHANGED <<sess, pushed, drained>>
    BY DEF PollFrame, sessVars, counts
  <1>2. CASE Head(inbox).type = "push"
    <2>1. SendEvent([type |-> "Push", id |-> Head(inbox).id]) /\ worker' = "checking" /\ link' = link
      BY <1>2 DEF PollFrame
    <2> QED BY <1>1, <1>2, <2>1, PushShown
  <1>3. CASE Head(inbox).type # "push"
    <2>1. link' \in {link, "down"}
      BY DEF PollFrame, Exit
    <2>2. InboxInOrder' /\ Quiet
      BY <1>1, <1>3, <2>1, HeadRead DEF GapsInv
    <2>3. CASE Head(inbox).type = "close"
      <3>1. SendEvent([type |-> "Disconnected", id |-> 0]) /\ worker' = "dialing"
        BY <2>3 DEF PollFrame
      <3> QED BY <1>1, <2>2, <3>1, LossShown
    <2>4. CASE Head(inbox).type # "close"
      <3>1. events' = events /\ worker' \in {"checking", "exited"}
        BY <1>3, <2>4 DEF PollFrame, Exit
      <3>2. Seen' = Seen
        BY <1>1, <3>1, SeenSteps
      <3>3. SeenComesFirst' /\ NoneLostInBetween' /\ Resource!Gapless(Seen)'
        BY <1>1, <2>2, <3>2, SameSeen
      <3>4. NothingBeforeConnect' /\ LossIsAnnounced'
        BY <3>1 DEF NothingBeforeConnect, LossIsAnnounced
      <3> QED BY <2>2, <3>3, <3>4 DEF GapsInv
    <2> QED BY <2>3, <2>4
  <1> QED BY <1>2, <1>3

LEMMA WrittenIsPushed ==
  ASSUME TypeInv, GapsInv, NEW n \in 0..MaxPushes, WrittenUpTo(n)
  PROVE  n <= pushed
  <1>1. CASE Waiting(n)
    <2>1. PICK i \in DOMAIN inbox : inbox[i] = Push(n)
      BY <1>1 DEF Waiting
    <2>2. inbox[i].type = "push" /\ inbox[i].id = n
      BY <2>1, FrameTypes
    <2> QED BY <2>2 DEF GapsInv, InboxInOrder
  <1>2. CASE n = pushed
    BY <1>2
  <1> QED BY <1>1, <1>2 DEF WrittenUpTo

-----------------------------------------------------------------------------
(* Connections and the server *)

LEMMA ConnectKeepsGaps ==
  ASSUME TypeInv, HandoverInv, GapsInv, BuildRuntime \/ ConnectStream \/ ReadInitialResponse
  PROVE  GapsInv'
  <1>1. /\ worker \in {"spawned", "connecting", "authing"}
        /\ UNCHANGED <<sess, pushed, inbox, events, drained>>
        /\ worker' \notin {"dialing", "reauthing", "sleeping"}
    BY DEF BuildRuntime, ConnectStream, ReadInitialResponse, Exit, sessVars, counts
  <1>2. inbox = <<>> /\ events = <<>> /\ drained = <<>>
    BY <1>1 DEF GapsInv, NothingBeforeConnect
  <1>3. DOMAIN inbox' = {} /\ \A n \in 0..MaxPushes : ~Waiting(n)'
    BY <1>1, <1>2 DEF Waiting
  <1>4. Seen' = <<>>
    BY <1>1, <1>2 DEF Seen
  <1>5. NothingBeforeConnect' /\ LossIsAnnounced'
    BY <1>1, <1>2 DEF NothingBeforeConnect, LossIsAnnounced
  <1>6. InboxInOrder'
    BY <1>3 DEF InboxInOrder
  <1>7. SeenComesFirst' /\ NoneLostInBetween' /\ Resource!Gapless(Seen)'
    <2>1. DOMAIN Seen' = {}
      BY <1>4
    <2> QED BY <1>4, <2>1 DEF SeenComesFirst, NoneLostInBetween, Resource!Gapless
  <1> QED BY <1>5, <1>6, <1>7 DEF GapsInv

\* A new connection starts with an empty inbox, and the loss before it was announced.
LEMMA ReconnectKeepsGaps ==
  ASSUME TypeInv, GapsInv, ReconnectInitialResponse
  PROVE  GapsInv'
  <1>1. worker = "reauthing" /\ UNCHANGED <<sess, pushed, events, drained>>
    BY DEF ReconnectInitialResponse, sessVars, counts
  <1>2. CASE worker' = "checking" /\ link' = "up" /\ inbox' = <<>>
    <2>1. \A n \in 0..MaxPushes : ~Waiting(n)'
      BY <1>2 DEF Waiting
    <2>2. InboxInOrder'
      BY <1>2, <2>1 DEF InboxInOrder
    <2>3. Seen' = Seen
      BY <1>1, SeenSteps
    <2>4. SeenComesFirst' /\ Resource!Gapless(Seen)'
      BY <1>1, <2>1, <2>3 DEF GapsInv, SeenComesFirst, Resource!Gapless
    <2>5. NoneLostInBetween'
      BY <1>1, <2>3 DEF GapsInv, LossIsAnnounced, NoneLostInBetween
    <2>6. NothingBeforeConnect' /\ LossIsAnnounced'
      BY <1>2 DEF NothingBeforeConnect, LossIsAnnounced
    <2> QED BY <2>2, <2>4, <2>5, <2>6 DEF GapsInv
  <1>3. CASE ~(worker' = "checking" /\ link' = "up" /\ inbox' = <<>>)
    <2>1. worker' = "exited" /\ link' = "down" /\ inbox' = inbox
      BY <1>3 DEF ReconnectInitialResponse, Exit
    <2> QED BY <1>1, <2>1, StillStep
  <1> QED BY <1>2, <1>3

LEMMA ServerPushKeepsGaps ==
  ASSUME TypeInv, HandoverInv, GapsInv, ServerPush
  PROVE  GapsInv'
  <1>1. pushed < MaxPushes /\ pushed' = pushed + 1 /\ UNCHANGED <<sess, worker, link, events, drained>>
    BY DEF ServerPush, sessVars, workerVars
  <1>2. pushed \in 0..MaxPushes /\ pushed \in Nat /\ link \in {"up", "down"}
    BY WorkerConstants DEF WorkerConstants, TypeInv, TypeOK
  <1>3. Seen' = Seen
    BY <1>1, SeenSteps
  <1>4. LossIsAnnounced' /\ Resource!Gapless(Seen)'
    BY <1>1, <1>3 DEF GapsInv, LossIsAnnounced, Resource!Gapless
  <1>5. CASE link = "up"
    <2>1. inbox' = Append(inbox, Push(pushed + 1))
      BY <1>5 DEF ServerPush
    <2>2. /\ InboxInOrder'
          /\ \A n \in 0..MaxPushes : Waiting(n)' <=> Waiting(n) \/ n = pushed + 1
          /\ \A n \in 0..MaxPushes : WrittenUpTo(n)' => WrittenUpTo(n) \/ n = pushed + 1
      BY <1>1, <1>5, <2>1, PushWritten DEF GapsInv
    <2>3. NothingBeforeConnect'
      BY <1>1, <1>5 DEF NothingBeforeConnect, HandoverInv
    <2>4. \A i \in DOMAIN Seen : Seen[i].type = "Push" => Seen[i].id \in Nat
      <3>1. \A i \in DOMAIN Seen : Seen[i] \in WorkerEvent
        BY SeenSteps
      <3> QED BY <3>1 DEF WorkerEvent
    <2>5. SeenComesFirst'
      <3> SUFFICES ASSUME NEW i \in DOMAIN Seen, Seen[i].type = "Push"
                   PROVE  Seen[i].id <= pushed + 1 /\ \A n \in 0..MaxPushes : Waiting(n)' => Seen[i].id < n
        BY <1>1, <1>3 DEF SeenComesFirst
      <3>1. Seen[i].id <= pushed /\ \A n \in 0..MaxPushes : Waiting(n) => Seen[i].id < n
        BY DEF GapsInv, SeenComesFirst
      <3> QED BY <1>2, <2>2, <2>4, <3>1
    <2>6. NoneLostInBetween'
      <3> SUFFICES ASSUME sess # "dropped", Seen # <<>>, Last(Seen).type = "Push",
                          NEW m \in 0..MaxPushes, NEW k \in 0..MaxPushes,
                          Last(Seen).id < m, m <= k, WrittenUpTo(k)'
                   PROVE  Waiting(m)'
        BY <1>1, <1>3 DEF NoneLostInBetween
      <3>1. CASE m = pushed + 1
        BY <2>2, <3>1
      <3>2. CASE m # pushed + 1
        <4>1. m <= pushed
          <5>1. CASE k = pushed + 1
            BY <1>2, <3>2, <5>1
          <5>2. CASE k # pushed + 1
            <6>1. WrittenUpTo(k)
              BY <2>2, <5>2
            <6>2. k <= pushed
              BY <1>2, <6>1, WrittenIsPushed
            <6> QED BY <1>2, <6>2
          <5> QED BY <5>1, <5>2
        <4>2. WrittenUpTo(pushed)
          BY <1>5 DEF WrittenUpTo
        <4>3. Waiting(m)
          BY <1>2, <4>1, <4>2 DEF GapsInv, NoneLostInBetween
        <4> QED BY <2>2, <4>3
      <3> QED BY <3>1, <3>2
    <2> QED BY <1>4, <2>2, <2>3, <2>5, <2>6 DEF GapsInv
  <1>6. CASE link = "down"
    <2>1. inbox' = inbox /\ link' = "down"
      BY <1>1, <1>6 DEF ServerPush
    <2>2. \A n \in 0..MaxPushes : (Waiting(n)' <=> Waiting(n)) /\ (WrittenUpTo(n)' <=> WrittenUpTo(n))
      BY <1>6, <2>1 DEF Waiting, WrittenUpTo
    <2>3. NothingBeforeConnect' /\ NoneLostInBetween'
      BY <1>1, <1>3, <2>1, <2>2 DEF GapsInv, NothingBeforeConnect, NoneLostInBetween
    <2>4. InboxInOrder'
      <3>1. \A i \in DOMAIN inbox : inbox[i].type = "push" => inbox[i].id <= pushed + 1
        <4>1. \A i \in DOMAIN inbox : inbox[i].type = "push" => inbox[i].id <= pushed /\ inbox[i].id \in Nat
          BY WaitingIs DEF GapsInv, InboxInOrder
        <4> QED BY <1>2, <4>1
      <3>2. \A n, m, k \in 0..MaxPushes : n <= m /\ m <= k /\ Waiting(n)' /\ WrittenUpTo(k)' => Waiting(m)'
        BY <2>2 DEF GapsInv, InboxInOrder
      <3> QED BY <1>1, <2>1, <3>1, <3>2 DEF GapsInv, InboxInOrder
    <2>5. SeenComesFirst'
      <3>1. \A i \in DOMAIN Seen : Seen[i] \in WorkerEvent
        BY SeenSteps
      <3>2. \A i \in DOMAIN Seen : Seen[i].type = "Push" => Seen[i].id <= pushed /\ Seen[i].id \in Nat
        BY <3>1 DEF GapsInv, SeenComesFirst, WorkerEvent
      <3>3. \A i \in DOMAIN Seen : Seen[i].type = "Push" => Seen[i].id <= pushed + 1
        BY <1>2, <3>2
      <3> QED BY <1>1, <1>3, <2>2, <3>3 DEF GapsInv, SeenComesFirst
    <2> QED BY <1>4, <2>3, <2>4, <2>5 DEF GapsInv
  <1> QED BY <1>2, <1>5, <1>6

LEMMA ControlKeepsGaps ==
  ASSUME TypeInv, HandoverInv, GapsInv, ServerPing \/ LinkEnds
  PROVE  GapsInv'
  <1>1. /\ link = "up" /\ link' \in {link, "down"} /\ pushed' = pushed
        /\ UNCHANGED <<sess, worker, events, drained>>
    BY DEF ServerPing, LinkEnds, sessVars, workerVars, counts
  <1>2. PICK type \in {"ping", "close", "error"} : inbox' = Append(inbox, Control(type))
    BY DEF ServerPing, LinkEnds
  <1>3. InboxInOrder' /\ Quiet
    BY <1>1, <1>2, ControlWritten DEF GapsInv
  <1>4. Seen' = Seen
    BY <1>1, SeenSteps
  <1>5. SeenComesFirst' /\ NoneLostInBetween' /\ Resource!Gapless(Seen)'
    BY <1>1, <1>3, <1>4, SameSeen
  <1>6. NothingBeforeConnect' /\ LossIsAnnounced'
    BY <1>1, <1>4 DEF GapsInv, NothingBeforeConnect, LossIsAnnounced, HandoverInv
  <1> QED BY <1>3, <1>5, <1>6 DEF GapsInv

LEMMA DrainKeepsGaps ==
  ASSUME TypeInv, GapsInv, DrainTransportEvents \/ DropResource
  PROVE  GapsInv'
  <1>1. UNCHANGED <<worker, inbox, link, pushed>> /\ events' = <<>>
    BY DEF DrainTransportEvents, DropResource, workerVars, netVars, counts
  <1>2. InboxInOrder' /\ Quiet
    BY <1>1, UntouchedInbox DEF GapsInv
  <1>3. CASE DrainTransportEvents
    <2>1. sess' = sess /\ drained' = drained \o events
      BY <1>3 DEF DrainTransportEvents, sessVars
    <2>2. Seen' = Seen
      BY <1>1, <2>1, SeenSteps
    <2>3. SeenComesFirst' /\ NoneLostInBetween' /\ Resource!Gapless(Seen)'
      BY <1>2, <2>1, <2>2, SameSeen
    <2>4. NothingBeforeConnect' /\ LossIsAnnounced'
      BY <1>1, <2>1, <2>2 DEF GapsInv, NothingBeforeConnect, LossIsAnnounced
    <2> QED BY <1>2, <2>3, <2>4 DEF GapsInv
  <1>4. CASE DropResource
    <2>1. sess' = "dropped" /\ drained' = drained
      BY <1>4 DEF DropResource
    <2>2. Seen' = drained
      BY <1>1, <2>1, SeenSteps
    <2>3. SeenComesFirst' /\ NoneLostInBetween' /\ Resource!Gapless(Seen)'
      BY <1>2, <2>1, <2>2, SameSeen
    <2>4. NothingBeforeConnect' /\ LossIsAnnounced'
      BY <1>1, <2>1 DEF GapsInv, NothingBeforeConnect, LossIsAnnounced
    <2> QED BY <1>2, <2>3, <2>4 DEF GapsInv
  <1> QED BY <1>3, <1>4

LEMMA InitGaps == Init => GapsInv
<1> SUFFICES ASSUME Init PROVE GapsInv
  OBVIOUS
<1>1. Seen = <<>> /\ DOMAIN Seen = {} /\ inbox = <<>> /\ DOMAIN inbox = {}
  BY DEF Init, Seen
<1>2. NothingBeforeConnect /\ LossIsAnnounced
  BY DEF Init, NothingBeforeConnect, LossIsAnnounced
<1>3. InboxInOrder
  BY <1>1 DEF InboxInOrder, Waiting
<1>4. SeenComesFirst /\ NoneLostInBetween /\ Resource!Gapless(Seen)
  BY <1>1 DEF SeenComesFirst, NoneLostInBetween, Resource!Gapless
<1> QED BY <1>2, <1>3, <1>4 DEF GapsInv

LEMMA NextGaps ==
  ASSUME TypeInv, HandoverInv, GapsInv, [Next]_vars
  PROVE  GapsInv'
<1>1. CASE Start \/ StartReturnsOk \/ StartReturnsErr \/ Close \/ CloseAgain \/ JoinReturns
  <2>1. /\ UNCHANGED <<inbox, pushed, link, events, drained>> /\ sess' # "dropped" /\ sess # "dropped"
        /\ worker' = worker \/ (worker' = "spawned" /\ sess = "none")
    BY <1>1 DEF Start, StartReturnsOk, StartReturnsErr, Close, CloseAgain, JoinReturns, workerVars, netVars, counts
  <2>2. sess = "none" => worker = "none"
    BY DEF HandoverInv
  <2> QED BY <2>1, <2>2, StillStep
<1>2. CASE CheckShutdown \/ PollTimeout \/ ReconnectGivesUp \/ CloseClient
  <2>1. /\ UNCHANGED <<sess, inbox, pushed, events, drained>> /\ link' \in {link, "down"}
        /\ worker' \in {"closing", "polling", "checking", "exited"}
    BY <1>2 DEF CheckShutdown, PollTimeout, ReconnectGivesUp, CloseClient, Exit, sessVars, netVars, counts
  <2> QED BY <2>1, StillStep
<1>3. CASE ReconnectStream \/ ReconnectSleep
  <2>1. /\ UNCHANGED <<sess, inbox, pushed, link, events, drained>>
        /\ worker \in {"dialing", "sleeping"} /\ worker' \in {"reauthing", "sleeping", "dialing"}
    BY <1>3 DEF ReconnectStream, ReconnectSleep, sessVars, netVars, counts
  <2> QED BY <2>1, StillStep
<1>4. CASE UNCHANGED vars
  <2>1. UNCHANGED <<sess, worker, inbox, pushed, link, events, drained>>
    BY <1>4 DEF vars
  <2> QED BY <2>1, StillStep
<1> QED
  BY <1>1, <1>2, <1>3, <1>4, ConnectKeepsGaps, PollFrameKeepsGaps, ReconnectKeepsGaps, ServerPushKeepsGaps,
     ControlKeepsGaps, DrainKeepsGaps
  DEF Next, SessionThread, WorkerLocal, WorkerRemote, Environment

\* For any number of pushes, connections and reconnects: the pushes the session drains are in
\* the order of the server, each once, and wherever some are missing there is a Disconnected
\* event among them.
THEOREM GapsAnnounced == SilentServerSpec => []GapsAreAnnounced
<1> DEFINE Inv == TypeInv /\ HandoverInv /\ GapsInv
<1>1. Init => Inv
  BY InitTypes, InitHandover, InitGaps
<1>2. Inv /\ [Next]_vars => Inv'
  BY NextTypes, NextHandover, NextGaps
<1>3. Inv => GapsAreAnnounced
  BY DEF GapsInv, Resource!Gapless, Seen, GapsAreAnnounced
<1> HIDE DEF Inv
<1> QED BY <1>1, <1>2, <1>3, PTL DEF SilentServerSpec

-----------------------------------------------------------------------------
(* Refinement of TransportResource *)

\* A worker past its connection phase has said so on the ready channel, and one that has
\* ended has a result for join.
ServingInv ==
    /\ worker \in {"checking", "polling", "dialing", "reauthing", "sleeping", "closing"} => ready = "ok"
    /\ worker = "exited" => outcome \in {"Ok", "Err"}

LEMMA NextServing ==
  ASSUME HandoverInv, ServingInv, [Next]_vars
  PROVE  ServingInv'
<1> USE DEF ServingInv
<1>1. CASE Start \/ StartReturnsOk \/ StartReturnsErr \/ Close \/ CloseAgain \/ JoinReturns \/ DropResource
  BY <1>1 DEF Start, StartReturnsOk, StartReturnsErr, Close, CloseAgain, JoinReturns, DropResource,
     workerVars
<1>2. CASE DrainTransportEvents \/ ServerPush \/ ServerPing \/ LinkEnds \/ UNCHANGED vars
  BY <1>2 DEF DrainTransportEvents, ServerPush, ServerPing, LinkEnds, vars, workerVars
<1>3. CASE BuildRuntime \/ ConnectStream \/ ReadInitialResponse
  BY <1>3 DEF BuildRuntime, ConnectStream, ReadInitialResponse, Exit
<1>4. CASE CheckShutdown \/ PollTimeout \/ ReconnectGivesUp \/ CloseClient
  BY <1>4 DEF CheckShutdown, PollTimeout, ReconnectGivesUp, CloseClient, Exit
<1>5. CASE PollFrame
  BY <1>5 DEF PollFrame, Exit
<1>6. CASE ReconnectStream \/ ReconnectSleep \/ ReconnectInitialResponse
  BY <1>6 DEF ReconnectStream, ReconnectSleep, ReconnectInitialResponse, Exit
<1> QED
  BY <1>1, <1>2, <1>3, <1>4, <1>5, <1>6 DEF Next, SessionThread, WorkerLocal, WorkerRemote, Environment

ResourceInv == TypeInv /\ HandoverInv /\ GapsInv /\ ServingInv

Running == worker \notin {"none", "exited"}

\* What a step may leave alone, as the session sees it.
ResourceStays == UNCHANGED <<sess, lastClose, Running, ready = "ok", events, drained>>
ResourceMoves == Resource!Next \/ ResourceStays

\* The session's own calls are those of the resource.
LEMMA CallsAreTheResources ==
  ASSUME ResourceInv, SessionThread
  PROVE  ResourceMoves
<1>1. CASE Start
  <2>1. worker = "none" /\ ready = "empty"
    BY <1>1 DEF Start, ResourceInv, HandoverInv
  <2>2. Resource!Start
    BY <1>1, <2>1 DEF Start, Resource!Start
  <2> QED BY <2>2 DEF ResourceMoves, Resource!Next
<1>2. CASE StartReturnsOk
  <2>1. Resource!Opens
    BY <1>2 DEF StartReturnsOk, workerVars, Resource!Opens
  <2> QED BY <2>1 DEF ResourceMoves, Resource!Next
<1>3. CASE StartReturnsErr
  <2>1. Resource!Refused
    BY <1>3 DEF StartReturnsErr, workerVars, Resource!Refused
  <2> QED BY <2>1 DEF ResourceMoves, Resource!Next
<1>4. CASE Close
  <2>1. Resource!Close
    BY <1>4 DEF Close, workerVars, Resource!Close
  <2> QED BY <2>1 DEF ResourceMoves, Resource!Next
<1>5. CASE JoinReturns
  <2>1. Resource!Closed
    BY <1>5 DEF JoinReturns, workerVars, ResourceInv, ServingInv, Resource!Closed
  <2> QED BY <2>1 DEF ResourceMoves, Resource!Next
<1>6. CASE CloseAgain
  <2>1. Resource!CloseAgain
    BY <1>6 DEF CloseAgain, workerVars, Resource!CloseAgain
  <2> QED BY <2>1 DEF ResourceMoves, Resource!Next
<1>7. CASE DrainTransportEvents
  <2>1. Resource!Drain
    BY <1>7 DEF DrainTransportEvents, workerVars, sessVars, Resource!Drain
  <2> QED BY <2>1 DEF ResourceMoves, Resource!Next
<1>8. CASE DropResource
  <2>1. Resource!Drop
    BY <1>8 DEF DropResource, workerVars, Resource!Drop
  <2> QED BY <2>1 DEF ResourceMoves, Resource!Next
<1> QED BY <1>1, <1>2, <1>3, <1>4, <1>5, <1>6, <1>7, <1>8 DEF SessionThread

\* A worker that ends stops what runs behind the resource.
LEMMA ExitStops ==
  ASSUME NEW result, Exit(result), Running, UNCHANGED <<sess, lastClose, ready = "ok", events, drained>>
  PROVE  ResourceMoves
<1>1. Resource!Stop
  BY DEF Exit, Running, Resource!Stop
<1> QED BY <1>1 DEF ResourceMoves, Resource!Next

\* An event the worker sends is delivered, unless the session has dropped its end.
LEMMA SentIsDelivered ==
  ASSUME ResourceInv, GapsInv', NEW e \in WorkerEvent, SendEvent(e), worker = "polling",
         worker' \in {"checking", "dialing"}, UNCHANGED <<sess, lastClose, ready, drained>>
  PROVE  ResourceMoves
<1>1. CASE sess = "dropped"
  BY <1>1 DEF SendEvent, ResourceMoves, ResourceStays, Running
<1>2. CASE sess # "dropped"
  <2>1. sess \in {"starting", "open", "joining"} /\ ready = "ok"
    BY <1>2 DEF ResourceInv, HandoverInv, ServingInv, SessStates
  <2>2. Resource!Gapless(drained' \o events')
    BY DEF GapsInv, Seen
  <2>3. Resource!Deliver
    BY <1>2, <2>1, <2>2 DEF SendEvent, Resource!Deliver
  <2> QED BY <2>3 DEF ResourceMoves, Resource!Next
<1> QED BY <1>1, <1>2

LEMMA PollFrameDelivers ==
  ASSUME ResourceInv, GapsInv', PollFrame
  PROVE  ResourceMoves
<1> DEFINE frame == Head(inbox)
<1>1. /\ worker = "polling" /\ inbox # <<>> /\ Running
      /\ UNCHANGED <<sess, lastClose, ready, drained>>
  BY DEF PollFrame, sessVars, Running
<1>2. frame.id \in 0..MaxPushes /\ 0 \in 0..MaxPushes
  <2>1. inbox \in Seq(Frame)
    BY DEF ResourceInv, TypeInv, TypeOK
  <2>2. frame \in Frame
    BY <1>1, <2>1, SeqSteps
  <2> QED BY <2>2, WorkerConstants DEF Frame, WorkerConstants
<1>3. /\ [type |-> "Push", id |-> frame.id] \in WorkerEvent
      /\ [type |-> "Disconnected", id |-> 0] \in WorkerEvent
  BY <1>2 DEF WorkerEvent
<1>4. \/ SendEvent([type |-> "Push", id |-> frame.id]) /\ worker' = "checking"
      \/ worker' = "checking" /\ UNCHANGED events
      \/ SendEvent([type |-> "Disconnected", id |-> 0]) /\ worker' = "dialing"
      \/ Exit("Err") /\ UNCHANGED events
  BY DEF PollFrame
<1> HIDE DEF frame
<1>5. CASE worker' = "checking" /\ UNCHANGED events
  BY <1>1, <1>5 DEF ResourceMoves, ResourceStays, Running
<1> QED BY <1>1, <1>3, <1>4, <1>5, SentIsDelivered, ExitStops

\* Before the server answers, the session is still in start_native_transport_task.
LEMMA ConnectIsAccepted ==
  ASSUME ResourceInv, BuildRuntime \/ ConnectStream \/ ReadInitialResponse
  PROVE  ResourceMoves
<1>1. /\ ready = "empty" /\ sess = "starting" /\ Running
      /\ UNCHANGED <<sess, lastClose, events, drained>>
  BY DEF BuildRuntime, ConnectStream, ReadInitialResponse, sessVars, ResourceInv, HandoverInv, SessStates,
     Running
<1>2. \/ worker' \in {"connecting", "authing"} /\ ready' = ready
      \/ worker' = "checking" /\ ready' = "ok"
      \/ Exit("Err") /\ ready' \in {"empty", "err"}
  BY <1>1 DEF BuildRuntime, ConnectStream, ReadInitialResponse
<1>3. CASE worker' \in {"connecting", "authing"} /\ ready' = ready
  BY <1>1, <1>3 DEF ResourceMoves, ResourceStays, Running
<1>4. CASE worker' = "checking" /\ ready' = "ok"
  <2>1. Resource!Accept
    BY <1>1, <1>4 DEF Resource!Accept, Running
  <2> QED BY <2>1 DEF ResourceMoves, Resource!Next
<1>5. CASE Exit("Err") /\ ready' \in {"empty", "err"}
  BY <1>1, <1>5, ExitStops
<1> QED BY <1>2, <1>3, <1>4, <1>5

LEMMA ResourceStep ==
  ASSUME ResourceInv, GapsInv', [Next]_vars
  PROVE  ResourceMoves
<1>1. CASE CheckShutdown \/ PollTimeout \/ ReconnectStream \/ ReconnectSleep
  BY <1>1 DEF CheckShutdown, PollTimeout, ReconnectStream, ReconnectSleep, sessVars, ResourceMoves,
     ResourceStays, Running
<1>2. CASE ReconnectGivesUp \/ CloseClient
  BY <1>2, ExitStops DEF ReconnectGivesUp, CloseClient, sessVars, Running
<1>3. CASE ReconnectInitialResponse
  <2>1. /\ worker = "reauthing" /\ UNCHANGED <<sess, lastClose, ready, events, drained>>
        /\ worker' = "checking" \/ Exit("Err")
    BY <1>3 DEF ReconnectInitialResponse, sessVars
  <2>2. CASE worker' = "checking"
    BY <2>1, <2>2 DEF ResourceMoves, ResourceStays, Running
  <2> QED BY <2>1, <2>2, ExitStops DEF Running
<1>4. CASE Environment \/ UNCHANGED vars
  BY <1>4 DEF Environment, ServerPush, ServerPing, LinkEnds, vars, sessVars, workerVars, ResourceMoves,
     ResourceStays, Running
<1> QED
  BY <1>1, <1>2, <1>3, <1>4, CallsAreTheResources, ConnectIsAccepted, PollFrameDelivers
  DEF Next, WorkerLocal, WorkerRemote

\* The thread, the websocket, the reconnects and the channels implement TransportResource, for
\* any reconnect policy and any traffic.
THEOREM WorkerImplementsResource == SilentServerSpec => ImplementsResource
<1>1. Init => ResourceInv
  <2>1. Init => ServingInv
    BY DEF Init, ServingInv
  <2> QED BY <2>1, InitTypes, InitHandover, InitGaps DEF ResourceInv
<1>2. ResourceInv /\ [Next]_vars => ResourceInv'
  BY NextTypes, NextHandover, NextGaps, NextServing DEF ResourceInv
<1>3. Init => Resource!Init
  BY DEF Init, Resource!Init
<1>4. ResourceInv /\ ResourceInv' /\ [Next]_vars => [Resource!Next]_(Resource!vars)
  <2>1. ResourceStays => UNCHANGED Resource!vars
    BY DEF ResourceStays, Running, Resource!vars
  <2> QED BY <2>1, ResourceStep DEF ResourceMoves, ResourceInv
<1> QED BY <1>1, <1>2, <1>3, <1>4, PTL DEF SilentServerSpec, ImplementsResource, Resource!Spec

=============================================================================
