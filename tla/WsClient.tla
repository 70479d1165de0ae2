------------------------------ MODULE WsClient -------------------------------
(***************************************************************************)
(* NativeWsClient as a request/response client                             *)
(* (crates/openim-transport-native/src/lib.rs) and WasmWsClient            *)
(* (crates/openim-transport-wasm/src/wasm.rs), over PendingRequests and    *)
(* route_envelope (crates/openim-transport-core/src/lib.rs).               *)
(*                                                                         *)
(* The wasm client has no wait, no buffer and no timeout.  Its reconnect   *)
(* installs the new socket before it reads the server's first response, so *)
(* a rejected one leaves the client on a connection nobody has accepted.   *)
(* In the native client that response comes first.                         *)
(*                                                                         *)
(* One task owns the client; send_request_wait_response is the only call   *)
(* during which other events can arrive, so it spans several steps         *)
(* (waiting # 0).  The server may answer late, on a later connection or    *)
(* not at all.                                                             *)
(*                                                                         *)
(* Requests are numbered in the order they are sent: gen_msg_incr makes a  *)
(* fresh msg_incr for each.  A timed-out receive has waited for the whole  *)
(* duration that expire_at compares with, so it expires every entry that   *)
(* was pending when it started, and no clock is needed.                    *)
(*                                                                         *)
(* A definition named Mutant... is a wrong version of the definition that  *)
(* follows it, kept to show that the properties notice the mistake.        *)
(***************************************************************************)
EXTENDS Integers, Sequences, FiniteSets, SequencesExt

CONSTANTS
    MaxRequests,    \* bound: requests ever sent
    MaxOutstanding, \* how many requests the application leaves unanswered
    MaxPushes,      \* bound: pushes ever sent
    MaxConnections, \* bound: connections ever made
    MaxWire         \* bound: frames in flight

ASSUME ClientConstants ==
    /\ MaxRequests \in Nat
    /\ MaxOutstanding \in Nat
    /\ MaxPushes \in Nat
    /\ MaxConnections \in Nat \ {0}
    /\ MaxWire \in Nat

VARIABLES
    platform,  \* "native" or "wasm"
    initial,   \* wasm: reconnect is still reading the initial response
    accepted,  \* the server has accepted the current connection
    verified,  \* the last connect or reconnect returned Ok
    conn,      \* number of the current connection, 0 without a client
    up,        \* may the server still write to it?
    wire,      \* frames on the way to the client
    asked,     \* requests the server has read and not answered
    pushes,    \* pushes the server has sent
    pending,   \* PendingRequests.entries
    buffered,  \* buffered_events
    waiting,   \* the request send_request_wait_response waits for, or 0
    sent,      \* number of requests sent
    \* history
    sentOn,    \* connection each request was sent on (0: not sent)
    verdicts,  \* Response and RequestTimeout reports made for each request
    owed,      \* pushes written to the current connection, numbered in their order
    got        \* pushes the caller received from it, in order

link == <<platform, initial, accepted, verified>>
vars == <<link, conn, up, wire, asked, pushes, pending, buffered, waiting, sent,
          sentOn, verdicts, owed, got>>

Requests == 1..MaxRequests
\* An envelope, a heartbeat, another text, bytes that are no envelope, the end of the
\* stream, and the server's answer to a connection.
Noise == {"ping", "pong", "text", "bytes"}
Frame == [type: {"resp", "push", "end", "ack", "nack"} \cup Noise, id: Nat]
BufferedEvent == [type: {"Response", "Push", "Stray"}, id: Nat]

Item(type, id) == [type |-> type, id |-> id]

\* No call is under way on a client that connect has returned.
Idle == conn > 0 /\ waiting = 0 /\ ~initial

Init ==
    /\ platform \in {"native", "wasm"}
    /\ initial = FALSE
    /\ accepted = FALSE
    /\ verified = FALSE
    /\ conn = 0
    /\ up = FALSE
    /\ wire = <<>>
    /\ asked = {}
    /\ pushes = 0
    /\ pending = {}
    /\ buffered = <<>>
    /\ waiting = 0
    /\ sent = 0
    /\ sentOn = [r \in Requests |-> 0]
    /\ verdicts = [r \in Requests |-> 0]
    /\ owed = {}
    /\ got = <<>>

-----------------------------------------------------------------------------
(* Connecting *)

\* connect_with_retries, and connect, once the server has accepted the stream;
\* an attempt that fails leaves no client.
ConnectWithRetries ==
    /\ platform = "native" /\ conn = 0
    /\ conn' = 1
    /\ up' = TRUE /\ accepted' = TRUE /\ verified' = TRUE
    /\ UNCHANGED <<platform, initial, wire, asked, pushes, pending, buffered, waiting, sent,
                   sentOn, verdicts, owed, got>>

\* open_socket: a new socket with a channel and handlers of its own; what the old socket
\* still delivers goes nowhere.
OpenSocket == up' = TRUE /\ accepted' = FALSE /\ wire' = <<>> /\ owed' = {} /\ got' = <<>>

\* WasmWsClient::connect once a socket is open; the initial response is awaited.
WasmConnect ==
    /\ platform = "wasm" /\ conn = 0
    /\ conn' = 1
    /\ OpenSocket
    /\ initial' = TRUE
    /\ UNCHANGED <<platform, verified, asked, pushes, pending, buffered, waiting, sent, sentOn,
                   verdicts>>

-----------------------------------------------------------------------------
(* Frames *)

\* text_heartbeat_frame: a ping is answered with a pong, a pong is dropped.
IsHeartbeat(frame) == frame.type \in {"ping", "pong"}
NeedsPong(frame) == frame.type = "ping"

\* decode_response_payload: decompressed if compression is on, then parsed.
Decodes(frame) == frame.type \in {"resp", "push"}

\* ensure_connect_ack: an ApiResponse with err_code 0.
IsConnectAck(frame) == frame.type = "ack"

\* route_envelope on a binary frame: PushMsg is a push, an envelope whose
\* msg_incr is pending is its response, anything else becomes a push as well
\* ("Stray": the Push event carries a response envelope).
Route(frame) ==
    IF frame.type = "push" THEN Item("Push", frame.id)
    ELSE Item(IF frame.id \in pending THEN "Response" ELSE "Stray", frame.id)

\* pending after route_envelope: resolve removes the entry it matched.
Resolved(event) ==
    IF event.type = "Response" THEN pending \ {event.id} ELSE pending

\* The caller gets an event.
Report(event) ==
    /\ verdicts' = IF event.type = "Response"
                     THEN [verdicts EXCEPT ![event.id] = @ + 1] ELSE verdicts
    /\ got' = IF event.type = "Push" THEN Append(got, event.id) ELSE got

-----------------------------------------------------------------------------
(* Requests *)

\* build_protobuf_request takes a fresh msg_incr.
GenMsgIncr == sent + 1

\* PendingRequests::register_at, which ignores an empty msg_incr.
Registered(r) == pending \cup {r}

\* send_request: the request is on the socket before it is registered, but
\* nothing is read in between.  A failed send registers nothing; a send on a
\* connection the server has left may still succeed locally.
SendRequest ==
    /\ Idle
    /\ sent < MaxRequests
    /\ Cardinality(pending) < MaxOutstanding
    /\ sent' = GenMsgIncr
    /\ sentOn' = [sentOn EXCEPT ![GenMsgIncr] = conn]
    /\ pending' = Registered(GenMsgIncr)
    /\ asked' = IF up /\ accepted THEN asked \cup {GenMsgIncr} ELSE asked

SendOnly ==
    /\ SendRequest
    /\ UNCHANGED <<link, conn, up, wire, pushes, buffered, waiting, verdicts, owed,
                   got>>

SendAsync == platform = "native" /\ SendOnly

\* WasmWsClient::send_request; a browser socket that is closing takes the bytes silently.
WasmSendRequest == platform = "wasm" /\ SendOnly

\* send_request_wait_response up to its receive loop.
SendAndWait ==
    /\ platform = "native"
    /\ SendRequest
    /\ waiting' = GenMsgIncr
    /\ UNCHANGED <<link, conn, up, wire, pushes, buffered, verdicts, owed, got>>

\* One turn of the loop: the awaited response is returned, other responses and
\* pushes are kept for recv_event, heartbeats are dropped.
WaitReads ==
    /\ waiting # 0
    /\ wire # <<>>
    /\ wire' = Tail(wire)
    /\ LET frame == Head(wire)
           event == Route(frame)
       IN  \/ /\ Decodes(frame)
              /\ pending' = Resolved(event)
              /\ IF event = Item("Response", waiting)
                 THEN /\ Report(event)
                      /\ waiting' = 0
                      /\ UNCHANGED buffered
                 ELSE /\ buffered' = Append(buffered, event)
                      /\ UNCHANGED <<waiting, verdicts, got>>
           \/ /\ IsHeartbeat(frame)
              /\ UNCHANGED <<pending, buffered, waiting, verdicts, got>>
           \/ \* decode error, other text, end of stream or a pong that cannot be
              \* sent: the call fails, the request stays registered
              /\ ~Decodes(frame) /\ (IsHeartbeat(frame) => NeedsPong(frame))
              /\ waiting' = 0
              /\ UNCHANGED <<pending, buffered, verdicts, got>>
    /\ UNCHANGED <<link, conn, up, asked, pushes, sent, sentOn, owed>>

\* The deadline of send_request_wait_response passes.
WaitTimesOut ==
    /\ waiting # 0
    /\ pending' = pending \ {waiting}
    /\ verdicts' = [verdicts EXCEPT ![waiting] = @ + 1]
    /\ waiting' = 0
    /\ UNCHANGED <<link, conn, up, wire, asked, pushes, buffered, sent, sentOn, owed,
                   got>>

-----------------------------------------------------------------------------
(* Receiving *)

\* recv_event: buffered events first.
RecvBuffered ==
    /\ Idle
    /\ buffered # <<>>
    /\ Report(Head(buffered))
    /\ buffered' = Tail(buffered)
    /\ UNCHANGED <<link, conn, up, wire, asked, pushes, pending, waiting, sent,
                   sentOn, owed>>

\* One frame of the stream or of the handlers' channel; a heartbeat, a disconnection or an
\* error is returned too, and leaves the client's state alone.
RecvFrame ==
    /\ Idle
    /\ wire # <<>>
    /\ wire' = Tail(wire)
    /\ LET frame == Head(wire)
           event == Route(frame)
       IN  IF Decodes(frame)
           THEN pending' = Resolved(event) /\ Report(event)
           ELSE UNCHANGED <<pending, verdicts, got>>
    /\ UNCHANGED <<link, conn, up, asked, pushes, buffered, waiting, sent, sentOn,
                   owed>>

MutantRecvFromStream == platform = "native" /\ RecvFrame

\* recv_event_from_stream, once nothing is buffered.
RecvFromStream ==
    /\ platform = "native"
    /\ buffered = <<>>
    /\ RecvFrame

\* WasmWsClient::recv_event
WasmRecvEvent == platform = "wasm" /\ RecvFrame

\* PendingRequests::expire_at at the end of the wait: every entry is old enough.
Expired == pending

MutantRecvTimesOut ==
    /\ Idle
    /\ buffered = <<>>
    /\ platform = "native"
    /\ wire = <<>>
    /\ pending' = {}
    /\ UNCHANGED <<link, conn, up, wire, asked, pushes, buffered, waiting, sent,
                   sentOn, verdicts, owed, got>>

\* recv_event_with_timeout when nothing arrives: what has expired is removed, the first in
\* the map's order is reported.
RecvTimesOut ==
    /\ Idle
    /\ buffered = <<>>
    /\ platform = "native"
    /\ wire = <<>>
    /\ Expired # {}
    /\ \E r \in Expired : verdicts' = [verdicts EXCEPT ![r] = @ + 1]
    /\ pending' = pending \ Expired
    /\ UNCHANGED <<link, conn, up, wire, asked, pushes, buffered, waiting, sent,
                   sentOn, owed, got>>

MutantReconnect ==
    /\ platform = "native" /\ Idle
    /\ conn < MaxConnections
    /\ conn' = conn + 1
    /\ up' = TRUE
    /\ wire' = <<>>
    /\ buffered' = <<>>
    /\ owed' = {}
    /\ got' = <<>>
    /\ UNCHANGED <<link, asked, pushes, pending, waiting, sent, sentOn, verdicts>>

\* reconnect that succeeds; one that fails changes nothing.
Reconnect ==
    /\ platform = "native" /\ Idle
    /\ conn < MaxConnections
    /\ conn' = conn + 1
    /\ up' = TRUE
    /\ wire' = <<>>
    /\ pending' = {}
    /\ buffered' = <<>>
    /\ owed' = {}
    /\ got' = <<>>
    /\ UNCHANGED <<link, asked, pushes, waiting, sent, sentOn, verdicts>>

\* WasmWsClient::reconnect once a socket is open: it replaces the old one and pending is
\* cleared, then the initial response is awaited.
WasmReconnect ==
    /\ platform = "wasm" /\ Idle
    /\ conn < MaxConnections
    /\ conn' = conn + 1
    /\ OpenSocket
    /\ pending' = {}
    /\ initial' = TRUE /\ verified' = FALSE
    /\ UNCHANGED <<platform, asked, pushes, buffered, waiting, sent, sentOn, verdicts>>

\* Where a call that awaited the initial response leaves the client: connect that fails
\* returns none, reconnect that fails keeps the new socket.
InitialResponseRead(ok) ==
    /\ initial' = FALSE /\ verified' = ok
    /\ IF conn = 1 /\ ~ok
         THEN conn' = 0 /\ up' = FALSE /\ accepted' = FALSE /\ wire' = <<>>
              /\ owed' = {} /\ got' = <<>>
         ELSE wire' = Tail(wire) /\ UNCHANGED <<conn, up, accepted, owed, got>>

MutantReadInitialResponse ==
    /\ initial /\ wire # <<>>
    /\ InitialResponseRead(~IsHeartbeat(Head(wire)))
    /\ UNCHANGED <<platform, asked, pushes, pending, buffered, waiting, sent, sentOn, verdicts>>

\* read_initial_response: heartbeats are passed over, the first other frame (or a pong that
\* cannot be sent) ends the call, with an error unless it is the acknowledgement.
ReadInitialResponse ==
    /\ initial /\ wire # <<>>
    /\ \/ /\ IsHeartbeat(Head(wire))
          /\ wire' = Tail(wire)
          /\ UNCHANGED <<initial, verified, conn, up, accepted, owed, got>>
       \/ /\ IsHeartbeat(Head(wire)) => NeedsPong(Head(wire))
          /\ InitialResponseRead(IsConnectAck(Head(wire)))
    /\ UNCHANGED <<platform, asked, pushes, pending, buffered, waiting, sent, sentOn, verdicts>>

-----------------------------------------------------------------------------
(* Server *)

\* The first frame on a connection the wasm client has opened.
ServerGreets ==
    /\ ~accepted /\ up
    /\ \/ accepted' = TRUE /\ up' = TRUE /\ wire' = Append(wire, Item("ack", 0))
       \/ accepted' = FALSE /\ up' = FALSE /\ wire' = wire \o <<Item("nack", 0), Item("end", 0)>>
    /\ UNCHANGED <<platform, initial, verified, conn, asked, pushes, pending, buffered, waiting, sent,
                   sentOn, verdicts, owed, got>>

Write(frame) == up /\ Len(wire) < MaxWire /\ wire' = Append(wire, frame)

ServerAnswers ==
    /\ \E r \in asked : /\ asked' = asked \ {r}
                        /\ accepted /\ Write(Item("resp", r))
    /\ UNCHANGED <<link, conn, up, pushes, pending, buffered, waiting, sent, sentOn,
                   verdicts, owed, got>>

ServerPush ==
    /\ pushes < MaxPushes
    /\ pushes' = pushes + 1
    /\ accepted /\ Write(Item("push", pushes + 1))
    /\ owed' = owed \cup {pushes + 1}
    /\ UNCHANGED <<link, conn, up, asked, pending, buffered, waiting, sent, sentOn,
                   verdicts, got>>

ServerNoise ==
    /\ \E type \in Noise : Write(Item(type, 0))
    /\ UNCHANGED <<link, conn, up, asked, pushes, pending, buffered, waiting, sent,
                   sentOn, verdicts, owed, got>>

LinkEnds ==
    /\ up
    /\ up' = FALSE
    /\ wire' = Append(wire, Item("end", 0))
    /\ UNCHANGED <<link, conn, asked, pushes, pending, buffered, waiting, sent,
                   sentOn, verdicts, owed, got>>

Next ==
    \/ ConnectWithRetries \/ WasmConnect
    \/ SendAsync \/ SendAndWait \/ WaitReads \/ WaitTimesOut
    \/ RecvBuffered \/ RecvFromStream \/ RecvTimesOut \/ Reconnect
    \/ WasmSendRequest \/ WasmRecvEvent \/ WasmReconnect \/ ReadInitialResponse \/ ServerGreets
    \/ ServerAnswers \/ ServerPush \/ ServerNoise \/ LinkEnds

Spec == Init /\ [][Next]_vars

-----------------------------------------------------------------------------
(* Properties *)

\* Every variable stays in its domain, and a request that is being waited for
\* is registered, so that its answer will be recognised.
TypeOK ==
    /\ platform \in {"native", "wasm"}
    /\ initial \in BOOLEAN /\ accepted \in BOOLEAN /\ verified \in BOOLEAN
    /\ platform = "native" => (accepted <=> conn > 0) /\ (verified <=> conn > 0) /\ ~initial
    /\ conn \in 0..MaxConnections
    /\ up \in BOOLEAN
    /\ wire \in Seq(Frame)
    /\ asked \subseteq Requests
    /\ pushes \in 0..MaxPushes
    /\ pending \subseteq 1..sent
    /\ buffered \in Seq(BufferedEvent)
    /\ waiting \in {0} \cup pending
    /\ sent \in 0..MaxRequests
    /\ sentOn \in [Requests -> 0..MaxConnections]
    /\ verdicts \in [Requests -> Nat]
    /\ owed \subseteq 1..pushes
    /\ got \in Seq(1..MaxPushes)

Ids(queue, type) == {queue[i].id : i \in {j \in DOMAIN queue : queue[j].type = type}}

BufferedResponses == Ids(buffered, "Response")

\* A request is reported at most once, as answered or as timed out: an answer
\* that arrives after the timeout is not handed out as a response any more,
\* and an answered request does not time out later.
OneVerdictPerRequest ==
    \A r \in Requests :
        /\ verdicts[r] <= 1
        /\ r \in pending \cup BufferedResponses => verdicts[r] = 0

\* Nothing registered on an earlier connection survives a reconnect, so an
\* answer the server sends on the new connection to an old request is never
\* taken for the answer of a request in flight.
NoResponseAcrossConnections ==
    \A r \in pending \cup BufferedResponses : sentOn[r] = conn

\* However calls, timeouts, late answers and reconnects interleave, a request takes the
\* one-way path of RequestLife: awaited, perhaps buffered, then reported or forgotten.  No
\* step brings a request back, reports one that is not awaited, or forgets one silently
\* except with its connection or with another one's timeout.
LifeOf == INSTANCE RequestLife WITH
              connection <- conn, issued <- 1..sent, awaited <- pending,
              kept <- BufferedResponses, reports <- verdicts

ImplementsRequestLife == LifeOf!Spec

\* connect and reconnect return Ok only on a connection the server has accepted: no heartbeat, stray
\* frame or rejection passes for the acknowledgement.  (The converse does not hold: after an
\* error the wasm client keeps the new socket, accepted or not.)
OkMeansAccepted == verified => accepted

\* The queue holds its items of this type in the order of their numbers.
InOrder(queue, type) ==
    \A i, j \in DOMAIN queue :
        i < j /\ queue[i].type = type /\ queue[j].type = type => queue[i].id < queue[j].id
Before(some, others) == \A p \in some, q \in others : p < q

\* While a connection lasts every push written to it reaches the caller once
\* and in order, however receives, waits, timeouts and heartbeats interleave:
\* what was received, what is buffered and what is on the wire follow each
\* other in the order of the server, and together they are what it has written.
PushesConserved ==
    /\ owed = Range(got) \cup Ids(buffered, "Push") \cup Ids(wire, "push")
    /\ \A i, j \in DOMAIN got : i < j => got[i] < got[j]
    /\ InOrder(buffered, "Push") /\ InOrder(wire, "push")
    /\ Before(Range(got), Ids(buffered, "Push"))
    /\ Before(Range(got) \cup Ids(buffered, "Push"), Ids(wire, "push"))

=============================================================================
