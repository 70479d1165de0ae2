--------------------------- MODULE TransportWorker ---------------------------
(***************************************************************************)
(* The native transport resource of a login                                *)
(* (crates/openim-session-native/src/lib.rs): the session thread that      *)
(* starts, drains and closes it, and the worker thread that owns the       *)
(* websocket client, joined by three channels (ready, shutdown, events).   *)
(* NativeWsClient::connect and ::reconnect of openim-transport-native run  *)
(* inside the worker.  The server and the network are the environment.     *)
(*                                                                         *)
(* The worker never sends a request, so every binary frame it reads is     *)
(* routed as a push.  TransportConfig::new sets send_response, so a        *)
(* connection always waits for the server's initial response.              *)
(*                                                                         *)
(* A definition named Mutant... is a wrong version of the definition that  *)
(* follows it, kept to show that the properties notice the mistake.        *)
(***************************************************************************)
EXTENDS Integers, Sequences, SequencesExt

CONSTANTS
    MaxAttempts,  \* ReconnectPolicy.max_attempts (0: no limit)
    MaxPushes,    \* bound: messages the server addresses to this user
    MaxInbox,     \* bound: frames in flight on the websocket
    MaxBreaks     \* bound: connections that end

ASSUME WorkerConstants ==
    /\ MaxAttempts \in Nat
    /\ MaxPushes \in Nat
    /\ MaxInbox \in Nat
    /\ MaxBreaks \in Nat

VARIABLES
    sess,      \* where the session thread is in the resource's life
    lastClose, \* what the last call of close returned
    closeErrs, \* history: calls of close that returned Err
    worker,    \* where run_native_transport_worker is
    outcome,   \* the Result the worker thread ended with
    ready,     \* ready channel: "empty", "ok" or "err"
    shutdown,  \* a () is waiting in the shutdown channel
    attempt,   \* attempt counter of NativeWsClient::reconnect
    link,      \* is the server's end of the current websocket open?
    inbox,     \* frames the worker has not read yet
    pushed,    \* messages the server has addressed to this user so far
    breaks,    \* connections that have ended so far
    events,    \* event channel
    drained    \* history: everything drain_transport_events returned

workerVars == <<worker, outcome, ready, attempt>>
sessVars == <<sess, lastClose, closeErrs>>
counts == <<pushed, breaks>>
netVars == <<link, inbox, counts>>
vars == <<sess, lastClose, closeErrs, worker, outcome, ready, shutdown,
          attempt, link, inbox, pushed, breaks, events, drained>>

SessStates == {"none", "starting", "open", "joining", "closed", "failed",
               "dropped"}
WorkerStates == {"none", "spawned", "connecting", "authing", "checking",
                 "polling", "dialing", "reauthing", "sleeping", "closing",
                 "exited"}
Frame == [type: {"push", "ping", "close", "error"}, id: 0..MaxPushes]
WorkerEvent == [type: {"Push", "Disconnected"}, id: 0..MaxPushes]

Push(n) == [type |-> "push", id |-> n]
Control(type) == [type |-> type, id |-> 0]

Init ==
    /\ sess = "none"
    /\ lastClose = "none"
    /\ closeErrs = 0
    /\ worker = "none"
    /\ outcome = "none"
    /\ ready = "empty"
    /\ shutdown = FALSE
    /\ attempt = 1
    /\ link = "down"
    /\ inbox = <<>>
    /\ pushed = 0
    /\ breaks = 0
    /\ events = <<>>
    /\ drained = <<>>

-----------------------------------------------------------------------------
(* Session thread *)

\* start_native_transport_task up to ready_rx.recv().
Start ==
    /\ sess = "none"
    /\ sess' = "starting"
    /\ worker' = "spawned"
    /\ UNCHANGED <<lastClose, closeErrs, outcome, ready, shutdown, attempt,
                   netVars, events, drained>>

StartReturnsOk ==
    /\ sess = "starting"
    /\ ready = "ok"
    /\ sess' = "open"
    /\ UNCHANGED <<lastClose, closeErrs, workerVars, shutdown, netVars,
                   events, drained>>

\* An error on the ready channel, or a sender dropped before it sent: either
\* way the thread is joined before the error is returned.
StartReturnsErr ==
    /\ sess = "starting"
    /\ ready # "ok"
    /\ worker = "exited"
    /\ sess' = "failed"
    /\ UNCHANGED <<lastClose, closeErrs, workerVars, shutdown, netVars,
                   events, drained>>

MutantClose ==
    /\ sess = "open"
    /\ sess' = "joining"
    /\ UNCHANGED <<lastClose, closeErrs, workerVars, shutdown, netVars, events,
                   drained>>

\* close, first call: send the shutdown signal, then block in join.  The send
\* is lost when the worker, and with it the receiver, is already gone.
Close ==
    /\ sess = "open"
    /\ sess' = "joining"
    /\ shutdown' = (worker # "exited")
    /\ UNCHANGED <<lastClose, closeErrs, workerVars, netVars, events, drained>>

\* join returns the worker's own Result.
JoinReturns ==
    /\ sess = "joining"
    /\ worker = "exited"
    /\ sess' = "closed"
    /\ lastClose' = outcome
    /\ closeErrs' = IF outcome = "Err" THEN closeErrs + 1 ELSE closeErrs
    /\ UNCHANGED <<workerVars, shutdown, netVars, events, drained>>

MutantCloseAgain ==
    /\ sess = "closed"
    /\ lastClose' = outcome
    /\ closeErrs' = IF outcome = "Err" THEN closeErrs + 1 ELSE closeErrs
    /\ UNCHANGED <<sess, workerVars, shutdown, netVars, events, drained>>

\* close again: shutdown_tx and join_handle are None.
CloseAgain ==
    /\ sess = "closed"
    /\ lastClose' = "Ok"
    /\ UNCHANGED <<sess, closeErrs, workerVars, shutdown, netVars, events,
                   drained>>

MutantDrainTransportEvents ==
    /\ sess \in {"open", "closed"}
    /\ drained' = IF worker = "exited" THEN drained ELSE drained \o events
    /\ events' = <<>>
    /\ UNCHANGED <<sessVars, workerVars, shutdown, netVars>>

DrainTransportEvents ==
    /\ sess \in {"open", "closed"}
    /\ drained' = drained \o events
    /\ events' = <<>>
    /\ UNCHANGED <<sessVars, workerVars, shutdown, netVars>>

\* The session value is dropped without logout or uninit, by
\* openim_session_destroy or where ensure_matches fails: shutdown_tx, event_rx
\* and the join handle go, the thread is detached, and a dropped shutdown_tx
\* does not count as a shutdown request.
DropResource ==
    /\ sess = "open"
    /\ sess' = "dropped"
    /\ events' = <<>>
    /\ UNCHANGED <<lastClose, closeErrs, workerVars, shutdown, netVars,
                   drained>>

-----------------------------------------------------------------------------
(* Worker thread *)

MutantSendEvent(e) ==
    events' = IF sess = "dropped" \/ e.type = "Disconnected"
                THEN events ELSE Append(events, e)

\* event_tx.send: fails silently once the receiver is dropped.
SendEvent(e) == events' = IF sess = "dropped" THEN events ELSE Append(events, e)

\* The worker returns; its end of every channel is dropped with it.
Exit(result) ==
    /\ worker' = "exited"
    /\ outcome' = result
    /\ link' = "down"

BuildRuntime ==
    /\ worker = "spawned"
    /\ \/ /\ worker' = "connecting"
          /\ UNCHANGED <<outcome, link>>
       \/ Exit("Err")
    /\ UNCHANGED <<sessVars, ready, shutdown, attempt, inbox, counts, events,
                   drained>>

\* NativeWsClient::connect: connect_stream, then read_initial_response.
ConnectStream ==
    /\ worker = "connecting"
    /\ \/ /\ worker' = "authing"
          /\ UNCHANGED <<outcome, ready, link>>
       \/ Exit("Err") /\ ready' = "err"
    /\ UNCHANGED <<sessVars, shutdown, attempt, inbox, counts, events, drained>>

ReadInitialResponse ==
    /\ worker = "authing"
    /\ \/ /\ worker' = "checking"
          /\ ready' = "ok"
          /\ link' = "up"
          /\ UNCHANGED outcome
       \/ Exit("Err") /\ ready' = "err"
    /\ UNCHANGED <<sessVars, shutdown, attempt, inbox, counts, events, drained>>

\* shutdown_requested at the head of the loop: try_recv takes the signal.
CheckShutdown ==
    /\ worker = "checking"
    /\ worker' = IF shutdown THEN "closing" ELSE "polling"
    /\ shutdown' = FALSE
    /\ UNCHANGED <<sessVars, outcome, ready, attempt, netVars, events, drained>>

\* recv_event yields a frame within the poll interval.
PollFrame ==
    /\ worker = "polling"
    /\ inbox # <<>>
    /\ inbox' = Tail(inbox)
    /\ LET frame == Head(inbox)
       IN  \/ /\ frame.type = "push"
              /\ SendEvent([type |-> "Push", id |-> frame.id])
              /\ worker' = "checking"
              /\ UNCHANGED <<outcome, attempt, link>>
           \/ /\ frame.type = "ping"               \* answered, not forwarded
              /\ worker' = "checking"
              /\ UNCHANGED <<outcome, attempt, link, events>>
           \/ /\ frame.type = "close"
              /\ SendEvent([type |-> "Disconnected", id |-> 0])
              /\ worker' = "dialing"
              /\ attempt' = 1
              /\ UNCHANGED <<outcome, link>>
           \/ /\ frame.type \in {"error", "ping"}  \* or the pong cannot be sent
              /\ Exit("Err")
              /\ UNCHANGED <<attempt, events>>
    /\ UNCHANGED <<sessVars, ready, shutdown, counts, drained>>

\* The poll interval elapses: timeout() polls recv_event before its timer, so
\* this happens only when no frame is waiting.
PollTimeout ==
    /\ worker = "polling"
    /\ inbox = <<>>
    /\ worker' = "checking"
    /\ UNCHANGED <<sessVars, outcome, ready, shutdown, attempt, netVars,
                   events, drained>>

\* The loop head of NativeWsClient::reconnect.
AttemptsExhausted == MaxAttempts > 0 /\ attempt > MaxAttempts

ReconnectGivesUp ==
    /\ worker = "dialing"
    /\ AttemptsExhausted
    /\ Exit("Err")
    /\ UNCHANGED <<sessVars, ready, shutdown, attempt, inbox, counts, events,
                   drained>>

ReconnectStream ==
    /\ worker = "dialing"
    /\ ~AttemptsExhausted
    /\ worker' \in {"reauthing", "sleeping"}
    /\ UNCHANGED <<sessVars, outcome, ready, shutdown, attempt, netVars,
                   events, drained>>

MutantReconnectSleep ==
    /\ worker = "sleeping"
    /\ worker' = "dialing"
    /\ UNCHANGED <<sessVars, outcome, ready, shutdown, attempt, netVars, events,
                   drained>>

\* The delay after a failed attempt, the last one included.
ReconnectSleep ==
    /\ worker = "sleeping"
    /\ worker' = "dialing"
    /\ attempt' = IF MaxAttempts = 0 THEN attempt ELSE attempt + 1
    /\ UNCHANGED <<sessVars, outcome, ready, shutdown, netVars, events,
                   drained>>

\* A rejected or missing initial response ends reconnect without a retry.
ReconnectInitialResponse ==
    /\ worker = "reauthing"
    /\ \/ /\ worker' = "checking"
          /\ link' = "up"
          /\ inbox' = <<>>
          /\ UNCHANGED outcome
       \/ /\ Exit("Err")
          /\ UNCHANGED inbox
    /\ UNCHANGED <<sessVars, ready, shutdown, attempt, counts, events, drained>>

CloseClient ==
    /\ worker = "closing"
    /\ \E result \in {"Ok", "Err"} : Exit(result)
    /\ UNCHANGED <<sessVars, ready, shutdown, attempt, inbox, counts, events,
                   drained>>

-----------------------------------------------------------------------------
(* Server and network *)

\* A message for this user: written to the websocket, or missed while the
\* connection is down.
ServerPush ==
    /\ pushed < MaxPushes
    /\ pushed' = pushed + 1
    /\ IF link = "up"
       THEN Len(inbox) < MaxInbox /\ inbox' = Append(inbox, Push(pushed + 1))
       ELSE UNCHANGED inbox
    /\ UNCHANGED <<sessVars, workerVars, shutdown, link, breaks, events,
                   drained>>

ServerPing ==
    /\ link = "up"
    /\ Len(inbox) < MaxInbox
    /\ inbox' = Append(inbox, Control("ping"))
    /\ UNCHANGED <<sessVars, workerVars, shutdown, link, counts, events,
                   drained>>

\* The connection ends: a close frame or end of stream, or else a read error
\* or a frame the client cannot decode.
LinkEnds ==
    /\ link = "up"
    /\ breaks < MaxBreaks
    /\ link' = "down"
    /\ breaks' = breaks + 1
    /\ \E type \in {"close", "error"} : inbox' = Append(inbox, Control(type))
    /\ UNCHANGED <<sessVars, workerVars, shutdown, pushed, events, drained>>

-----------------------------------------------------------------------------
SessionThread ==
    \/ Start \/ StartReturnsOk \/ StartReturnsErr
    \/ Close \/ JoinReturns \/ CloseAgain
    \/ DrainTransportEvents \/ DropResource

\* Worker steps that wait for nothing but the worker's own thread and timers.
WorkerLocal ==
    \/ BuildRuntime \/ CheckShutdown \/ PollFrame \/ PollTimeout
    \/ ReconnectGivesUp \/ ReconnectSleep \/ CloseClient

\* Worker steps that wait, without a timeout, for the server to answer.
WorkerRemote ==
    \/ ConnectStream \/ ReadInitialResponse
    \/ ReconnectStream \/ ReconnectInitialResponse

Environment == ServerPush \/ ServerPing \/ LinkEnds

Next == SessionThread \/ WorkerLocal \/ WorkerRemote \/ Environment

\* The operating system runs both threads: a thread that is not blocked runs.
ThreadFairness ==
    /\ WF_vars(StartReturnsOk \/ StartReturnsErr)
    /\ WF_vars(JoinReturns)
    /\ WF_vars(WorkerLocal)

\* The server answers every connection attempt, one way or the other.
ServerAnswers == WF_vars(WorkerRemote)

Spec == Init /\ [][Next]_vars /\ ThreadFairness /\ ServerAnswers

\* A server or a network that may stay silent for ever.
SilentServerSpec == Init /\ [][Next]_vars /\ ThreadFairness

-----------------------------------------------------------------------------
(* Properties *)

\* Every variable stays in its domain; reconnect never counts past one more
\* than ReconnectPolicy.max_attempts.
TypeOK ==
    /\ sess \in SessStates
    /\ lastClose \in {"none", "Ok", "Err"}
    /\ closeErrs \in Nat
    /\ worker \in WorkerStates
    /\ outcome \in {"none", "Ok", "Err"}
    /\ ready \in {"empty", "ok", "err"}
    /\ shutdown \in BOOLEAN
    /\ attempt \in 1..MaxAttempts + 1
    /\ link \in {"up", "down"}
    /\ inbox \in Seq(Frame)
    /\ pushed \in 0..MaxPushes
    /\ breaks \in 0..MaxBreaks
    /\ events \in Seq(WorkerEvent)
    /\ drained \in Seq(WorkerEvent)

\* When start_native_transport_task has returned an error, or close has
\* returned at all, the worker thread is gone: no thread of a finished login
\* is left reading the socket.
NoWorkerLeftBehind == sess \in {"failed", "closed"} => worker = "exited"

\* A login that got a transport resource got one whose websocket had been
\* accepted by the server, and a refused login has no websocket open.
OpenOnlyIfConnected ==
    /\ sess \in {"open", "joining", "closed", "dropped"} => ready = "ok"
    /\ sess \in {"none", "failed"} => link = "down"

\* The inductive invariant of the hand-over between the two threads: ready is
\* written exactly when the worker leaves its connection phase, close succeeds
\* or fails only once joined, and an exited worker has no connection.
HandoverInv ==
    /\ sess \in SessStates
    /\ worker \in WorkerStates
    /\ closeErrs \in Nat
    /\ sess = "none" <=> worker = "none"
    /\ worker \in {"none", "spawned", "connecting", "authing"} =>
          ready = "empty" /\ link = "down"
    /\ worker = "exited" => link = "down"
    /\ sess \in {"open", "joining", "closed", "dropped"} => ready = "ok"
    /\ sess \in {"failed", "closed"} => worker = "exited"
    /\ sess # "closed" => closeErrs = 0
    /\ closeErrs <= 1

\* close fails at most once in the life of a resource, so a logout that failed
\* on the transport succeeds on it when the application tries again.
CloseFailsAtMostOnce ==
    /\ closeErrs <= 1
    /\ closeErrs = 1 => sess = "closed"

\* The native transport keeps the promises of TransportResource: start_native_transport_task,
\* close, drain_transport_events and the worker behind them, at every interleaving of the two
\* threads, with a worker that ends at any moment and a session that drops its end of the
\* channels.
Resource == INSTANCE TransportResource WITH
                Event <- WorkerEvent, phase <- sess,
                running <- worker \notin {"none", "exited"}, accepted <- ready = "ok",
                waiting <- events, taken <- drained

ImplementsResource == Resource!Spec

\* The session sees pushes in the order the server sent them, each once, and a
\* hole in the sequence always has a Disconnected event in it: whoever drains
\* the events can tell when it has to pull missed messages.
GapsAreAnnounced == Resource!Gapless(drained \o events)

\* The session's blocking calls return.  start_native_transport_task hears from
\* the worker; and whatever the worker was doing when close sent the shutdown
\* signal, it notices the signal, closes the client and is joined.
CallsTerminate ==
    /\ (sess = "starting") ~> (sess \in {"open", "failed"})
    /\ (sess = "joining") ~> (sess = "closed")

\* A disconnected worker ends up connected again or gives up; it does not
\* keep dialling for ever.
ReconnectSettles ==
    (worker = "dialing") ~> (worker \in {"checking", "exited"})

=============================================================================
