----------------------------- MODULE MessageFlow -----------------------------
(***************************************************************************)
(* Messages through a logged-in session: MessageService and                *)
(* ConversationService (crates/openim-domain) driven by send_message,      *)
(* pull_messages, receive_transport_pushes and pump_transport_events of    *)
(* OpenImSession (crates/openim-session/src/lib.rs).                       *)
(*                                                                         *)
(* The server's copy of message m is Attr[m].  Its kind is its content: a  *)
(* "text", the "empty" text, "typing", or "unsupported", a content or      *)
(* session type decode_transport_message does not know.                    *)
(***************************************************************************)
EXTENDS Conversations

CONSTANTS
    Msgs,           \* client message ids
    Attr,           \* the server's copy of each message
    MaxTraffic,     \* bound: sends, pulls and pushes
    Touchable,      \* bound: messages the application marks or revokes singly
    MaxChannel,     \* bound: push events waiting for pump_transport_events
    ServerMayErr    \* may acknowledgements lack a server id and late answers be pushed?

Kinds == {"text", "empty", "typing", "unsupported"}
Statuses == {"None", "Sending", "SendSuccess", "SendFailed", "HasDeleted"}

ASSUME FlowConstants ==
    /\ NoMsg \notin Msgs
    /\ IsFiniteSet(Convs)
    /\ MaxTraffic \in Nat
    /\ MaxChannel \in Nat
    /\ ServerMayErr \in BOOLEAN
    /\ Touchable \subseteq Msgs
    /\ \A m \in Msgs : /\ Attr[m].kind \in Kinds
                       /\ Attr[m].seq \in Nat \ {0}
                       /\ Attr[m].time \in Nat
                       /\ Attr[m].read \in BOOLEAN
                       /\ Attr[m].status \in Statuses

\* Where message m belongs.
Route(m) == RouteTarget(Attr[m].sender, Attr[m].target, Attr[m].type)

\* The server stamps the messages of a conversation in the order it numbers
\* them.
ASSUME SeqAndTimeAgree ==
    \A m, n \in Msgs :
        (Route(m).conv = Route(n).conv /\ Attr[m].seq < Attr[n].seq)
        => Attr[m].time < Attr[n].time

VARIABLES
    messages,    \* MessageService.messages by client id
    convs,       \* ConversationService.conversations of the owner
    channel,     \* push events the transport worker has queued
    traffic,     \* number of sends, pulls and pushes so far
    \* history
    projected,   \* [id, seq] applied to each conversation since it was created
    fresh,       \* unread messages applied to it since it was last marked read
    applied,     \* messages ever applied to a conversation
    drained,     \* visible texts taken out of channel
    announced,   \* ids that went out in NewMessages
    halfDone,    \* messages the last call that stored them returned an error for
    shown,       \* the conversations an application following the events shows
    shownTotal   \* the last total unread count it knows

vars == <<messages, convs, channel, traffic, projected, fresh, applied, drained,
          announced, halfDone, shown, shownTotal>>

\* decode_transport_message: typing is dropped; an unsupported type is an error, and so is
\* an empty text, which ChatMessage::incoming validates.
Fails(m) == Attr[m].kind \in {"unsupported", "empty"}
Texts == {m \in Msgs : Attr[m].kind \in {"text", "empty"}}

NoMessage == [status |-> "None", read |-> FALSE, revoked |-> FALSE]

\* A message as the server delivers it.
Incoming(m) ==
    [id |-> m, type |-> Attr[m].type, sender |-> Attr[m].sender,
     recv |-> Route(m).recv, group |-> Route(m).group, conv |-> Route(m).conv,
     content |-> Attr[m].kind, seq |-> Attr[m].seq, time |-> Attr[m].time,
     read |-> Attr[m].read, revoked |-> FALSE, status |-> Attr[m].status]

\* MessageContent::validate
ValidContent(m) == m.content # "empty"

\* validate_message
ValidMessage(m) == m.conv = ConversationIdByMessage(m) /\ ValidContent(m)

\* ensure_message_visible_to_owner: any group message passes.
VisibleToOwner(m) == m.sender = Owner \/ m.recv = Owner \/ m.group # ""

ASSUME ConvsOfOwner == \A m \in Msgs : VisibleToOwner(Incoming(m)) => Route(m).conv \in Convs

\* ensure_outgoing_owner, on messages the application builds.
OwnMsgs == {m \in Msgs : Attr[m].kind = "text" /\ Attr[m].sender = Owner}

\* What the properties need of a stored message.
Stored(m) == [status |-> m.status, read |-> m.read, revoked |-> m.revoked]

\* receive_message: a message that arrives has been sent.
Received(m) == [m EXCEPT !.status = IF @ = "Sending" THEN "SendSuccess" ELSE @]

\* The inserts of upsert_message, and the inserts and updates of sync_message_range: the
\* incoming record replaces what is stored under its key.
StoreAll(ms) ==
    [id \in Msgs |->
        LET at == {i \in DOMAIN ms : ms[i].id = id}
        IN  IF at = {} THEN messages[id] ELSE Stored(ms[Max(at)])]

Init ==
    /\ messages = [m \in Msgs |-> NoMessage]
    /\ convs = [c \in Convs |-> NoConversation]
    /\ channel = <<>>
    /\ traffic = 0
    /\ projected = [c \in Convs |-> {}]
    /\ fresh = [c \in Convs |-> {}]
    /\ applied = {}
    /\ drained = {}
    /\ announced = {}
    /\ halfDone = {}
    /\ shown = [c \in Convs |-> NoConversation]
    /\ shownTotal = TotalUnread(convs)

-----------------------------------------------------------------------------
(* Projection and events *)

\* session_event_name and session_event_payload_json of the C ABI.
EventName(type) ==
    [NewMessages |-> "newMessages", NewConversations |-> "newConversations",
     ConversationChanged |-> "conversationChanged",
     TotalUnreadCountChanged |-> "totalUnreadCountChanged"][type]
EventPayload(type, data) ==
    CASE type = "NewMessages" -> [messages |-> data]
      [] type = "TotalUnreadCountChanged" -> [totalUnreadCount |-> data]
      [] OTHER -> [conversations |-> data]

GoListenerDispatch(method, data) == [method |-> method, data |-> data]

\* map_session_event_payload_to_go_listener_dispatches: one OnRecvNewMessage for each
\* message, one call for a list of conversations.
MapToGoListener(name, payload) ==
    CASE name = "newMessages" ->
            {GoListenerDispatch("OnRecvNewMessage", m) : m \in Range(payload.messages)}
      [] name = "newConversations" ->
            {GoListenerDispatch("OnNewConversation", payload.conversations)}
      [] name = "conversationChanged" ->
            {GoListenerDispatch("OnConversationChanged", payload.conversations)}
      [] name = "totalUnreadCountChanged" ->
            {GoListenerDispatch("OnTotalUnreadMessageCountChanged", payload.totalUnreadCount)}

\* What a Go listener on the C ABI is called with for an event of the session.
Dispatched(type, data) == MapToGoListener(EventName(type), EventPayload(type, data))

\* dispatch_new_conversations, dispatch_conversation_changed and
\* dispatch_total_unread_count_changed, on what the batch has to tell.
DispatchNewConversations(batch) ==
    IF batch.new = {} THEN {} ELSE Dispatched("NewConversations", batch.new)
DispatchConversationChanged(batch) ==
    IF batch.changed = {} THEN {} ELSE Dispatched("ConversationChanged", batch.changed)
DispatchTotalUnread(total) ==
    IF total = TotalUnread(convs) THEN {} ELSE Dispatched("TotalUnreadCountChanged", total)

Tells(dispatches, method, c) ==
    \E d \in dispatches : d.method = method /\ c \in d.data

\* apply_messages_to_conversations followed by dispatch_conversation_events.
\* NewConversations and ConversationChanged carry the conversations as they
\* are after the batch; TotalUnreadCountChanged goes out if the batch moved
\* the total.  The application, a Go listener, adds a row for a new
\* conversation it does not show yet and updates the row of a changed one it
\* shows; an event filed under the wrong heading is no use to it.
Project(ms) ==
    LET batch == ApplyMessages(convs, ms)
        of(c) == {i \in DOMAIN ms : ms[i].conv = c}
        news == DispatchNewConversations(batch)
        changes == DispatchConversationChanged(batch)
        totals == DispatchTotalUnread(TotalUnread(batch.convs))
        isNew(c) == Tells(news, "OnNewConversation", c)
        isChanged(c) == Tells(changes, "OnConversationChanged", c)
    IN  /\ convs' = batch.convs
        /\ shown' = [c \in Convs |->
              IF \/ isNew(c) /\ ~isChanged(c) /\ ~shown[c].exists
                 \/ isChanged(c) /\ ~isNew(c) /\ shown[c].exists
              THEN batch.convs[c] ELSE shown[c]]
        /\ shownTotal' = IF totals = {} THEN shownTotal
                         ELSE (CHOOSE d \in totals : TRUE).data
        /\ projected' = [c \in Convs |->
              projected[c] \cup {[id |-> ms[i].id, seq |-> ms[i].seq] :
                                   i \in of(c)}]
        /\ fresh' = [c \in Convs |->
              fresh[c] \cup {ms[i].id : i \in {j \in of(c) :
                                /\ Attr[ms[j].id].sender # Owner
                                /\ ~Attr[ms[j].id].read}}]
        /\ applied' = applied \cup {ms[i].id : i \in DOMAIN ms}

NothingProjected ==
    UNCHANGED <<convs, shown, shownTotal, projected, fresh, applied>>

\* dispatch_new_messages.
Announce(ms) ==
    LET ids == [i \in DOMAIN ms |-> ms[i].id]
    IN  announced' = announced \cup {d.data : d \in Dispatched("NewMessages", ids)}

-----------------------------------------------------------------------------
(* Sending *)

\* MessageService::send_message stores the message as Sending and calls the
\* transport.  An acknowledgement carries the sequence number or 0.
SendSucceeds(m) ==
    \E seq \in {0, Attr[m].seq} :
        LET sent == [Incoming(m) EXCEPT !.seq = seq, !.read = TRUE, !.status = "SendSuccess"]
        IN  /\ messages' = [messages EXCEPT ![m] = Stored(sent)]
            /\ halfDone' = halfDone \ {m}
            /\ Project(<<sent>>)

\* ack_send_success refuses an empty server id after the message was stored.
SendAckInvalid(m) ==
    /\ ServerMayErr
    /\ messages' = [messages EXCEPT ![m] =
                      [NoMessage EXCEPT !.status = "Sending", !.read = TRUE]]
    /\ halfDone' = halfDone \cup {m}
    /\ NothingProjected

\* mark_send_failed.
SendFails(m) ==
    /\ messages' = [messages EXCEPT ![m] =
                      [NoMessage EXCEPT !.status = "SendFailed", !.read = TRUE]]
    /\ halfDone' = halfDone \cup {m}
    /\ NothingProjected

SendMessage(m) ==
    /\ m \in OwnMsgs
    /\ traffic < MaxTraffic
    /\ traffic' = traffic + 1
    /\ SendSucceeds(m) \/ SendAckInvalid(m) \/ SendFails(m)
    /\ UNCHANGED <<channel, drained, announced>>

-----------------------------------------------------------------------------
(* Receiving *)

\* pull_messages: every message is checked before the first one is stored, so
\* a batch with an invisible or invalid message or a message of another
\* conversation changes nothing.
PullMessages(c, ids) ==
    LET ms == [i \in DOMAIN ids |-> Incoming(ids[i])]
    IN  /\ traffic < MaxTraffic
        /\ traffic' = traffic + 1
        /\ IF \A i \in DOMAIN ms :
                VisibleToOwner(ms[i]) /\ ValidMessage(ms[i]) /\ ms[i].conv = c
           THEN /\ messages' = StoreAll(ms)
                /\ halfDone' = halfDone \ Range(ids)
                /\ Project(ms)
                /\ Announce(ms)
           ELSE UNCHANGED <<messages, announced, halfDone>> /\ NothingProjected
        /\ UNCHANGED <<channel, drained>>

\* What the loop of apply_transport_messages lets through.
Acceptable(m) == VisibleToOwner(m) /\ ValidMessage(m)

MutantApplyTransportMessages(pushed) ==
    LET refused == {i \in DOMAIN pushed : ~Acceptable(pushed[i])}
        ms == [i \in DOMAIN pushed |-> Received(pushed[i])]
    IN  IF refused = {}
        THEN /\ messages' = StoreAll(ms)
             /\ halfDone' = halfDone \ {ms[i].id : i \in DOMAIN ms}
             /\ Project(ms)
             /\ Announce(ms)
        ELSE /\ messages' = StoreAll(SubSeq(ms, 1, Min(refused)))
             /\ halfDone' = halfDone \cup {ms[i].id : i \in 1..Min(refused)}
             /\ UNCHANGED announced
             /\ NothingProjected

MutantSkipKnownMessages(pushed) ==
    LET refused == {i \in DOMAIN pushed : ~Acceptable(pushed[i])}
        ms == [i \in DOMAIN pushed |-> Received(pushed[i])]
        unknown == SelectSeq(ms, LAMBDA m : messages[m.id].status = "None")
    IN  IF refused = {}
        THEN /\ messages' = StoreAll(ms)
             /\ halfDone' = halfDone \ {ms[i].id : i \in DOMAIN ms}
             /\ Project(unknown)
             /\ Announce(unknown)
        ELSE /\ messages' = StoreAll(SubSeq(ms, 1, Min(refused) - 1))
             /\ halfDone' = halfDone \cup {ms[i].id : i \in 1..(Min(refused) - 1)}
             /\ UNCHANGED announced
             /\ NothingProjected

\* apply_transport_messages: messages are checked and stored one by one; the first that is
\* refused ends the call with the earlier ones stored and not projected.
ApplyTransportMessages(pushed) ==
    LET refused == {i \in DOMAIN pushed : ~Acceptable(pushed[i])}
        ms == [i \in DOMAIN pushed |-> Received(pushed[i])]
    IN  IF refused = {}
        THEN /\ messages' = StoreAll(ms)
             /\ halfDone' = halfDone \ {ms[i].id : i \in DOMAIN ms}
             /\ Project(ms)
             /\ Announce(ms)
        ELSE /\ messages' = StoreAll(SubSeq(ms, 1, Min(refused) - 1))
             /\ halfDone' = halfDone \cup {ms[i].id : i \in 1..(Min(refused) - 1)}
             /\ UNCHANGED announced
             /\ NothingProjected

\* receive_transport_pushes: the transport hands over decoded messages.
ReceiveTransportPushes(ids) ==
    LET ms == [i \in DOMAIN ids |-> Incoming(ids[i])]
    IN  /\ traffic < MaxTraffic
        /\ traffic' = traffic + 1
        /\ \A i \in DOMAIN ids : ids[i] \in Texts
        /\ ApplyTransportMessages(ms)
        /\ UNCHANGED <<channel, drained>>

\* The worker queues a push: a bag of messages, or a late answer that route_envelope took
\* for one and that reports an error.
PushArrives(event) ==
    /\ traffic < MaxTraffic
    /\ traffic' = traffic + 1
    /\ Len(channel) < MaxChannel
    /\ channel' = Append(channel, event)
    /\ UNCHANGED <<messages, drained, announced, halfDone>>
    /\ NothingProjected

\* ensure_success_response
Succeeds(event) == ~event.err

\* append_pull_messages_map: what a push carries for each conversation, in any order.
PullMessagesMap(byConversation) == UNION Range(byConversation)

Later(m, n) == \/ Attr[m].seq > Attr[n].seq
               \/ Attr[m].seq = Attr[n].seq /\ Attr[m].time > Attr[n].time

\* decode_push_messages_response: messages and notices of a push by seq and send time, and
\* in some order of the client ids where these are equal.
DecodePush(event) ==
    LET ids == PullMessagesMap(event.msgs) \cup PullMessagesMap(event.notices)
    IN  CHOOSE order \in [1..Cardinality(ids) -> ids] :
            \A i, j \in DOMAIN order :
                i < j => order[i] # order[j] /\ ~Later(order[i], order[j])

\* decode_transport_message drops the typing notices.
TextsOf(ids) ==
    LET texts[i \in 0..Len(ids)] ==
            IF i = 0 THEN <<>>
            ELSE IF ids[i] \in Texts THEN Append(texts[i - 1], ids[i]) ELSE texts[i - 1]
    IN  texts[Len(ids)]

\* pump_transport_events: drain the channel, decode everything, then apply.
\* One event or message that does not decode fails the call after the drain.
PumpTransportEvents ==
    LET ids == FlattenSeq([i \in DOMAIN channel |-> DecodePush(channel[i])])
        texts == TextsOf(ids)
    IN  /\ channel # <<>>
        /\ channel' = <<>>
        /\ drained' = drained \cup {m \in Range(ids) : Acceptable(Incoming(m)) /\ m \in Texts}
        /\ IF \/ \E i \in DOMAIN channel : ~Succeeds(channel[i])
              \/ \E m \in Range(ids) : Fails(m)
           THEN UNCHANGED <<messages, announced, halfDone>> /\ NothingProjected
           ELSE ApplyTransportMessages([i \in DOMAIN texts |-> Incoming(texts[i])])
        /\ UNCHANGED <<traffic>>

-----------------------------------------------------------------------------
(* The application, through domains_mut *)

\* ConversationService::mark_conversation_read; no event, messages untouched.
MarkConversationRead(c) ==
    /\ convs[c].exists
    /\ convs' = [convs EXCEPT ![c].unread = 0]
    /\ shown' = [shown EXCEPT ![c].unread = 0]
    /\ shownTotal' = TotalUnread(convs')
    /\ fresh' = [fresh EXCEPT ![c] = {}]
    /\ UNCHANGED <<messages, channel, traffic, projected, applied, drained,
                   announced, halfDone>>

\* message_mut finds it.
MessageMut(m) == messages[m].status # "None"

\* MessageService::revoke_message.
RevokeMessage(m) ==
    /\ m \in Touchable
    /\ MessageMut(m)
    /\ messages' = [messages EXCEPT ![m].revoked = TRUE,
                                    ![m].status = "HasDeleted"]
    /\ UNCHANGED <<channel, traffic, drained, announced, halfDone>>
    /\ NothingProjected

\* MessageService::mark_read: one message, its conversation untouched.
MarkRead(m) ==
    /\ m \in Touchable
    /\ MessageMut(m)
    /\ messages' = [messages EXCEPT ![m].read = TRUE]
    /\ UNCHANGED <<channel, traffic, drained, announced, halfDone>>
    /\ NothingProjected

\* ConversationService::mark_all_read.
MarkAllRead ==
    /\ \E c \in Convs : convs[c].exists
    /\ convs' = [c \in Convs |-> [convs[c] EXCEPT !.unread = 0]]
    /\ shown' = [c \in Convs |-> [shown[c] EXCEPT !.unread = 0]]
    /\ shownTotal' = TotalUnread(convs')
    /\ fresh' = [c \in Convs |-> {}]
    /\ UNCHANGED <<messages, channel, traffic, projected, applied, drained,
                   announced, halfDone>>

\* ConversationService::delete_conversation; messages stay.
DeleteConversation(c) ==
    /\ convs[c].exists
    /\ convs' = [convs EXCEPT ![c] = NoConversation]
    /\ shown' = [shown EXCEPT ![c] = NoConversation]
    /\ shownTotal' = TotalUnread(convs')
    /\ projected' = [projected EXCEPT ![c] = {}]
    /\ fresh' = [fresh EXCEPT ![c] = {}]
    /\ UNCHANGED <<messages, channel, traffic, applied, drained,
                   announced, halfDone>>

\* What one delivery may carry: one or two different messages.
Batches(S) == {<<m>> : m \in S} \cup {b \in S \X S : b[1] # b[2]}
ByConversation(ids) == [c \in {Route(m).conv : m \in ids} |-> {m \in ids : Route(m).conv = c}]
PushEvent(ids) ==
    [err |-> FALSE, msgs |-> ByConversation({m \in ids : Attr[m].kind # "typing"}),
     notices |-> ByConversation({m \in ids : Attr[m].kind = "typing"})]
PushEvents ==
    {PushEvent({m, n}) : m, n \in Msgs}
      \cup (IF ServerMayErr THEN {[PushEvent({}) EXCEPT !.err = TRUE]} ELSE {})

Next ==
    \/ \E m \in Msgs : SendMessage(m) \/ RevokeMessage(m) \/ MarkRead(m)
    \/ MarkAllRead
    \/ \E c \in Convs, ids \in Batches(Texts) : PullMessages(c, ids)
    \/ \E ids \in Batches(Texts) : ReceiveTransportPushes(ids)
    \/ \E event \in PushEvents : PushArrives(event)
    \/ PumpTransportEvents
    \/ \E c \in Convs : MarkConversationRead(c) \/ DeleteConversation(c)

Spec == Init /\ [][Next]_vars

-----------------------------------------------------------------------------
(* Properties *)

\* The names a conversation can have.
Targets == {""} \cup {ConversationTarget(Incoming(m)) : m \in Msgs}

MessageRecord == [status: Statuses, read: BOOLEAN, revoked: BOOLEAN]
ConversationRecord ==
    [exists: BOOLEAN, target: Targets, maxSeq: Nat, unread: Nat,
     latest: [id: Msgs \cup {NoMsg}, seq: Nat, time: Nat]]

\* Every variable stays in its domain; a conversation that is not in the map
\* leaves no unread count or latest message behind.
TypeOK ==
    /\ messages \in [Msgs -> MessageRecord]
    /\ convs \in [Convs -> ConversationRecord]
    /\ \A c \in Convs : convs[c].exists \/ convs[c] = NoConversation
    /\ \A i \in DOMAIN channel : Range(DecodePush(channel[i])) \subseteq Msgs
    /\ traffic \in 0..MaxTraffic
    /\ fresh \in [Convs -> SUBSET Msgs]
    /\ applied \subseteq Msgs
    /\ drained \subseteq Msgs
    /\ announced \subseteq Msgs
    /\ halfDone \subseteq Msgs
    /\ shown \in [Convs -> ConversationRecord]
    /\ shownTotal \in Nat

\* Whatever the order in which sends, pulls and pushes reach apply_message,
\* replayed and out-of-order ones included, a conversation shows the last of
\* its messages and the highest sequence number.
LatestIsNewest ==
    \A c \in Convs : convs[c].exists =>
        /\ convs[c].maxSeq = Max({p.seq : p \in projected[c]})
        /\ \E p \in projected[c] :
              /\ convs[c].latest = [id |-> p.id, seq |-> p.seq,
                                    time |-> Attr[p.id].time]
              /\ \A q \in projected[c] : Attr[q.id].time <= Attr[p.id].time

\* An application that only follows the events of the session and its own
\* calls shows exactly the stored conversations and their total: nothing
\* changes without an event, also when a call fails half way.  It was also told
\* of every message of somebody else that shows up in a conversation.
EventsKeepUpWithConversations ==
    /\ shown = convs
    /\ shownTotal = TotalUnread(convs)
    /\ \A m \in applied : Attr[m].sender # Owner => m \in announced

\* No unread message goes missing from the counter: it is at least the number
\* of distinct unread messages that arrived since it was last reset.
UnreadNeverUndercounts ==
    \A c \in Convs : convs[c].unread >= Cardinality(fresh[c])

\* Messages of other people are only stored when they are addressed to the
\* owner, whichever of the three ways they come in by.
OnlyVisibleMessagesStored ==
    \A m \in Msgs : messages[m].status # "None" => Acceptable(Incoming(m)) /\ m \in Texts

\* Whoever wrote the message that created it, a conversation is headed by the other end of
\* the chat or by the group, also when it is created by the owner's own message coming
\* back from another device; by the owner only where he is alone.
ConversationsShowThePeer ==
    \A c \in Convs : convs[c].exists =>
        /\ convs[c].target \in c[2]
        /\ convs[c].target = Owner => c[2] = {Owner}

\* A message is in the store and in no conversation only if the last call that stored it
\* returned an error: its send failed or was acknowledged without an id, or a later message
\* of its batch was refused.  A call that takes it in again makes up for it, and the
\* application is told of no message that its conversation was not given.
StoredMessagesAccountedFor ==
    /\ \A m \in Msgs : messages[m].status # "None" => m \in applied \cup halfDone
    /\ announced \subseteq applied

\* send_message advances its message to SendSuccess by the acknowledgement and lands it in
\* SendFailed when sending failed: no call returns with one still in Sending.
SentMessagesSettle == \A m \in OwnMsgs : messages[m].status # "Sending"

\* A text message taken out of the worker's channel is in the message store.
DrainedTextsStored == \A m \in drained : messages[m].status # "None"

=============================================================================
