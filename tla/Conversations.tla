---------------------------- MODULE Conversations ----------------------------
(***************************************************************************)
(* The projection of messages onto conversations: ConversationService::    *)
(* apply_message (crates/openim-domain/src/conversation.rs) and the batch  *)
(* OpenImSession::apply_messages_to_conversations builds from it           *)
(* (crates/openim-session/src/lib.rs).  Pure operators, no state.          *)
(*                                                                         *)
(* A message is [id, type, sender, recv, group, conv, content, seq, time,  *)
(* read, revoked, status].  A conversation that is not in the map has      *)
(* exists = FALSE.  Face urls, drafts and pins play no part in the         *)
(* projection, and unread counts stay far below the u32 limit where        *)
(* apply_message saturates.                                                *)
(*                                                                         *)
(* A definition named Mutant... is a wrong version of the definition that  *)
(* follows it, kept to show that the properties notice the mistake.        *)
(***************************************************************************)
EXTENDS Integers, Sequences, FiniteSets, FiniteSetsExt, SequencesExt

CONSTANTS Owner,  \* the login user
          Convs,  \* conversation ids
          NoMsg   \* latest_message = None

IsSingle(type) == type \in {"Single", "Notification"}

\* conversation_id_by_session_type: both ends of a single chat get the same id, whoever
\* sends; a group's id is made of the group alone.
ConversationIdBySessionType(sender, target, type) ==
    <<type, IF IsSingle(type) THEN {sender, target} ELSE {target}>>

\* conversation_id_by_message
ConversationIdByMessage(m) ==
    ConversationIdBySessionType(m.sender, IF IsSingle(m.type) THEN m.recv ELSE m.group, m.type)

\* route_target: the conversation, and the receiver or the group ("" is the other).
RouteTarget(sender, target, type) ==
    [conv  |-> ConversationIdBySessionType(sender, target, type),
     recv  |-> IF IsSingle(type) THEN target ELSE "",
     group |-> IF IsSingle(type) THEN "" ELSE target]

NoLatest == [id |-> NoMsg, seq |-> 0, time |-> 0]

\* From<&ChatMessage> for MessageSnapshot; type and summary play no part.
Snapshot(m) == [id |-> m.id, seq |-> m.seq, time |-> m.time]

NoConversation ==
    [exists |-> FALSE, target |-> "", maxSeq |-> 0, unread |-> 0, latest |-> NoLatest]

MutantConversationTarget(m) == IF IsSingle(m.type) THEN m.sender ELSE m.group

\* conversation_target: the group, or the other end of the chat.
ConversationTarget(m) ==
    IF IsSingle(m.type) THEN IF m.sender = Owner THEN m.recv ELSE m.sender
    ELSE m.group

\* ConversationInfo::from_message.
FromMessage(m) ==
    [NoConversation EXCEPT !.exists = TRUE, !.target = ConversationTarget(m)]

MutantShouldReplaceLatest(conversation, m) == TRUE

\* should_replace_latest: by seq when both messages have one, else by time.
ShouldReplaceLatest(conversation, m) ==
    LET latest == conversation.latest
    IN  \/ latest = NoLatest
        \/ /\ m.seq > 0 /\ latest.seq > 0
           /\ \/ m.seq > latest.seq
              \/ m.seq = latest.seq /\ m.time >= latest.time
        \/ /\ ~(m.seq > 0 /\ latest.seq > 0)
           /\ m.time >= latest.time

CountsAsUnread(m) == m.sender # Owner /\ ~m.read /\ ~m.revoked

MutantApplyMessage(entry, m) ==
    LET conversation == IF entry.exists THEN entry ELSE FromMessage(m)
        newer == m.seq > conversation.maxSeq
    IN  [exists |-> TRUE, target |-> conversation.target,
         maxSeq |-> IF newer THEN m.seq ELSE conversation.maxSeq,
         latest |-> IF ShouldReplaceLatest(conversation, m)
                      THEN Snapshot(m)
                      ELSE conversation.latest,
         unread |-> IF CountsAsUnread(m) /\ newer
                      THEN conversation.unread + 1 ELSE conversation.unread]

\* ConversationService::apply_message on the entry of m's conversation.
ApplyMessage(entry, m) ==
    LET conversation == IF entry.exists THEN entry ELSE FromMessage(m)
    IN  [exists |-> TRUE, target |-> conversation.target,
         maxSeq |-> IF m.seq > conversation.maxSeq
                      THEN m.seq ELSE conversation.maxSeq,
         latest |-> IF ShouldReplaceLatest(conversation, m)
                      THEN Snapshot(m)
                      ELSE conversation.latest,
         unread |-> IF CountsAsUnread(m)
                      THEN conversation.unread + 1 ELSE conversation.unread]

\* total_unread_count of the owner.
TotalUnread(convs) == MapThenSumSet(LAMBDA c : convs[c].unread, Convs)

MutantApplyToBatch(batch, m) ==
    LET isNew == ~batch.convs[m.conv].exists
    IN  [convs   |-> [batch.convs EXCEPT ![m.conv] = ApplyMessage(@, m)],
         new     |-> IF isNew THEN batch.new \cup {m.conv} ELSE batch.new,
         changed |-> IF isNew THEN batch.changed
                              ELSE batch.changed \cup {m.conv}]

\* One turn of the loop of apply_messages_to_conversations: project the message
\* and remember whether its conversation is new in this batch or was changed.
ApplyToBatch(batch, m) ==
    LET isNew == ~batch.convs[m.conv].exists \/ m.conv \in batch.new
    IN  [convs   |-> [batch.convs EXCEPT ![m.conv] = ApplyMessage(@, m)],
         new     |-> IF isNew THEN batch.new \cup {m.conv} ELSE batch.new,
         changed |-> IF isNew THEN batch.changed \ {m.conv}
                              ELSE batch.changed \cup {m.conv}]

\* apply_messages_to_conversations: the conversations after the batch, the ids
\* for NewConversations and for ConversationChanged.
ApplyMessages(convs, ms) ==
    LET batch[i \in 0..Len(ms)] ==
            IF i = 0 THEN [convs |-> convs, new |-> {}, changed |-> {}]
            ELSE ApplyToBatch(batch[i - 1], ms[i])
    IN  batch[Len(ms)]

=============================================================================
