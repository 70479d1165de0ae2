---------------------------- MODULE MCMessageFlow ----------------------------
(***************************************************************************)
(* A single chat with two messages of a peer around one of the owner, a    *)
(* group with one message, and the messages that are not stored: a typing  *)
(* notice, a picture, an empty text and a text between two other people.   *)
(***************************************************************************)
EXTENDS MessageFlow

MCConvs ==
    {ConversationIdBySessionType("me", "peer", "Single"),
     ConversationIdBySessionType("me", "team", "ReadGroup")}

AllMsgs == {"p1", "own", "p3", "g1", "typing", "picture", "empty", "foreign"}

\* Of the picture and the empty text, which both fail to decode, one is enough.
MCMsgs == AllMsgs \ {"picture"}
MCMsgsWithPicture == AllMsgs \ {"empty"}

Message(sender, target, seq, time, kind) ==
    [sender |-> sender, target |-> target, seq |-> seq, time |-> time, kind |-> kind,
     type |-> IF target = "team" THEN "ReadGroup" ELSE "Single",
     read |-> FALSE, status |-> "SendSuccess"]

MCAttr ==
    [m \in AllMsgs |->
        CASE m = "p1" -> [Message("peer", "me", 1, 10, "text") EXCEPT !.status = "Sending"]
          [] m = "own" -> Message("me", "peer", 2, 20, "text")
          [] m = "p3" -> Message("peer", "me", 3, 30, "text")
          [] m = "g1" -> Message("peer", "team", 1, 15, "text")
          [] m = "typing" -> Message("peer", "me", 4, 40, "typing")
          [] m = "picture" -> Message("peer", "me", 5, 50, "unsupported")
          [] m = "empty" -> Message("peer", "me", 6, 60, "empty")
          [] m = "foreign" -> Message("peer", "other", 1, 60, "text")]
=============================================================================
