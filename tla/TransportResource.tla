-------------------------- MODULE TransportResource ---------------------------
(***************************************************************************)
(* What the session may rely on when it holds a transport: the thread,     *)
(* the websocket and the channels behind it are one flag (running) and one *)
(* queue (waiting).                                                        *)
(*                                                                         *)
(* A resource is open only if the server accepted its connection, is       *)
(* refused or closed only when nothing runs any more, may fail to close    *)
(* once, and hands over pushes in the order of the server: where some are  *)
(* missing there is a Disconnected event among them.                       *)
(***************************************************************************)
EXTENDS Naturals, Sequences

CONSTANT Event  \* the records [type, id] a transport may hand over

VARIABLES
    phase,     \* where the session is in the resource's life
    lastClose, \* what the last call of close returned
    running,   \* does anything run for this resource?
    accepted,  \* did the server accept its first connection?
    waiting,   \* events not drained yet
    taken      \* history: everything the session has drained

vars == <<phase, lastClose, running, accepted, waiting, taken>>

Gapless(s) ==
    /\ \A i, j \in DOMAIN s :
          (i < j /\ \A k \in i..j : s[k].type = "Push") => s[j].id = s[i].id + (j - i)
    /\ \A i, j \in DOMAIN s :
          (i < j /\ s[i].type = "Push" /\ s[j].type = "Push") => s[i].id < s[j].id

Init ==
    /\ phase = "none"
    /\ lastClose = "none"
    /\ running = FALSE
    /\ accepted = FALSE
    /\ waiting = <<>>
    /\ taken = <<>>

-----------------------------------------------------------------------------
(* The session's calls *)

Start ==
    /\ phase = "none"
    /\ phase' = "starting"
    /\ running' = TRUE
    /\ UNCHANGED <<lastClose, accepted, waiting, taken>>

Opens ==
    /\ phase = "starting" /\ accepted
    /\ phase' = "open"
    /\ UNCHANGED <<lastClose, running, accepted, waiting, taken>>

Refused ==
    /\ phase = "starting" /\ ~accepted /\ ~running
    /\ phase' = "failed"
    /\ UNCHANGED <<lastClose, running, accepted, waiting, taken>>

Close ==
    /\ phase = "open"
    /\ phase' = "joining"
    /\ UNCHANGED <<lastClose, running, accepted, waiting, taken>>

Closed ==
    /\ phase = "joining" /\ ~running
    /\ phase' = "closed"
    /\ lastClose' \in {"Ok", "Err"}
    /\ UNCHANGED <<running, accepted, waiting, taken>>

CloseAgain ==
    /\ phase = "closed"
    /\ lastClose' = "Ok"
    /\ UNCHANGED <<phase, running, accepted, waiting, taken>>

Drain ==
    /\ phase \in {"open", "closed"}
    /\ taken' = taken \o waiting
    /\ waiting' = <<>>
    /\ UNCHANGED <<phase, lastClose, running, accepted>>

Drop ==
    /\ phase = "open"
    /\ phase' = "dropped"
    /\ waiting' = <<>>
    /\ UNCHANGED <<lastClose, running, accepted, taken>>

-----------------------------------------------------------------------------
(* What runs behind it *)

Accept ==
    /\ phase = "starting" /\ running /\ ~accepted
    /\ accepted' = TRUE
    /\ UNCHANGED <<phase, lastClose, running, waiting, taken>>

Deliver ==
    /\ phase \in {"starting", "open", "joining"} /\ running /\ accepted
    /\ \E e \in Event : waiting' = Append(waiting, e)
    /\ Gapless(taken' \o waiting')
    /\ UNCHANGED <<phase, lastClose, running, accepted, taken>>

Stop ==
    /\ running
    /\ running' = FALSE
    /\ UNCHANGED <<phase, lastClose, accepted, waiting, taken>>

Next ==
    \/ Start \/ Opens \/ Refused \/ Close \/ Closed \/ CloseAgain \/ Drain \/ Drop
    \/ Accept \/ Deliver \/ Stop

Spec == Init /\ [][Next]_vars

==============================================================================
