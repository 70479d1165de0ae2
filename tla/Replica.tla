------------------------------- MODULE Replica -------------------------------
(***************************************************************************)
(* What a versioned sync promises, without saying how: a local copy of a   *)
(* list the server publishes version by version.  The copy is always that  *)
(* of one published position, and it only moves forward.  It may already   *)
(* lack an item that a later version removes; once it is at the newest     *)
(* position it is the server's list.                                       *)
(*                                                                         *)
(* A position is <<epoch, version>>: the server starts a new epoch when it *)
(* throws its change history away (VersionState.version_id).               *)
(***************************************************************************)
EXTENDS Integers

CONSTANTS Ids, Values, NoItem

VARIABLES published,  \* position -> the items at that position
          newest,     \* the server's position
          at,         \* the position of the copy
          items       \* the copy

vars == <<published, newest, at, items>>

Items == [Ids -> Values \cup {NoItem}]
Position == Nat \X Nat

Later(p, q) == \/ p[1] > q[1]
               \/ p[1] = q[1] /\ p[2] > q[2]

\* id is gone in some later version of p's epoch.
RemovedLater(pub, p, id) ==
    \E q \in DOMAIN pub :
        q[1] = p[1] /\ q[2] > p[2] /\ pub[q][id] = NoItem

Faithful(pub, p, copy) ==
    \A id \in Ids : \/ copy[id] = pub[p][id]
                    \/ copy[id] = NoItem /\ RemovedLater(pub, p, id)

Init ==
    /\ published = [p \in {<<0, 0>>} |-> [id \in Ids |-> NoItem]]
    /\ newest = <<0, 0>>
    /\ at = <<0, 0>>
    /\ items = [id \in Ids |-> NoItem]

Publish ==
    /\ newest' \in Position \ DOMAIN published
    /\ Later(newest', newest)
    /\ DOMAIN published' = DOMAIN published \cup {newest'}
    /\ published'[newest'] \in Items
    /\ \A p \in DOMAIN published : published'[p] = published[p]
    /\ UNCHANGED <<at, items>>

Advance ==
    /\ at' \in DOMAIN published
    /\ Later(at', at)
    /\ items' \in Items
    /\ Faithful(published, at', items')
    /\ UNCHANGED <<published, newest>>

Next == Publish \/ Advance

Spec == Init /\ [][Next]_vars
==============================================================================
