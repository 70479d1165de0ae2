----------------------------- MODULE RequestLife ------------------------------
(***************************************************************************)
(* What a websocket client promises for the requests sent through it,      *)
(* without frames, sockets or calls.  A request is awaited from the moment *)
(* it is issued.  Its answer is handed to the caller, at once or after it  *)
(* was kept while the caller waited for another one; or its time is over,  *)
(* which the caller may or may not be told; or its connection goes, and    *)
(* nobody hears of it again.  Nothing leads back: a request that is        *)
(* neither awaited nor kept stays so, and nobody is told twice.            *)
(***************************************************************************)
EXTENDS Integers

CONSTANT Requests

VARIABLES connection, \* number of the connection
          issued,     \* requests sent so far
          awaited,    \* requests whose answer would be recognised
          kept,       \* answered requests the caller has not been told of
          reports     \* how often the caller was told of each request

vars == <<connection, issued, awaited, kept, reports>>

Init ==
    /\ connection = 0
    /\ issued = {}
    /\ awaited = {}
    /\ kept = {}
    /\ reports = [r \in Requests |-> 0]

Issue(r) ==
    /\ r \notin issued
    /\ issued' = issued \cup {r}
    /\ awaited' = awaited \cup {r}
    /\ UNCHANGED <<connection, kept, reports>>

Keep(r) ==
    /\ r \in awaited
    /\ awaited' = awaited \ {r}
    /\ kept' = kept \cup {r}
    /\ UNCHANGED <<connection, issued, reports>>

Told(r) == reports' = [reports EXCEPT ![r] = @ + 1]

\* The caller is told that r is answered, or that it has timed out.
Settle(r) ==
    /\ r \in awaited \cup kept
    /\ Told(r)
    /\ awaited' = awaited \ {r}
    /\ kept' = kept \ {r}
    /\ UNCHANGED <<connection, issued>>

\* Everything awaited times out together, and the caller is told of one.
Expire(r) ==
    /\ r \in awaited
    /\ Told(r)
    /\ awaited' = {}
    /\ UNCHANGED <<connection, issued, kept>>

\* A connection is made, replaced or given up.
Forget ==
    /\ connection' \in Nat \ {connection}
    /\ awaited' = {}
    /\ kept' = {}
    /\ UNCHANGED <<issued, reports>>

Next ==
    \/ \E r \in Requests : Issue(r) \/ Keep(r) \/ Settle(r) \/ Expire(r)
    \/ Forget

Spec == Init /\ [][Next]_vars

==============================================================================
