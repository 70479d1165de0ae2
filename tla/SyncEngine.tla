------------------------------ MODULE SyncEngine ------------------------------
(***************************************************************************)
(* diff_by (crates/openim-sync/src/lib.rs) and what the domain services    *)
(* make of its plan (crates/openim-domain/src/lib.rs), as operators.       *)
(*                                                                         *)
(* An item is [scope, id, val]: the group or the owner it belongs to, its  *)
(* key there, and everything else.  Lists are Vecs and may repeat a key.   *)
(* A map is a function from [scope, id] that is None where it has nothing. *)
(***************************************************************************)
EXTENDS Integers, Sequences, FiniteSetsExt, SequencesExt

CONSTANT None

DefaultOptions == [skipDeletion |-> FALSE, includeUnchanged |-> TRUE]

\* The numbers of S in order.
Ascending(S) ==
    CHOOSE order \in [1..Cardinality(S) -> S] : \A i, j \in DOMAIN order : i < j => order[i] < order[j]

\* The elements of s at the places in at.
Kept(s, at) == [i \in 1..Cardinality(at) |-> s[Ascending(at)[i]]]

MutantDiffBy(server, local, options) ==
    LET known == {local[i].id : i \in DOMAIN local}
        index(id) == Max({i \in DOMAIN local : local[i].id = id})
        state(item) == IF item.id \notin known THEN "Insert"
                       ELSE IF item = local[index(item.id)] THEN "Unchanged"
                       ELSE "Update"
    IN  [i \in DOMAIN server |-> [state |-> state(server[i]), item |-> server[i]]]

\* diff_by.  local_by_key keeps the last local item of a key; consumed holds the
\* keys the server names.
DiffBy(server, local, options) ==
    LET known == {local[i].id : i \in DOMAIN local}
        index(id) == Max({i \in DOMAIN local : local[i].id = id})
        state(item) == IF item.id \notin known THEN "Insert"
                       ELSE IF item = local[index(item.id)] THEN "Unchanged"
                       ELSE "Update"
        consumed == {server[i].id : i \in DOMAIN server} \cap known
        matched == [i \in DOMAIN server |->
                       [state |-> state(server[i]), item |-> server[i]]]
        unmatched == [i \in DOMAIN local |-> [state |-> "Delete", item |-> local[i]]]
    IN  (IF options.includeUnchanged THEN matched
         ELSE Kept(matched, {i \in DOMAIN server : matched[i].state # "Unchanged"}))
        \o (IF options.skipDeletion THEN <<>>
            ELSE Kept(unmatched, {i \in DOMAIN local : local[i].id \notin consumed}))

\* DomainSyncSummary::record for every action of the plan.
Summarize(plan) ==
    [s \in {"Insert", "Update", "Delete", "Unchanged"} |->
        Cardinality({i \in DOMAIN plan : plan[i].state = s})]

Key(item) == <<item.scope, item.id>>

\* The loop over plan.actions that every sync call ends with: the last action on a key
\* decides, and an unchanged item is left alone.
ApplyPlan(map, plan) ==
    [k \in DOMAIN map |->
        LET at == {i \in DOMAIN plan : plan[i].state # "Unchanged" /\ Key(plan[i].item) = k}
        IN  IF at = {} THEN map[k]
            ELSE IF plan[Max(at)].state = "Delete" THEN None
            ELSE plan[Max(at)].item.val]

\* The items of one scope, sorted by id.
ItemsOf(map, scope) ==
    LET ids == {k[2] : k \in {k \in DOMAIN map : k[1] = scope /\ map[k] # None}}
        sorted == Ascending(ids)
    IN  [i \in DOMAIN sorted |->
            [scope |-> scope, id |-> sorted[i], val |-> map[<<scope, sorted[i]>>]]]
==============================================================================
