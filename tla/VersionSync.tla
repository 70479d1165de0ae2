----------------------------- MODULE VersionSync ------------------------------
(***************************************************************************)
(* plan_version_sync (crates/openim-sync/src/lib.rs) keeping a local list  *)
(* in step with a server that publishes it version by version.             *)
(*                                                                         *)
(* The engine decides; its caller, the server and the network are the      *)
(* environment.  A delta may be lost, repeated and delivered in any order, *)
(* so it is never consumed: any delta the server has published may arrive  *)
(* at any time.  The ids that go with a reordering delta are fetched by a  *)
(* request of their own, so the server may have moved on (refreshed_full_  *)
(* ids is its list at some version from the delta's on), or not fetched.   *)
(*                                                                         *)
(* A duplicate-free Vec of ids is its set and its order, [ids, before]:    *)
(* retain is a restriction and push adds pairs.                            *)
(*                                                                         *)
(* A definition named Mutant... is a wrong version of the definition that  *)
(* follows it, kept to show that the properties notice the mistake.        *)
(***************************************************************************)
EXTENDS Integers, FiniteSets

CONSTANTS Ids, Values,
          NoItem,      \* no item with this id
          MaxVersion,  \* bound: versions per epoch
          MaxEpoch     \* bound: epochs (version_ids) of the server

ASSUME SyncConstants ==
    /\ NoItem \notin Values
    /\ MaxVersion \in Nat
    /\ MaxEpoch \in Nat

VARIABLES
    log,      \* position -> the snapshot the server published there
    newest,   \* the server's position
    state,    \* VersionState: version_id, version, uid_list
    items,    \* the local items
    needFull, \* a Full decision has not been carried out yet
    ordered   \* history: did every reordering come with the ids of its version?

vars == <<log, newest, state, items, needFull, ordered>>

Items == [Ids -> Values \cup {NoItem}]
IdList == {list \in [ids: SUBSET Ids, before: SUBSET (Ids \X Ids)] :
              list.before \subseteq list.ids \X list.ids}
Snapshot == {s \in [items: Items, order: IdList] :
                s.order.ids = {id \in Ids : s.items[id] # NoItem}}
Positions == (0..MaxEpoch) \X (0..MaxVersion)
VersionState == [epoch: 0..MaxEpoch, version: 0..MaxVersion, uids: IdList]

NoIds == [ids |-> {}, before |-> {}]
Present(its) == {id \in Ids : its[id] # NoItem}
Only(list, keep) ==
    [ids |-> list.ids \cap keep, before |-> list.before \cap (keep \X keep)]

\* delete_ids
DeleteIds(list, deletes) == Only(list, Ids \ deletes)

MutantPushMissing(list, more) ==
    [ids |-> list.ids \cup more.ids,
     before |-> list.before \cup (more.ids \X list.ids) \cup more.before]

\* "if !uid_list.contains(&id) { uid_list.push(id) }" for each id of more.
PushMissing(list, more) ==
    LET new == Only(more, Ids \ list.ids)
    IN  [ids |-> list.ids \cup new.ids,
         before |-> list.before \cup (list.ids \X new.ids) \cup new.before]

-----------------------------------------------------------------------------
(* Deltas, as the server makes them *)

\* VersionDelta from version v - 1 to v.  updates and inserts are lists of ids;
\* their items are those of version v.
Delta(e, v) ==
    LET old == log[<<e, v - 1>>]
        new == log[<<e, v>>]
        kept == old.order.ids \cap new.order.ids
        deletes == old.order.ids \ new.order.ids
        inserts == Only(new.order, Ids \ old.order.ids)
    IN  [epoch |-> e, version |-> v, full |-> FALSE, items |-> new.items,
         deletes |-> deletes,
         updates |-> Only(new.order, {id \in kept : new.items[id] # old.items[id]}),
         inserts |-> inserts,
         reordered |-> new.order # PushMissing(DeleteIds(old.order, deletes), inserts)]

\* An answer that says nothing changed, and one that asks for a full sync.
PlainDelta(p, full) ==
    [epoch |-> p[1], version |-> p[2], full |-> full, items |-> log[p].items,
     deletes |-> {}, updates |-> NoIds, inserts |-> NoIds, reordered |-> FALSE]

\* VersionDelta::has_changes
HasChanges(d) ==
    d.full \/ d.deletes # {} \/ d.updates.ids # {} \/ d.inserts.ids # {} \/ d.reordered

-----------------------------------------------------------------------------
(* plan_version_sync *)

MutantDecision(d) ==
    IF ~HasChanges(d) THEN "Noop"
    ELSE IF d.full \/ d.epoch # state.epoch THEN "Full"
    ELSE IF d.version # state.version + 1 THEN "Noop"
    ELSE "Incremental"

\* The order of the tests is the code's.
Decision(d) ==
    IF ~HasChanges(d) THEN "Noop"
    ELSE IF d.full \/ d.epoch # state.epoch THEN "Full"
    ELSE IF d.version <= state.version THEN "Noop"
    ELSE IF d.version # state.version + 1 THEN "Full"
    ELSE "Incremental"

MutantNextUids(d, some, ids) ==
    IF d.reordered /\ some THEN ids ELSE DeleteIds(state.uids, d.deletes)

\* next_state.uid_list
NextUids(d, some, ids) ==
    IF d.reordered /\ some THEN ids
    ELSE PushMissing(PushMissing(DeleteIds(state.uids, d.deletes), d.updates), d.inserts)

MutantServerItems(d, uids) ==
    [id \in Ids |->
        IF id \notin uids.ids THEN NoItem
        ELSE IF id \in d.inserts.ids THEN d.items[id]
        ELSE items[id]]

\* server_items: the items of uid_list, as far as they are known.
ServerItems(d, uids) ==
    [id \in Ids |->
        IF id \notin uids.ids THEN NoItem
        ELSE IF id \in d.updates.ids \cup d.inserts.ids THEN d.items[id]
        ELSE IF id \in d.deletes THEN NoItem
        ELSE items[id]]

Init ==
    /\ log = [p \in {<<0, 0>>} |->
                 [items |-> [id \in Ids |-> NoItem], order |-> NoIds]]
    /\ newest = <<0, 0>>
    /\ state = [epoch |-> 0, version |-> 0, uids |-> NoIds]
    /\ items = [id \in Ids |-> NoItem]
    /\ needFull = FALSE
    /\ ordered = TRUE

\* The caller asks for a plan and carries out Noop and Incremental at once.
Receive(d, some, ids, inTime) ==
    LET decision == Decision(d)
        uids == NextUids(d, some, ids)
    IN  /\ needFull' = (needFull \/ decision = "Full")
        /\ IF decision = "Incremental"
             THEN /\ state' = [epoch |-> d.epoch, version |-> d.version, uids |-> uids]
                  /\ items' = ServerItems(d, uids)
                  /\ ordered' = IF d.reordered THEN some /\ inTime ELSE ordered
             ELSE UNCHANGED <<state, items, ordered>>
        /\ UNCHANGED <<log, newest>>

ReceiveDelta(p) ==
    /\ p[2] > 0
    /\ \E d \in {Delta(p[1], p[2])}, some \in BOOLEAN :
       \E q \in IF some /\ d.reordered
                  THEN {q \in DOMAIN log : q[1] = p[1] /\ q[2] >= p[2]} ELSE {p} :
          Receive(d, some, log[q].order, q = p)

ReceivePlain(p) ==
    \E full \in BOOLEAN : Receive(PlainDelta(p, full), FALSE, NoIds, FALSE)

\* The caller asks what is new and gets the newest delta, or is told that
\* there is no history to go by.
Poll ==
    IF newest[2] = 0
      THEN Receive(PlainDelta(newest, TRUE), FALSE, NoIds, FALSE)
      ELSE \E d \in {Delta(newest[1], newest[2])} :
              Receive(d, TRUE, log[newest].order, TRUE)

\* The answer to a request for the whole list, which replaces the local one.
FullSync ==
    /\ needFull
    /\ needFull' = FALSE
    /\ state' = [epoch |-> newest[1], version |-> newest[2], uids |-> log[newest].order]
    /\ items' = log[newest].items
    /\ ordered' = TRUE
    /\ UNCHANGED <<log, newest>>

-----------------------------------------------------------------------------
(* The server *)

PublishAt(p, its, order) ==
    /\ log' = [q \in DOMAIN log \cup {p} |->
                  IF q = p THEN [items |-> its, order |-> order] ELSE log[q]]
    /\ newest' = p
    /\ UNCHANGED <<state, items, needFull, ordered>>

\* One version: some item goes, some item is put, some item may move last.  A
\* version that changes nothing is not published: its delta would be a Noop
\* however far behind the local version is.
Publish ==
    LET now == log[newest]
    IN  /\ newest[1] > 0 /\ newest[2] < MaxVersion
        /\ \E gone \in SUBSET Present(now.items), put \in SUBSET Ids,
              value \in Values, last \in SUBSET Ids :
              /\ Cardinality(gone) <= 1 /\ Cardinality(put) <= 1
              /\ gone \cap put = {} /\ Cardinality(last) <= 1
              /\ last \subseteq (now.order.ids \cup put) \ gone
              /\ LET its == [id \in Ids |-> IF id \in gone THEN NoItem
                                            ELSE IF id \in put THEN value
                                            ELSE now.items[id]]
                     kept == DeleteIds(now.order, gone \cup last)
                     rest == PushMissing(kept, [ids |-> put \ last, before |-> {}])
                     order == PushMissing(rest, [ids |-> last, before |-> {}])
                 IN  /\ <<its, order>> # <<now.items, now.order>>
                     /\ PublishAt(<<newest[1], newest[2] + 1>>, its, order)

\* The server loses its history and starts a new version_id with its list.
NewEpoch ==
    /\ newest[1] < MaxEpoch
    /\ PublishAt(<<newest[1] + 1, 0>>, log[newest].items, log[newest].order)

Next ==
    \/ \E p \in DOMAIN log : ReceiveDelta(p) \/ ReceivePlain(p)
    \/ FullSync
    \/ Publish
    \/ NewEpoch

Spec == Init /\ [][Next]_vars

\* The caller keeps polling and carries out a full sync that is wanted.
Fairness == WF_vars(Poll) /\ WF_vars(FullSync)

FairSpec == Spec /\ Fairness

-----------------------------------------------------------------------------
(* Properties *)

At == <<state.epoch, state.version>>

TypeOK ==
    /\ DOMAIN log \subseteq Positions
    /\ log \in [DOMAIN log -> Snapshot]
    /\ newest \in DOMAIN log
    /\ state \in VersionState
    /\ At \in DOMAIN log
    /\ items \in Items
    /\ needFull \in BOOLEAN
    /\ ordered \in BOOLEAN

\* plan_version_sync applied to deltas that are lost, repeated and reordered
\* keeps a replica: every plan moves the list forward to a version the server
\* published and leaves exactly its items, up to items removed later.
ReplicaOf == INSTANCE Replica WITH
                published <- [p \in DOMAIN log |-> log[p].items], at <- At

ImplementsReplica == ReplicaOf!Spec

\* uid_list names every local item: server_items is filtered by uid_list, so
\* an item missing from the list would be dropped by the next plan.  It may
\* name an id before its item is known (ids fetched late), but at the server's
\* position it names no id without an item.
UidListCoversItems ==
    /\ Present(items) \subseteq state.uids.ids
    /\ At = newest => state.uids.ids \subseteq Present(items)

\* If every reordering was applied with the ids of its own version, uid_list
\* has the server's order.
UidListKeepsOrder == ordered => state.uids = log[At].order

\* A server that falls silent is caught up with, whatever was lost before.
CatchesUp == <>[](At = newest /\ items = log[newest].items)
==============================================================================
