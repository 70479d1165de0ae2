-------------------------- MODULE VersionSyncProofs --------------------------
(***************************************************************************)
(* Theorems about VersionSync, for any ids and values, any number of       *)
(* versions and epochs, and any loss, repetition and order of deltas.      *)
(***************************************************************************)
EXTENDS VersionSync, TLAPS

Later(p, q) == \/ p[1] > q[1]
               \/ p[1] = q[1] /\ p[2] > q[2]

\* The server's history has no holes within an epoch, and newest is its end.
HistoryInv ==
    /\ \A p \in DOMAIN log : p[2] > 0 => <<p[1], p[2] - 1>> \in DOMAIN log
    /\ \A p \in DOMAIN log : p = newest \/ Later(newest, p)

\* The copy is that of its position, up to items that are removed later.
GoneLater(p, id) ==
    \E q \in DOMAIN log : q[1] = p[1] /\ q[2] > p[2] /\ log[q].items[id] = NoItem
FaithfulAt(p, copy) ==
    \A id \in Ids : \/ copy[id] = log[p].items[id]
                    \/ copy[id] = NoItem /\ GoneLater(p, id)

\* uid_list names the local items, and ids of the server's list then or later.
Covers(copy, uids) == Present(copy) \subseteq uids.ids
NamedFrom(p, uids) ==
    \A id \in uids.ids : \E q \in DOMAIN log :
        q[1] = p[1] /\ q[2] >= p[2] /\ id \in log[q].order.ids

SyncInv ==
    /\ TypeOK
    /\ HistoryInv
    /\ Covers(items, state.uids)
    /\ NamedFrom(At, state.uids)
    /\ FaithfulAt(At, items)
    /\ UidListKeepsOrder

-----------------------------------------------------------------------------
(* Lists of ids *)

\* Restricting a list leaves a list of the ids that are kept.
LEMMA OnlyType ==
    ASSUME NEW list \in IdList, NEW keep
    PROVE  /\ Only(list, keep) \in IdList
           /\ Only(list, keep).ids = list.ids \cap keep
  BY DEF Only, IdList

\* delete_ids leaves a list without the deleted ids.
LEMMA DeleteIdsType ==
    ASSUME NEW list \in IdList, NEW deletes
    PROVE  /\ DeleteIds(list, deletes) \in IdList
           /\ DeleteIds(list, deletes).ids = list.ids \ deletes
  BY DEF DeleteIds, Only, IdList

\* The pushes of plan_version_sync leave a list of the ids of both.
LEMMA PushMissingType ==
    ASSUME NEW list \in IdList, NEW more \in IdList
    PROVE  /\ PushMissing(list, more) \in IdList
           /\ PushMissing(list, more).ids = list.ids \cup more.ids
  BY DEF PushMissing, Only, IdList

\* Pushing ids that are all in the list changes nothing.
LEMMA PushNothing ==
    ASSUME NEW list \in IdList, NEW more \in IdList, more.ids \subseteq list.ids
    PROVE  PushMissing(list, more) = list
  <1>1. /\ Only(more, Ids \ list.ids).ids = {}
        /\ Only(more, Ids \ list.ids).before = {}
    BY DEF Only, IdList
  <1>2. list = [ids |-> list.ids, before |-> list.before]
    BY DEF IdList
  <1> QED BY <1>1, <1>2 DEF PushMissing

-----------------------------------------------------------------------------
(* One plan *)

\* What a delta says of two snapshots.
Describes(d, old, new) ==
    /\ d.full = FALSE /\ d.items = new.items
    /\ d.updates \in IdList /\ d.inserts \in IdList
    /\ d.updates.ids \subseteq old.order.ids \cap new.order.ids
    /\ d.deletes = old.order.ids \ new.order.ids
    /\ d.inserts.ids = new.order.ids \ old.order.ids
    /\ \A id \in Ids : id \notin d.deletes \cup d.updates.ids \cup d.inserts.ids
                         => new.items[id] = old.items[id]
    /\ ~d.reordered => new.order = PushMissing(DeleteIds(old.order, d.deletes), d.inserts)

\* The delta of a version describes the step from the version before.
LEMMA DeltaDescribes ==
    ASSUME TypeOK, HistoryInv, NEW p \in DOMAIN log, p[2] > 0
    PROVE  /\ Delta(p[1], p[2]).epoch = p[1] /\ Delta(p[1], p[2]).version = p[2]
           /\ Describes(Delta(p[1], p[2]), log[<<p[1], p[2] - 1>>], log[p])
  <1> DEFINE d == Delta(p[1], p[2])
             old == log[<<p[1], p[2] - 1>>]
             new == log[p]
  <1> DEFINE kept == old.order.ids \cap new.order.ids
             deletes == old.order.ids \ new.order.ids
             updates == Only(new.order, {i \in kept : new.items[i] # old.items[i]})
             inserts == Only(new.order, Ids \ old.order.ids)
             pushed == PushMissing(DeleteIds(old.order, deletes), inserts)
  <1>1. /\ old \in Snapshot /\ new \in Snapshot
        /\ p = <<p[1], p[2]>>
    BY DEF TypeOK, HistoryInv, Positions
  <1>2. /\ old.order \in IdList /\ new.order \in IdList
        /\ old.order.ids = {i \in Ids : old.items[i] # NoItem}
        /\ new.order.ids = {i \in Ids : new.items[i] # NoItem}
    BY <1>1 DEF Snapshot
  <1>3. d = [epoch |-> p[1], version |-> p[2], full |-> FALSE, items |-> new.items,
             deletes |-> deletes, updates |-> updates, inserts |-> inserts,
             reordered |-> new.order # pushed]
    BY <1>1 DEF Delta
  <1>4. /\ updates \in IdList /\ inserts \in IdList
        /\ updates.ids = new.order.ids \cap {i \in kept : new.items[i] # old.items[i]}
        /\ inserts.ids = new.order.ids \ old.order.ids
    <2>1. new.order.ids \subseteq Ids
      BY <1>2 DEF IdList
    <2> HIDE DEF kept
    <2> QED BY <1>2, <2>1, OnlyType
  <1> HIDE DEF old, new, d, updates, inserts, pushed
  <1>6. \A id \in Ids : id \notin deletes \cup updates.ids \cup inserts.ids
                           => new.items[id] = old.items[id]
    BY <1>2, <1>4
  <1>7. ~d.reordered => new.order = pushed
    <2> DEFINE before == log[<<p[1], p[2] - 1>>]
               after == log[<<p[1], p[2]>>]
    <2>1. Delta(p[1], p[2]).reordered
            <=> after.order # PushMissing(DeleteIds(before.order, before.order.ids \ after.order.ids),
                                          Only(after.order, Ids \ before.order.ids))
      BY Zenon DEF Delta
    <2>2. before = old /\ after = new
      BY <1>1 DEF old, new
    <2> QED BY <2>1, <2>2, Zenon DEF d, pushed, inserts
  <1>8. /\ d.epoch = p[1] /\ d.version = p[2] /\ d.full = FALSE /\ d.items = new.items
        /\ d.deletes = deletes /\ d.updates = updates /\ d.inserts = inserts
    BY <1>3
  <1>9. ~d.reordered => new.order = PushMissing(DeleteIds(old.order, d.deletes), d.inserts)
    BY <1>7, <1>8 DEF pushed
  <1> QED BY <1>4, <1>6, <1>8, <1>9 DEF Describes, d, old, new

\* An incremental plan takes the list from one version to the next, whether or
\* not the ids of a reordering were fetched, and however late.
LEMMA IncrementalPlan ==
    ASSUME SyncInv,
           NEW p \in DOMAIN log, p[2] > 0,
           NEW d, d = Delta(p[1], p[2]), NEW some \in BOOLEAN,
           NEW q \in DOMAIN log, q[1] = p[1], q[2] >= p[2],
           (some /\ d.reordered) \/ q = p,
           p[1] = state.epoch, p[2] = state.version + 1,
           NEW uids, uids = NextUids(d, some, log[q].order),
           NEW copy, copy = ServerItems(d, uids)
    PROVE  /\ uids \in IdList /\ copy \in Items
           /\ Covers(copy, uids)
           /\ NamedFrom(p, uids)
           /\ FaithfulAt(p, copy)
           /\ d.reordered => (some /\ q = p => uids = log[p].order)
           /\ ~d.reordered => (ordered => uids = log[p].order)
  <1> DEFINE old == log[At]
             new == log[p]
             base == DeleteIds(state.uids, d.deletes)
  <1>1. /\ At = <<p[1], p[2] - 1>> /\ p = <<p[1], p[2]>> /\ q = <<q[1], q[2]>>
        /\ p[1] \in Nat /\ p[2] \in Nat /\ q[2] \in Nat
        /\ At[1] = p[1] /\ At[2] = p[2] - 1
    BY DEF SyncInv, TypeOK, Positions, VersionState, At
  <1>2. /\ old \in Snapshot /\ new \in Snapshot /\ log[q] \in Snapshot
        /\ state.uids \in IdList /\ items \in Items
    BY DEF SyncInv, TypeOK, VersionState
  <1>3. /\ old.order \in IdList /\ new.order \in IdList /\ log[q].order \in IdList
        /\ old.order.ids = Present(old.items) /\ new.order.ids = Present(new.items)
        /\ log[q].order.ids = Present(log[q].items)
        /\ new.items \in Items
    BY <1>2 DEF Snapshot, Present
  <1>4. Describes(d, old, new)
    BY <1>1, DeltaDescribes DEF SyncInv
  <1> HIDE DEF old, new, base
  <1>6. base \in IdList /\ base.ids = state.uids.ids \ d.deletes
    BY <1>2, DeleteIdsType DEF base
  <1>7. /\ PushMissing(base, d.updates) \in IdList
        /\ PushMissing(base, d.updates).ids = base.ids \cup d.updates.ids
        /\ PushMissing(PushMissing(base, d.updates), d.inserts) \in IdList
        /\ PushMissing(PushMissing(base, d.updates), d.inserts).ids
              = (base.ids \cup d.updates.ids) \cup d.inserts.ids
    BY <1>4, <1>6, PushMissingType DEF Describes
  <1>8. /\ d.reordered /\ some => uids = log[q].order
        /\ ~(d.reordered /\ some) =>
              /\ uids = PushMissing(PushMissing(base, d.updates), d.inserts)
              /\ uids.ids = ((state.uids.ids \ d.deletes) \cup d.updates.ids) \cup d.inserts.ids
    BY <1>6, <1>7 DEF NextUids, base
  <1>9. uids \in IdList
    BY <1>3, <1>7, <1>8
  <1>10. copy \in [Ids -> Values \cup {NoItem}]
    <2>1. \A id \in Ids : d.items[id] \in Values \cup {NoItem} /\ items[id] \in Values \cup {NoItem}
      BY <1>2, <1>3, <1>4 DEF Items, Describes
    <2> QED BY <2>1 DEF ServerItems
  <1>11. Covers(copy, uids)
    BY DEF Covers, Present, ServerItems
  <1>12. NamedFrom(p, uids)
    <2> SUFFICES ASSUME NEW id \in uids.ids
                 PROVE  \E r \in DOMAIN log : r[1] = p[1] /\ r[2] >= p[2] /\ id \in log[r].order.ids
      BY DEF NamedFrom
    <2>1. CASE d.reordered /\ some
      BY <1>8, <2>1
    <2>2. CASE id \in d.updates.ids \cup d.inserts.ids
      <3>1. id \in log[p].order.ids
        BY <1>4, <2>2 DEF Describes, new
      <3> QED BY <3>1, <1>1
    <2>3. CASE id \in state.uids.ids \ d.deletes
      <3>1. PICK r \in DOMAIN log : r[1] = At[1] /\ r[2] >= At[2] /\ id \in log[r].order.ids
        BY <2>3 DEF SyncInv, NamedFrom
      <3>2. r \in Nat \X Nat
        BY DEF SyncInv, TypeOK, Positions
      <3>3. CASE r[2] = At[2]
        <4>1. r = At
          BY <3>1, <3>2, <3>3, <1>1
        <4>2. id \in log[p].order.ids
          BY <3>1, <4>1, <2>3, <1>4 DEF Describes, old, new
        <4> QED BY <4>2, <1>1
      <3>4. CASE r[2] # At[2]
        BY <3>1, <3>2, <3>4, <1>1
      <3> QED BY <3>3, <3>4
    <2> QED BY <1>8, <2>1, <2>2, <2>3
  <1>13. FaithfulAt(p, copy)
    <2> SUFFICES ASSUME NEW id \in Ids
                 PROVE  copy[id] = new.items[id] \/ (copy[id] = NoItem /\ GoneLater(p, id))
      BY DEF FaithfulAt, new
    <2>1. /\ id \notin uids.ids => copy[id] = NoItem
          /\ id \in uids.ids /\ id \in d.updates.ids \cup d.inserts.ids => copy[id] = d.items[id]
          /\ id \in uids.ids /\ id \notin d.updates.ids \cup d.inserts.ids /\ id \in d.deletes
                => copy[id] = NoItem
          /\ id \in uids.ids /\ id \notin d.updates.ids \cup d.inserts.ids /\ id \notin d.deletes
                => copy[id] = items[id]
      BY DEF ServerItems
    <2>2. CASE id \in d.deletes
      <3>1. new.items[id] = NoItem /\ id \notin d.updates.ids \cup d.inserts.ids
        BY <2>2, <1>3, <1>4 DEF Describes, Present
      <3> QED BY <2>1, <2>2, <3>1
    <2>3. CASE id \in uids.ids /\ id \in d.updates.ids \cup d.inserts.ids
      BY <2>1, <2>3, <1>4 DEF Describes
    \* An item the delta does not touch, and one that is already missing.
    <2>4. ASSUME id \notin d.deletes \cup d.updates.ids \cup d.inserts.ids
          PROVE  items[id] = new.items[id] \/ (items[id] = NoItem /\ GoneLater(p, id))
      <3>1. new.items[id] = old.items[id]
        BY <2>4, <1>4 DEF Describes
      <3>2. items[id] = old.items[id] \/ (items[id] = NoItem /\ GoneLater(At, id))
        BY DEF SyncInv, FaithfulAt, old
      <3>3. ASSUME GoneLater(At, id)
            PROVE  new.items[id] = NoItem \/ GoneLater(p, id)
        <4>1. PICK r \in DOMAIN log : r[1] = At[1] /\ r[2] > At[2] /\ log[r].items[id] = NoItem
          BY <3>3 DEF GoneLater
        <4>2. r \in Nat \X Nat
          BY DEF SyncInv, TypeOK, Positions
        <4>3. CASE r[2] = p[2]
          <5>1. r = p
            BY <4>1, <4>2, <4>3, <1>1
          <5> QED BY <4>1, <5>1 DEF new
        <4>4. CASE r[2] # p[2]
          BY <4>1, <4>2, <4>4, <1>1 DEF GoneLater
        <4> QED BY <4>3, <4>4
      <3> QED BY <3>1, <3>2, <3>3
    <2>5. CASE id \notin uids.ids /\ d.reordered /\ some
      <3>1. log[q].items[id] = NoItem
        BY <2>5, <1>3, <1>8 DEF Present
      <3>2. CASE q = p
        BY <2>1, <2>5, <3>1, <3>2 DEF new
      <3>3. CASE q # p
        <4>1. q[2] > p[2]
          BY <1>1, <3>3
        <4> QED BY <2>1, <2>5, <3>1, <4>1 DEF GoneLater
      <3> QED BY <3>2, <3>3
    <2>6. CASE id \notin uids.ids /\ ~(d.reordered /\ some) /\ id \notin d.deletes
      <3>1. id \notin state.uids.ids /\ id \notin d.deletes \cup d.updates.ids \cup d.inserts.ids
        BY <2>6, <1>8
      <3>2. items[id] = NoItem
        BY <3>1 DEF SyncInv, Covers, Present
      <3> QED BY <2>1, <2>4, <2>6, <3>1, <3>2
    <2>7. CASE id \in uids.ids /\ id \notin d.deletes \cup d.updates.ids \cup d.inserts.ids
      BY <2>1, <2>4, <2>7
    <2> QED BY <2>2, <2>3, <2>5, <2>6, <2>7
  <1>14. d.reordered => (some /\ q = p => uids = log[p].order)
    BY <1>8
  <1>15. ~d.reordered => (ordered => uids = log[p].order)
    <2> SUFFICES ASSUME ~d.reordered, ordered
                 PROVE  uids = new.order
      BY DEF new
    <2>1. state.uids = old.order
      BY DEF SyncInv, UidListKeepsOrder, old
    <2>2. d.updates.ids \subseteq base.ids
      BY <2>1, <1>4, <1>6 DEF Describes
    <2>3. PushMissing(base, d.updates) = base
      BY <2>2, <1>4, <1>6, PushNothing DEF Describes
    <2> QED BY <2>1, <2>3, <1>4, <1>8 DEF Describes, base
  <1> QED BY <1>9, <1>10, <1>11, <1>12, <1>13, <1>14, <1>15 DEF Items

-----------------------------------------------------------------------------
(* The steps *)

ReplicaStep == [ReplicaOf!Next]_(ReplicaOf!vars)

\* The copy moves to a position p that is not behind it.
LEMMA MoveTo ==
    ASSUME SyncInv, NEW p \in DOMAIN log, p = At \/ Later(p, At),
           UNCHANGED <<log, newest>>,
           state' \in VersionState, At' = p, items' \in Items,
           needFull' \in BOOLEAN, ordered' \in BOOLEAN,
           Covers(items', state'.uids), NamedFrom(p, state'.uids), FaithfulAt(p, items'),
           ordered' => state'.uids = log[p].order,
           p = At => items' = items
    PROVE  SyncInv' /\ ReplicaStep
  <1>1. TypeOK'
    BY DEF SyncInv, TypeOK
  <1>2. HistoryInv'
    BY DEF SyncInv, HistoryInv, Later
  <1>3. Covers(items, state.uids)' /\ UidListKeepsOrder'
    BY DEF Covers, Present, UidListKeepsOrder
  <1>4. NamedFrom(At, state.uids)' /\ FaithfulAt(At, items)'
    BY DEF NamedFrom, FaithfulAt, GoneLater
  <1>5. ReplicaStep
    <2> DEFINE pub == [r \in DOMAIN log |-> log[r].items]
    <2>1. pub' = pub /\ newest' = newest
      OBVIOUS
    <2>2. CASE p = At
      BY <2>1, <2>2 DEF ReplicaStep, ReplicaOf!vars
    <2>3. CASE Later(p, At)
      <3>1. ReplicaOf!Faithful(pub, p, items')
        BY DEF FaithfulAt, GoneLater, ReplicaOf!Faithful, ReplicaOf!RemovedLater
      <3>2. ReplicaOf!Advance
        BY <2>1, <2>3, <3>1 DEF ReplicaOf!Advance, ReplicaOf!Later, Later, ReplicaOf!Items, Items
      <3> QED BY <3>2 DEF ReplicaStep, ReplicaOf!Next
    <2> QED BY <2>2, <2>3
  <1> QED BY <1>1, <1>2, <1>3, <1>4, <1>5 DEF SyncInv

\* A plan that is a Noop or Full only asks for a full sync.
LEMMA StayAt ==
    ASSUME SyncInv, UNCHANGED <<log, newest, state, items, ordered>>, needFull' \in BOOLEAN
    PROVE  SyncInv' /\ ReplicaStep
  <1>1. TypeOK' /\ At' = At
    BY DEF SyncInv, TypeOK, At
  <1>2. HistoryInv'
    BY DEF SyncInv, HistoryInv, Later
  <1>3. Covers(items, state.uids)' /\ UidListKeepsOrder'
    BY <1>1 DEF SyncInv, Covers, Present, UidListKeepsOrder
  <1>4. NamedFrom(At, state.uids)' /\ FaithfulAt(At, items)'
    BY <1>1 DEF SyncInv, NamedFrom, FaithfulAt, GoneLater
  <1>5. ReplicaStep
    BY <1>1 DEF ReplicaStep, ReplicaOf!vars
  <1> QED BY <1>1, <1>2, <1>3, <1>4, <1>5 DEF SyncInv

\* A delta of any version arrives, for the first time or again, in time or late.
LEMMA DeltaStep ==
    ASSUME SyncInv, NEW p \in DOMAIN log, ReceiveDelta(p)
    PROVE  SyncInv' /\ ReplicaStep
  <1> DEFINE d == Delta(p[1], p[2])
  <1>1. PICK some \in BOOLEAN, q \in DOMAIN log :
           /\ q[1] = p[1] /\ q[2] >= p[2]
           /\ (some /\ d.reordered) \/ q = p
           /\ Receive(d, some, log[q].order, q = p)
    <2>1. p \in Nat \X Nat
      BY DEF SyncInv, TypeOK, Positions
    <2> QED BY <2>1 DEF ReceiveDelta
  <1>2. d.epoch = p[1] /\ d.version = p[2] /\ p = <<p[1], p[2]>> /\ p[2] > 0
    <2>1. p = <<p[1], p[2]>> /\ p[2] > 0
      BY DEF SyncInv, ReceiveDelta, TypeOK, Positions
    <2> QED BY <2>1, DeltaDescribes DEF SyncInv
  <1>3. needFull' \in BOOLEAN /\ UNCHANGED <<log, newest>>
    BY <1>1 DEF Receive
  <1> HIDE DEF d
  <1>4. CASE Decision(d) # "Incremental"
    BY <1>1, <1>3, <1>4, StayAt DEF Receive
  <1>5. CASE Decision(d) = "Incremental"
    <2> DEFINE uids == NextUids(d, some, log[q].order)
               copy == ServerItems(d, uids)
    <2>1. p[1] = state.epoch /\ p[2] = state.version + 1
      BY <1>2, <1>5 DEF Decision
    <2>2. /\ uids \in IdList /\ copy \in Items
          /\ Covers(copy, uids)
          /\ NamedFrom(p, uids)
          /\ FaithfulAt(p, copy)
          /\ d.reordered => (some /\ q = p => uids = log[p].order)
          /\ ~d.reordered => (ordered => uids = log[p].order)
      BY <1>1, <1>2, <2>1, IncrementalPlan DEF d
    <2>3. /\ state' = [epoch |-> p[1], version |-> p[2], uids |-> uids]
          /\ items' = copy
          /\ ordered' = IF d.reordered THEN some /\ q = p ELSE ordered
      BY <1>1, <1>2, <1>5 DEF Receive
    <2> HIDE DEF uids, copy
    <2>4. ordered' \in BOOLEAN /\ (ordered' => uids = log[p].order)
      BY <2>2, <2>3 DEF SyncInv, TypeOK
    <2>5. state' \in VersionState /\ At' = p /\ state'.uids = uids
      BY <1>2, <2>2, <2>3 DEF SyncInv, TypeOK, VersionState, Positions, At
    <2>6. Later(p, At) /\ p # At
      BY <1>2, <2>1 DEF Later, At, SyncInv, TypeOK, VersionState
    <2> QED BY <1>3, <2>2, <2>3, <2>4, <2>5, <2>6, MoveTo
  <1> QED BY <1>4, <1>5

\* An answer without changes, or one that asks for a full sync, arrives.
LEMMA PlainStep ==
    ASSUME SyncInv, NEW p \in DOMAIN log, ReceivePlain(p)
    PROVE  SyncInv' /\ ReplicaStep
  <1>1. PICK full \in BOOLEAN : Receive(PlainDelta(p, full), FALSE, NoIds, FALSE)
    BY DEF ReceivePlain
  <1>2. Decision(PlainDelta(p, full)) # "Incremental"
    BY DEF Decision, PlainDelta, HasChanges, NoIds
  <1>3. UNCHANGED <<log, newest, state, items, ordered>> /\ needFull' \in BOOLEAN
    BY <1>1, <1>2 DEF Receive
  <1> QED BY <1>3, StayAt

\* A full sync moves the copy to the newest position, or leaves it there.
LEMMA FullStep ==
    ASSUME SyncInv, FullSync
    PROVE  SyncInv' /\ ReplicaStep
  <1>1. /\ newest \in DOMAIN log /\ newest = <<newest[1], newest[2]>>
        /\ newest[1] \in 0..MaxEpoch /\ newest[2] \in 0..MaxVersion
        /\ log[newest].order \in IdList /\ log[newest].items \in Items
        /\ log[newest].order.ids = Present(log[newest].items)
    BY DEF SyncInv, TypeOK, Positions, Snapshot, Present
  <1>2. /\ state' = [epoch |-> newest[1], version |-> newest[2], uids |-> log[newest].order]
        /\ items' = log[newest].items /\ needFull' = FALSE /\ ordered' = TRUE
        /\ UNCHANGED <<log, newest>>
    BY DEF FullSync
  <1>3. state' \in VersionState /\ At' = newest /\ state'.uids = log[newest].order
    BY <1>1, <1>2 DEF VersionState, At
  <1>4. newest = At \/ Later(newest, At)
    BY DEF SyncInv, TypeOK, HistoryInv
  <1>5. Covers(items', state'.uids)
    BY <1>1, <1>2, <1>3 DEF Covers, Present
  <1>6. NamedFrom(newest, state'.uids)
    BY <1>1, <1>3 DEF NamedFrom
  <1>7. FaithfulAt(newest, items')
    BY <1>2 DEF FaithfulAt
  <1>8. newest = At => items' = items
    <2> SUFFICES ASSUME newest = At PROVE items = log[newest].items
      BY <1>2
    <2>1. \A id \in Ids : ~GoneLater(newest, id)
      <3>1. \A q \in DOMAIN log : q \in Nat \X Nat
        BY DEF SyncInv, TypeOK, Positions
      <3> QED BY <1>1, <3>1 DEF GoneLater, SyncInv, HistoryInv, Later
    <2>2. \A id \in Ids : items[id] = log[newest].items[id]
      BY <2>1 DEF SyncInv, FaithfulAt
    <2> QED BY <1>1, <2>2 DEF SyncInv, TypeOK, Items
  <1> QED BY <1>1, <1>2, <1>3, <1>4, <1>5, <1>6, <1>7, <1>8, MoveTo

\* The server publishes a snapshot at a position after its newest.
LEMMA PublishStep ==
    ASSUME SyncInv, NEW p \in Positions, Later(p, newest),
           p[2] > 0 => <<p[1], p[2] - 1>> \in DOMAIN log,
           NEW its, NEW order, [items |-> its, order |-> order] \in Snapshot,
           PublishAt(p, its, order)
    PROVE  SyncInv' /\ ReplicaStep
  <1> DEFINE snap == [items |-> its, order |-> order]
  <1>1. /\ log' = [q \in DOMAIN log \cup {p} |-> IF q = p THEN snap ELSE log[q]]
        /\ newest' = p
        /\ UNCHANGED <<state, items, needFull, ordered>>
    BY DEF PublishAt
  <1>2. /\ p \in Nat \X Nat /\ newest \in DOMAIN log
        /\ \A q \in DOMAIN log : q \in Nat \X Nat
    BY DEF SyncInv, TypeOK, Positions
  <1>3. \A q \in DOMAIN log : Later(p, q)
    BY <1>2 DEF SyncInv, HistoryInv, Later
  <1>4. p \notin DOMAIN log
    BY <1>2, <1>3 DEF Later
  <1>5. /\ DOMAIN log' = DOMAIN log \cup {p}
        /\ log'[p] = snap
        /\ \A q \in DOMAIN log : log'[q] = log[q]
    BY <1>1, <1>4
  <1>6. At' = At /\ At \in DOMAIN log
    BY <1>1 DEF At, SyncInv, TypeOK
  <1> HIDE DEF snap
  <1>7. TypeOK'
    <2>1. log' \in [DOMAIN log' -> Snapshot] /\ DOMAIN log' \subseteq Positions
      BY <1>1, <1>5 DEF SyncInv, TypeOK, snap
    <2> QED BY <1>1, <1>5, <1>6, <2>1 DEF SyncInv, TypeOK
  <1>8. HistoryInv'
    <2>1. \A q \in DOMAIN log' : q[2] > 0 => <<q[1], q[2] - 1>> \in DOMAIN log'
      BY <1>5 DEF SyncInv, HistoryInv
    <2>2. \A q \in DOMAIN log' : q = newest' \/ Later(newest', q)
      BY <1>1, <1>3, <1>5
    <2> QED BY <2>1, <2>2 DEF HistoryInv, Later
  <1>9. Covers(items, state.uids)' /\ UidListKeepsOrder'
    BY <1>1, <1>5, <1>6 DEF SyncInv, Covers, Present, UidListKeepsOrder
  <1>10. NamedFrom(At, state.uids)'
    BY <1>1, <1>5, <1>6 DEF SyncInv, NamedFrom
  <1>11. FaithfulAt(At, items)'
    <2>1. \A id \in Ids : GoneLater(At, id) => GoneLater(At, id)'
      BY <1>5, <1>6 DEF GoneLater
    <2> QED BY <1>1, <1>5, <1>6, <2>1 DEF SyncInv, FaithfulAt
  <1>12. ReplicaOf!Publish
    <2> DEFINE pub == [r \in DOMAIN log |-> log[r].items]
    <2>1. /\ DOMAIN pub = DOMAIN log /\ DOMAIN pub' = DOMAIN log \cup {p}
          /\ pub'[p] = snap.items
          /\ \A r \in DOMAIN log : pub'[r] = pub[r]
      BY <1>5
    <2>2. snap.items \in ReplicaOf!Items
      BY DEF Snapshot, Items, ReplicaOf!Items, snap
    <2> HIDE DEF pub
    <2>3. /\ p \in ReplicaOf!Position \ DOMAIN pub
          /\ ReplicaOf!Later(p, newest)
      BY <1>2, <1>4, <2>1 DEF ReplicaOf!Position, ReplicaOf!Later, Later
    <2> QED BY <1>1, <1>6, <2>1, <2>2, <2>3 DEF ReplicaOf!Publish, pub
  <1> QED BY <1>7, <1>8, <1>9, <1>10, <1>11, <1>12 DEF SyncInv, ReplicaStep, ReplicaOf!Next

\* The server moves on, within its epoch or to a new one.
LEMMA ServerStep ==
    ASSUME SyncInv, Publish \/ NewEpoch
    PROVE  SyncInv' /\ ReplicaStep
  <1> DEFINE now == log[newest]
  <1>1. /\ newest \in DOMAIN log /\ newest \in Positions /\ newest = <<newest[1], newest[2]>>
        /\ newest[1] \in 0..MaxEpoch /\ newest[2] \in 0..MaxVersion
        /\ now \in Snapshot
    BY DEF SyncInv, TypeOK, Positions
  <1>2. /\ now.items \in Items /\ now.order \in IdList
        /\ now.order.ids = Present(now.items)
        /\ now = [items |-> now.items, order |-> now.order]
    BY <1>1 DEF Snapshot, Present
  <1> HIDE DEF now
  <1>3. CASE NewEpoch
    <2> DEFINE p == <<newest[1] + 1, 0>>
    <2>1. p \in Positions /\ Later(p, newest) /\ ~(p[2] > 0)
      BY <1>1, <1>3, SyncConstants DEF NewEpoch, Positions, Later
    <2>2. PublishAt(p, now.items, now.order)
      BY <1>3 DEF NewEpoch, now
    <2> HIDE DEF p
    <2> QED BY <1>1, <1>2, <2>1, <2>2, PublishStep
  <1>4. CASE Publish
    <2> DEFINE p == <<newest[1], newest[2] + 1>>
               Its(gone, put, value) == [id \in Ids |-> IF id \in gone THEN NoItem
                                                        ELSE IF id \in put THEN value
                                                        ELSE now.items[id]]
               Rest(gone, put, last) == PushMissing(DeleteIds(now.order, gone \cup last),
                                                    [ids |-> put \ last, before |-> {}])
               Order(gone, put, last) == PushMissing(Rest(gone, put, last),
                                                     [ids |-> last, before |-> {}])
    <2>1. p \in Positions /\ Later(p, newest) /\ p[1] = newest[1] /\ p[2] - 1 = newest[2]
      BY <1>1, <1>4, SyncConstants DEF Publish, Positions, Later
    <2>2. PICK gone \in SUBSET Present(now.items), put \in SUBSET Ids,
               value \in Values, last \in SUBSET Ids :
             /\ gone \cap put = {}
             /\ last \subseteq (now.order.ids \cup put) \ gone
             /\ PublishAt(p, Its(gone, put, value), Order(gone, put, last))
      BY <1>4 DEF Publish, now
    <2> DEFINE its == Its(gone, put, value)
               order == Order(gone, put, last)
    <2>3. its \in Items /\ Present(its) = (now.order.ids \ gone) \cup put
      <3>1. \A id \in Ids : /\ now.items[id] \in Values \cup {NoItem}
                            /\ id \in gone => its[id] = NoItem
                            /\ id \in put => its[id] = value
                            /\ id \notin gone \cup put => its[id] = now.items[id]
        BY <1>2, <2>2 DEF Items
      <3>2. its \in Items
        BY <1>2 DEF Items
      <3>3. now.order.ids = {id \in Ids : now.items[id] # NoItem} /\ value # NoItem
        BY <1>2, SyncConstants DEF Present
      <3> HIDE DEF its
      <3>4. \A id \in Ids : its[id] # NoItem <=> id \in (now.order.ids \ gone) \cup put
        BY <2>2, <3>1, <3>3
      <3> QED BY <3>2, <3>3, <3>4 DEF Present
    <2>4. order \in IdList /\ order.ids = (now.order.ids \ gone) \cup put
      <3>1. /\ DeleteIds(now.order, gone \cup last) \in IdList
            /\ DeleteIds(now.order, gone \cup last).ids = now.order.ids \ (gone \cup last)
        BY <1>2, DeleteIdsType
      <3>2. [ids |-> put \ last, before |-> {}] \in IdList /\ [ids |-> last, before |-> {}] \in IdList
        BY DEF IdList
      <3>3. /\ Rest(gone, put, last) \in IdList
            /\ Rest(gone, put, last).ids = (now.order.ids \ (gone \cup last)) \cup (put \ last)
        BY <3>1, <3>2, PushMissingType
      <3> HIDE DEF Rest
      <3>4. /\ order \in IdList
            /\ order.ids = ((now.order.ids \ (gone \cup last)) \cup (put \ last)) \cup last
        BY <3>2, <3>3, PushMissingType
      <3> QED BY <3>4, <2>2
    <2> HIDE DEF p, its, order
    <2>5. [items |-> its, order |-> order] \in Snapshot
      BY <2>3, <2>4 DEF Snapshot, Present
    <2>6. PublishAt(p, its, order)
      BY <2>2 DEF its, order
    <2> QED BY <1>1, <2>1, <2>5, <2>6, PublishStep
  <1> QED BY <1>3, <1>4

-----------------------------------------------------------------------------
(* Theorems *)

\* The invariant holds before the first sync.
LEMMA SyncInvInit == Init => SyncInv
  <1> SUFFICES ASSUME Init PROVE SyncInv
    OBVIOUS
  <1>1. NoIds \in IdList /\ NoIds.ids = {}
    BY DEF NoIds, IdList
  <1>2. /\ DOMAIN log = {<<0, 0>>} /\ newest = <<0, 0>> /\ At = <<0, 0>>
        /\ log[<<0, 0>>].items = [id \in Ids |-> NoItem]
        /\ log[<<0, 0>>].order = NoIds
        /\ items = [id \in Ids |-> NoItem] /\ state.uids = NoIds
    BY DEF Init, At
  <1>3. TypeOK
    <2>1. log \in [DOMAIN log -> Snapshot]
      BY <1>1 DEF Init, Snapshot, Items
    <2>2. items \in Items /\ state \in VersionState
      BY <1>1, SyncConstants DEF Init, Items, VersionState
    <2>3. DOMAIN log \subseteq Positions /\ newest \in DOMAIN log /\ At \in DOMAIN log
      BY <1>2, SyncConstants DEF Positions
    <2> QED BY <2>1, <2>2, <2>3 DEF Init, TypeOK
  <1>4. HistoryInv
    BY <1>2 DEF HistoryInv
  <1>5. Covers(items, state.uids) /\ NamedFrom(At, state.uids)
    BY <1>1, <1>2 DEF Covers, NamedFrom, Present
  <1>6. FaithfulAt(At, items) /\ UidListKeepsOrder
    BY <1>2 DEF FaithfulAt, UidListKeepsOrder
  <1> QED BY <1>3, <1>4, <1>5, <1>6 DEF SyncInv

\* Every step keeps the invariant and is a step of Replica, or none.
LEMMA SyncInvNext ==
    ASSUME SyncInv, [Next]_vars
    PROVE  SyncInv' /\ ReplicaStep
  <1>1. CASE UNCHANGED vars
    BY <1>1, StayAt DEF vars, SyncInv, TypeOK
  <1>2. CASE Next
    BY <1>2, DeltaStep, PlainStep, FullStep, ServerStep DEF Next
  <1> QED BY <1>1, <1>2

\* plan_version_sync, fed with any deltas in any order, keeps the types, and its list
\* stays that of a published version up to items removed later, covered by uid_list.
THEOREM SyncInvariance == Spec => []SyncInv
  <1>1. SyncInv /\ [Next]_vars => SyncInv'
    BY SyncInvNext
  <1> QED BY <1>1, SyncInvInit, PTL DEF Spec

\* The uid_list of next_state covers the local items, so server_items drops none, and it
\* names nothing else at the newest position.
THEOREM UidListCovers == Spec => []UidListCoversItems
  <1>1. SyncInv => UidListCoversItems
    <2> SUFFICES ASSUME SyncInv PROVE UidListCoversItems
      OBVIOUS
    <2>1. ASSUME At = newest, NEW id \in state.uids.ids
          PROVE  id \in Present(items)
      <3>1. PICK q \in DOMAIN log : q[1] = At[1] /\ q[2] >= At[2] /\ id \in log[q].order.ids
        BY DEF SyncInv, NamedFrom
      <3>2. \A r \in DOMAIN log : r \in Nat \X Nat
        BY DEF SyncInv, TypeOK, Positions
      <3>3. newest \in DOMAIN log /\ log[newest] \in Snapshot
        BY DEF SyncInv, TypeOK
      <3>4. q = newest
        BY <2>1, <3>1, <3>2, <3>3 DEF SyncInv, HistoryInv, Later
      <3>5. id \in Ids /\ log[newest].items[id] # NoItem
        BY <3>1, <3>3, <3>4 DEF Snapshot
      <3>6. ~GoneLater(newest, id)
        BY <3>2, <3>3 DEF GoneLater, SyncInv, HistoryInv, Later
      <3> QED BY <2>1, <3>5, <3>6 DEF SyncInv, FaithfulAt, Present
    <2> QED BY <2>1 DEF UidListCoversItems, SyncInv, Covers
  <1> QED BY <1>1, SyncInvariance, PTL

\* The uid_list of next_state has the server's order as long as every reordering was
\* planned with the refreshed_full_ids of its own version.
THEOREM OrderIsKept == Spec => []UidListKeepsOrder
  <1>1. SyncInv => UidListKeepsOrder
    BY DEF SyncInv
  <1> QED BY <1>1, SyncInvariance, PTL

\* The plans of plan_version_sync, carried out as their decisions say, implement Replica:
\* the list only moves forward, to published versions.
THEOREM SyncImplementsReplica == Spec => ImplementsReplica
  <1>1. Init => ReplicaOf!Init
    BY DEF Init, At, ReplicaOf!Init
  <1>2. SyncInv /\ [Next]_vars => ReplicaStep
    BY SyncInvNext
  <1> QED BY <1>1, <1>2, SyncInvariance, PTL DEF Spec, ImplementsReplica, ReplicaOf!Spec, ReplicaStep
==============================================================================
