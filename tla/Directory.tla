------------------------------ MODULE Directory -------------------------------
(***************************************************************************)
(* The services that keep lists of the server: groups and their members    *)
(* (crates/openim-domain/src/group.rs), friends and blacklist              *)
(* (relation.rs), profiles (user.rs) and the conversation list             *)
(* (conversation.rs; the projection of messages is in Conversations).      *)
(*                                                                         *)
(* The services share no state, so a behaviour is about one of them, named *)
(* by service, and rows is its map: the members of each group, the friends *)
(* or the blacklist or the conversations of each owner, the fields of each *)
(* profile.  Ids are numbers and 0 is the empty string.  Lists come from   *)
(* the server and may be wrong: a foreign scope, an empty id, a repeated   *)
(* key.                                                                    *)
(*                                                                         *)
(* A definition named Mutant... is a wrong version of the definition that  *)
(* follows it, kept to show that the properties notice the mistake.        *)
(***************************************************************************)
EXTENDS SyncEngine, Sorting

CONSTANTS MaxId,      \* ids are 1..MaxId
          Drafters,   \* bound: owners that pin conversations and write drafts
          MaxList     \* bound: length of a list from the server

ASSUME DirectoryConstants == MaxId \in Nat \ {0} /\ MaxList \in Nat /\ Drafters \subseteq 0..MaxId

VARIABLES
    service, \* the service under consideration
    groups,  \* GroupService.groups
    rows,    \* its other map, or the map of another service
    last,    \* history: the last call with its argument and its outcome
    joined   \* history: members put since their group was last deleted

vars == <<service, groups, rows, last, joined>>

Services == {"groups", "friends", "blacklist", "users", "conversations"}
Ids == 1..MaxId
Keys == Ids \X Ids

\* What the properties need of a FriendInfo, GroupMemberInfo, ConversationInfo...
Val == [pinned: BOOLEAN, draft: BOOLEAN, time: {1, 2}]
ServerVals == {[pinned |-> FALSE, draft |-> FALSE, time |-> t] : t \in {1, 2}}
ASSUME NoneIsNoVal == None \notin Val
OneVal == CHOOSE v \in ServerVals : TRUE

\* Items the server may send for a scope: its own, one of another scope and one
\* without an id.  Such a one comes last in its list.
OwnItems(scope) == [scope: {scope}, id: Ids, val: ServerVals]
BadItems(scope) == [scope: {(scope % MaxId) + 1}, id: {1}, val: {OneVal}]
                     \cup [scope: {scope}, id: {0}, val: {OneVal}]
Lists(scope) ==
    IF scope = 0 THEN {<<>>}
    ELSE {list \in UNION {[1..n -> OwnItems(scope) \cup BadItems(scope)] : n \in 0..MaxList} :
             \A i \in DOMAIN list : list[i] \in BadItems(scope) => i = Len(list)}
NoSummary == Summarize(<<>>)

TypeOK ==
    /\ service \in Services
    /\ groups \in [Ids -> Val \cup {None}]
    /\ rows \in [Keys -> Val \cup {None}]
    /\ joined \subseteq Keys
    /\ last.ok \in BOOLEAN

Init ==
    /\ service \in Services
    /\ groups = [g \in Ids |-> None]
    /\ rows = [k \in Keys |-> None]
    /\ last = [call |-> "none", scope |-> 0, list |-> <<>>, ok |-> TRUE,
               summary |-> NoSummary]
    /\ joined = {}

Returns(call, scope, list, ok, summary) ==
    last' = [call |-> call, scope |-> scope, list |-> list, ok |-> ok,
             summary |-> summary]

\* Err: the call has no effect.
Fails ==
    /\ Returns("error", 0, <<>>, FALSE, NoSummary)
    /\ UNCHANGED <<service, groups, rows, joined>>

\* ensure_pair for every item, and that it belongs to scope.
Acceptable(scope, list) ==
    /\ scope # 0
    /\ \A i \in DOMAIN list : list[i].scope = scope /\ list[i].id # 0

\* upsert_*, delete_*: keyed by scope and id.
Put(scope, id, val) ==
    IF scope = 0 \/ id = 0 THEN Fails
    ELSE /\ rows' = [rows EXCEPT ![<<scope, id>>] = val]
         /\ joined' = IF val = None THEN joined \ {<<scope, id>>}
                      ELSE joined \cup {<<scope, id>>}
         /\ Returns("edit", scope, <<>>, TRUE, NoSummary)
         /\ UNCHANGED <<service, groups>>

\* sync_*: check everything, plan against the items of the scope, apply.
Sync(call, scope, list) ==
    IF ~Acceptable(scope, list) THEN Fails
    ELSE LET plan == DiffBy(list, ItemsOf(rows, scope), DefaultOptions)
         IN  /\ rows' = ApplyPlan(rows, plan)
             /\ joined' = {k \in joined : k[1] # scope} \cup {Key(list[i]) : i \in DOMAIN list}
             /\ Returns(call, scope, list, TRUE, Summarize(plan))
             /\ UNCHANGED <<service, groups>>

-----------------------------------------------------------------------------
(* GroupService *)

UpsertGroup(g, val) ==
    /\ service = "groups"
    /\ IF g = 0 THEN Fails
       ELSE /\ groups' = [groups EXCEPT ![g] = val]
            /\ Returns("edit", g, <<>>, TRUE, NoSummary)
            /\ UNCHANGED <<service, rows, joined>>

MutantWithoutMembers(gone) == [k \in Keys |-> IF k[2] \in gone THEN None ELSE rows[k]]

\* The members of the groups in gone are retained out of the map.
WithoutMembers(gone) == [k \in Keys |-> IF k[1] \in gone THEN None ELSE rows[k]]

DeleteGroup(g) ==
    /\ service = "groups"
    /\ IF g = 0 THEN Fails
       ELSE /\ groups' = [groups EXCEPT ![g] = None]
            /\ rows' = WithoutMembers({g})
            /\ joined' = {k \in joined : k[1] # g}
            /\ Returns("edit", g, <<>>, TRUE, NoSummary)
            /\ UNCHANGED service

GroupItems == [k \in {1} \X Ids |-> groups[k[2]]]
AsGroups(list) == [i \in DOMAIN list |-> [list[i] EXCEPT !.scope = 1]]

MutantSyncGroups(list) ==
    /\ service = "groups"
    /\ IF \E i \in DOMAIN list : list[i].id = 0 THEN Fails
       ELSE LET plan == DiffBy(AsGroups(list), ItemsOf(GroupItems, 1), DefaultOptions)
                after == ApplyPlan(GroupItems, plan)
                gone == {plan[i].item.id : i \in {j \in DOMAIN plan : plan[j].state = "Delete"}}
            IN  /\ groups' = [g \in Ids |-> after[<<1, g>>]]
                /\ joined' = {k \in joined : k[1] \notin gone}
                /\ Returns("sync_groups", 1, AsGroups(list), TRUE, Summarize(plan))
                /\ UNCHANGED <<service, rows>>

\* sync_groups: a group the server no longer lists goes through delete_group.
SyncGroups(list) ==
    /\ service = "groups"
    /\ IF \E i \in DOMAIN list : list[i].id = 0 THEN Fails
       ELSE LET plan == DiffBy(AsGroups(list), ItemsOf(GroupItems, 1), DefaultOptions)
                after == ApplyPlan(GroupItems, plan)
                gone == {plan[i].item.id : i \in {j \in DOMAIN plan : plan[j].state = "Delete"}}
            IN  /\ groups' = [g \in Ids |-> after[<<1, g>>]]
                /\ rows' = WithoutMembers(gone)
                /\ joined' = {k \in joined : k[1] \notin gone}
                /\ Returns("sync_groups", 1, AsGroups(list), TRUE, Summarize(plan))
                /\ UNCHANGED service

UpsertMember(g, u, val) == service = "groups" /\ Put(g, u, val)

DeleteMember(g, u) == service = "groups" /\ Put(g, u, None)

\* sync_group_members does not ask whether the group is known.
SyncGroupMembers(g, list) == service = "groups" /\ Sync("sync_group_members", g, list)

-----------------------------------------------------------------------------
(* RelationService *)

UpsertFriend(o, u, val) == service = "friends" /\ Put(o, u, val)

DeleteFriend(o, u) == service = "friends" /\ Put(o, u, None)

SyncFriends(o, list) == service = "friends" /\ Sync("sync_friends", o, list)

UpsertBlacklist(o, u, val) == service = "blacklist" /\ Put(o, u, val)

DeleteBlacklist(o, u) == service = "blacklist" /\ Put(o, u, None)

SyncBlacklist(o, list) == service = "blacklist" /\ Sync("sync_blacklist", o, list)

-----------------------------------------------------------------------------
(* UserService: the rows of a user are the fields of the profile *)

HasProfile(u) == \E f \in Ids : rows[<<u, f>>] # None

\* upsert_profile writes every field.
UpsertProfile(u, val) ==
    /\ service = "users"
    /\ IF u = 0 THEN Fails
       ELSE /\ rows' = [k \in Keys |-> IF k[1] = u THEN val ELSE rows[k]]
            /\ Returns("edit", u, <<>>, TRUE, NoSummary)
            /\ UNCHANGED <<service, groups, joined>>

\* update_profile writes the fields the patch names, if there is a profile.
UpdateProfile(u, patch, val) ==
    /\ service = "users"
    /\ IF u = 0 \/ (u \in Ids /\ ~HasProfile(u)) THEN Fails
       ELSE /\ rows' = [k \in Keys |-> IF k[1] = u /\ k[2] \in patch THEN val ELSE rows[k]]
            /\ Returns("edit", u, <<>>, TRUE, NoSummary)
            /\ UNCHANGED <<service, groups, joined>>

-----------------------------------------------------------------------------
(* ConversationService *)

UpsertConversation(o, c, val) ==
    service = "conversations" /\ Put(o, c, val)

DeleteConversation(o, c) ==
    service = "conversations" /\ Put(o, c, None)

\* conversation_mut, and the edit of what it finds.
Edit(o, c, field, flag) ==
    IF o = 0 \/ c = 0 THEN Fails
    ELSE IF rows[<<o, c>>] = None THEN Fails
    ELSE Put(o, c, [rows[<<o, c>>] EXCEPT ![field] = flag])

SetPinned(o, c, pinned) ==
    service = "conversations" /\ Edit(o, c, "pinned", pinned)

SetDraft(o, c, draft) ==
    service = "conversations" /\ Edit(o, c, "draft", draft)

SyncConversations(o, list) ==
    service = "conversations" /\ Sync("sync_conversations", o, list)

\* conversation_order: pinned first, then newest first, then by id.
ConversationOrder(a, b) ==
    IF a.val.pinned # b.val.pinned THEN a.val.pinned
    ELSE IF a.val.time # b.val.time THEN a.val.time > b.val.time
    ELSE a.id < b.id

\* The conversations of one owner, of the service and of a store.
ConversationsOf(o) ==
    { [scope |-> o, id |-> c, val |-> rows[<<o, c>>]] : c \in { c \in Ids : rows[<<o, c>>] # None } }

AllConversations(o) ==
    LET all == ConversationsOf(o)
    IN  Sorted(all, { p \in all \X all : ConversationOrder(p[1], p[2]) })

\* conversation_time of the stores: a draft counts, and is newer than every message here.
ConversationTime(item) == IF item.val.draft THEN 3 ELSE item.val.time

\* conversation_order of the IndexedDB store; the ORDER BY of sqlite leaves ties open.
StoreConversationOrder(a, b) ==
    \/ a.val.pinned /\ ~b.val.pinned
    \/ /\ a.val.pinned = b.val.pinned
       /\ \/ ConversationTime(a) > ConversationTime(b)
          \/ ConversationTime(a) = ConversationTime(b) /\ a.id < b.id

\* load_conversations of the same rows.
StoredConversations(o) ==
    LET all == ConversationsOf(o)
    IN  Sorted(all, { p \in all \X all : StoreConversationOrder(p[1], p[2]) })

\* Pagination::normalized
Normalized(page, show) ==
    [page |-> IF page < 0 THEN 0 ELSE page, show |-> IF show <= 0 THEN 200 ELSE show]

MutantPaginate(items, page, show) ==
    LET p == Normalized(page, show)
        start == p.page * (p.show + 1)
    IN  SubSeq(items, start + 1, Min({start + p.show, Len(items)}))

Paginate(items, page, show) ==
    LET p == Normalized(page, show)
        start == p.page * p.show
    IN  SubSeq(items, start + 1, Min({start + p.show, Len(items)}))

\* conversation_matches, for a query found in the ids of found or in a draft.
ConversationMatches(item, found) == item.id \in found \/ item.val.draft

SearchConversations(o, found, page, show) ==
    LET all == AllConversations(o)
    IN  Paginate(Kept(all, {i \in DOMAIN all : ConversationMatches(all[i], found)}), page, show)

-----------------------------------------------------------------------------
Next ==
    \/ \E s \in 0..MaxId : \E list \in Lists(s) :
          \/ SyncGroupMembers(s, list)
          \/ SyncFriends(s, list)
          \/ SyncBlacklist(s, list)
          \/ SyncConversations(s, list)
    \/ \E list \in Lists(1) : SyncGroups(list)
    \/ \E s \in 0..MaxId, v \in ServerVals :
          \/ UpsertGroup(s, v)
          \/ UpsertProfile(s, v)
          \/ \E patch \in SUBSET Ids : UpdateProfile(s, patch, v)
    \/ \E s \in 0..MaxId : DeleteGroup(s)
    \/ \E s, u \in 0..MaxId :
          \/ DeleteMember(s, u)
          \/ DeleteFriend(s, u)
          \/ DeleteBlacklist(s, u)
          \/ DeleteConversation(s, u)
          \/ \E b \in BOOLEAN : s \in Drafters /\ (SetPinned(s, u, b) \/ SetDraft(s, u, b))
          \/ \E v \in ServerVals :
                \/ UpsertMember(s, u, v)
                \/ UpsertFriend(s, u, v)
                \/ UpsertBlacklist(s, u, v)
                \/ UpsertConversation(s, u, v)

Spec == Init /\ [][Next]_vars

-----------------------------------------------------------------------------
(* Properties *)

NoRepeats(list) == \A i, j \in DOMAIN list : i # j => list[i].id # list[j].id

SyncCalls == {"sync_groups", "sync_group_members", "sync_friends",
              "sync_blacklist", "sync_conversations"}
Synced == last.ok /\ last.call \in SyncCalls
MapOf(call) == IF call = "sync_groups" THEN GroupItems ELSE rows
SyncedMap == MapOf(last.call)

\* After a sync the scope holds the server's list: its ids, each with a value
\* listed for it (the only one, unless the list repeats an id).
SyncMirrorsServer ==
    Synced => \A k \in DOMAIN SyncedMap :
        k[1] = last.scope =>
            LET listed == {last.list[i].val : i \in
                              {j \in DOMAIN last.list : last.list[j].id = k[2]}}
            IN  IF listed = {} THEN SyncedMap[k] = None ELSE SyncedMap[k] \in listed

\* The summary of a sync accounts for the list: what was there plus what was
\* inserted minus what was deleted is what is there now.
SummaryAccounts ==
    LET count == last'.summary
        before == Len(ItemsOf(MapOf(last'.call), last'.scope))
        after == Len(ItemsOf(SyncedMap, last.scope)')
    IN  /\ after = count["Insert"] + count["Update"] + count["Unchanged"]
        /\ after = before + count["Insert"] - count["Delete"]

\* A call changes what it says: rows of the scope it names only (a deleted group
\* takes the members of that group along), as many as its summary counts, and
\* nothing when it fails.
CallsChangeWhatTheySay ==
    [][/\ ~last'.ok => UNCHANGED <<groups, rows>>
       /\ \A k \in Keys : rows'[k] # rows[k] =>
             \/ k[1] = last'.scope
             \/ last'.call = "sync_groups" /\ groups'[k[1]] = None
       /\ (Synced' /\ NoRepeats(last'.list)) => SummaryAccounts]_vars

\* A group that is deleted, by a call or by a sync, and comes back does not
\* come back with its old members.
NoResurrectedMembers ==
    service = "groups" => \A k \in Keys : rows[k] # None => k \in joined

\* The pages of the conversation list, of any size, are the list, and searching a page at
\* a time finds what matches, in the order of the list.
PagesAreTheList(o, show) ==
    LET all == AllConversations(o)
        found == Kept(all, {i \in DOMAIN all : all[i].id = 1 \/ all[i].val.draft})
    IN  /\ FlattenSeq([p \in 1..Len(all) |-> Paginate(all, p - 1, show)]) = all
        /\ Paginate(all, -1, show) = Paginate(all, 0, show)
        /\ FlattenSeq([p \in 1..Len(all) |->
                          SearchConversations(o, {1}, p - 1, show)]) = found

\* The service and the stores list the same rows in the same order as long as nothing is
\* drafted, and a pinned conversation comes first in both whatever is drafted.
StoresKeepTheOrder(o) ==
    LET all == AllConversations(o)
        stored == StoredConversations(o)
    IN  /\ (\A i \in DOMAIN all : ~all[i].val.draft) => all = stored
        /\ \A i \in DOMAIN all : all[i].val.pinned = stored[i].val.pinned

\* The same conversations are listed, paged and searched in one order everywhere: by
\* get_all_conversations, page by page, by the search, and by the stores.
ConversationListsAgree ==
    service = "conversations" =>
        \A o \in Ids : /\ \A show \in {0, 1, 2} : PagesAreTheList(o, show)
                       /\ StoresKeepTheOrder(o)
=============================================================================
