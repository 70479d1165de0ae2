---------------------------- MODULE SqliteStorage ----------------------------
(***************************************************************************)
(* The sqlite store (crates/openim-storage-sqlite).  A call is the list of *)
(* statements it executes, each of which sqlite commits on its own: the    *)
(* process may be killed between two of them and opens the same file again *)
(* later.  The connection is owned by one SqliteStorage, so calls do not   *)
(* overlap.  One chat_logs table stands for those of all conversations.    *)
(***************************************************************************)
EXTENDS Sorting, Sequences, SequencesExt

CONSTANTS
    Owners,      \* owner user ids
    ConvIds,     \* conversation ids
    MsgIds,      \* client message ids, numbers: the last key of the order
    Versions,    \* versions of the application's SDK
    MaxVersion,  \* the largest u64 version of a sync record
    MaxI64,      \* the largest version sqlite can hold
    None

\* A message as the services hold it: revoke_message sets both of the last two.
Messages ==
    { m \in [seq : 0..1, time : 0..1, status : {"ok", "HasDeleted"}, revoked : BOOLEAN] :
          m.revoked <=> m.status = "HasDeleted" }
\* What the properties need of a ConversationInfo.
Infos == [latest : {None, "snapshot"}]
\* Rows of the two tables.
ChatRows == [seq : 0..1, time : 0..1, status : {"ok", "HasDeleted"}]
ConvRows == [owner : Owners, latest : {"", "snapshot"}]

ASSUME StorageConstants ==
    /\ MsgIds \subseteq Nat
    /\ MaxVersion \in Nat /\ MaxI64 \in Nat
    /\ None \notin Versions
    /\ None \notin Messages \cup ChatRows \cup ConvRows   \* a row is not the absence of one

VARIABLES
    tables,      \* the tables that exist
    appRows,     \* rows of local_app_sdk_version
    syncRow,     \* the row of one (table_name, entity_id)
    convRows,    \* rows of local_conversations, by the primary key
    chatRows,    \* rows of chat_logs
    call,        \* the statements the current call still has to execute
    failed,      \* the last call returned an error
    acked        \* what the calls that returned Ok have stored, as the traits say it

sqliteVars == <<tables, appRows, syncRow, convRows, chatRows, call, failed, acked>>

\* An i64 column holds a u64 only up to MaxI64; "as i64" would wrap.
I64 == (-(MaxI64 + 1))..MaxI64
AsI64(n) == IF n > MaxI64 THEN n - 2 * (MaxI64 + 1) ELSE n
AllTables == {"app", "sync", "conversations", "chat_logs"}
NothingAcked ==
    [migrated |-> FALSE, owners |-> {}, app |-> None, sync |-> None, messages |-> [m \in MsgIds |-> None],
     convs |-> [k \in Owners \X ConvIds |-> None]]

-----------------------------------------------------------------------------
(* Statements and the calls made of them *)

Statement(kind, on, args) == [kind |-> kind, on |-> on, args |-> args]
Create(t) == Statement("create", t, None)

\* migrate: one batch of CREATE ... IF NOT EXISTS, not one transaction.
MutantMigrateBatch == <<Create("app"), Create("conversations")>>
MigrateBatch == <<Create("app"), Create("sync"), Create("conversations")>>

Upsert(table, args) == Statement("upsert", table, args)
Delete(table, args) == Statement("delete", table, args)
EnsureChatLogsTable == Create("chat_logs")

-----------------------------------------------------------------------------
(* Reading *)

\* get_app_sdk_version: the first row.
GetAppSdkVersion == IF appRows = {} THEN None ELSE CHOOSE v \in appRows : TRUE

\* VersionRecord::try_from: a negative version is an error (-1).
IntoVersionRecord(row) == IF row < 0 THEN -1 ELSE row

GetVersionSync == IF syncRow = None THEN None ELSE IntoVersionRecord(syncRow)

\* RawChatMessage::into_chat_message: revoked is not a column, it is read off the status.
IntoChatMessage(row) ==
    [seq |-> row.seq, time |-> row.time, status |-> row.status,
     revoked |-> row.status = "HasDeleted"]

LoadMessage(i) == IF chatRows[i] = None THEN None ELSE IntoChatMessage(chatRows[i])

\* RawConversation::into_conversation: an empty latest_msg is no message.
IntoConversation(row) == [latest |-> IF row.latest = "" THEN None ELSE row.latest]

\* load_conversations: the rows of one owner.
LoadConversations(o) ==
    [c \in ConvIds |-> IF convRows[c] # None /\ convRows[c].owner = o
                       THEN IntoConversation(convRows[c]) ELSE None]

\* ORDER BY seq DESC, send_time DESC, client_msg_id DESC LIMIT size OFFSET page * size
MutantHistoryBefore(rows, i, j) ==
    IF rows[i].seq # rows[j].seq THEN rows[i].seq > rows[j].seq ELSE i > j
HistoryBefore(rows, i, j) ==
    IF rows[i].seq # rows[j].seq THEN rows[i].seq > rows[j].seq
    ELSE IF rows[i].time # rows[j].time THEN rows[i].time > rows[j].time
    ELSE i > j
PageOf(list, page, size) ==
    SubSeq(list, page * size + 1,
           IF Len(list) < page * size + size THEN Len(list) ELSE page * size + size)
LoadHistory(page, size) ==
    LET ids == { i \in MsgIds : chatRows[i] # None }
    IN  PageOf(Sorted(ids, { p \in ids \X ids : HistoryBefore(chatRows, p[1], p[2]) }), page, size)

\* MessageService::history: all messages by message_order, reversed, then paged.
MessageOrder(msgs, i, j) ==
    IF msgs[i].seq # msgs[j].seq THEN msgs[i].seq < msgs[j].seq
    ELSE IF msgs[i].time # msgs[j].time THEN msgs[i].time < msgs[j].time
    ELSE i < j
AllMessages(msgs) ==
    LET ids == { i \in MsgIds : msgs[i] # None }
    IN  Sorted(ids, { p \in ids \X ids : MessageOrder(msgs, p[1], p[2]) })
MemoryHistory(msgs, page, size) == PageOf(Reverse(AllMessages(msgs)), page, size)
\* MessageService::search in one conversation, for a query found in the messages of found.
MemorySearch(msgs, found, page, size) ==
    LET ids == { i \in found : msgs[i] # None }
    IN  PageOf(Reverse(Sorted(ids, { p \in ids \X ids : MessageOrder(msgs, p[1], p[2]) })), page, size)

-----------------------------------------------------------------------------
(* Writing *)

SqliteInit ==
    /\ tables = {} /\ appRows = {} /\ syncRow = None
    /\ convRows = [c \in ConvIds |-> None]
    /\ chatRows = [i \in MsgIds |-> None]
    /\ call = <<>> /\ failed = FALSE /\ acked = NothingAcked

Refuse == call = <<>> /\ failed' = TRUE
          /\ UNCHANGED <<tables, appRows, syncRow, convRows, chatRows, call, acked>>
Begin(stmts) == call = <<>> /\ call' = stmts /\ failed' = FALSE
                /\ UNCHANGED <<tables, appRows, syncRow, convRows, chatRows, acked>>

Migrate == Begin(MigrateBatch)
SetAppSdkVersion(v) == Begin(<<Upsert("app", v)>>)
\* A version that is no i64 is refused before the statement.
MutantSetVersionSync(n) == Begin(<<Upsert("sync", n)>>)
SetVersionSync(n) == IF n > MaxI64 THEN Refuse ELSE Begin(<<Upsert("sync", n)>>)
DeleteVersionSync == Begin(<<Delete("sync", None)>>)
SaveMessage(i, m) ==
    Begin(<<EnsureChatLogsTable, Upsert("chat_logs", [id |-> i, message |-> m])>>)
SaveConversation(o, c, x) ==
    Begin(Append(MigrateBatch, Upsert("conversations", [owner |-> o, id |-> c, info |-> x])))
RemoveConversation(o, c) == Begin(<<Delete("conversations", [owner |-> o, id |-> c])>>)

\* Each statement sets the rows it writes; acked follows when the call's last one does.
ExecuteCreate(s) ==
    /\ s.kind = "create"
    /\ tables' = tables \cup {s.on}
    /\ acked' = IF s.on = "conversations" THEN [acked EXCEPT !.migrated = TRUE] ELSE acked
    /\ UNCHANGED <<appRows, syncRow, convRows, chatRows>>

\* set_app_sdk_version updates the row it finds, else inserts one.
ExecuteApp(s) ==
    /\ s.on = "app" /\ s.kind # "create"
    /\ appRows' = IF appRows = {} THEN {s.args} ELSE (appRows \ {GetAppSdkVersion}) \cup {s.args}
    /\ acked' = [acked EXCEPT !.app = s.args]
    /\ UNCHANGED <<tables, syncRow, convRows, chatRows>>

ExecuteSync(s) ==
    /\ s.on = "sync" /\ s.kind # "create"
    /\ syncRow' = IF s.kind = "delete" THEN None ELSE AsI64(s.args)
    /\ acked' = [acked EXCEPT !.sync = IF s.kind = "delete" THEN None ELSE s.args]
    /\ UNCHANGED <<tables, appRows, convRows, chatRows>>

\* The columns of a message row: everything the message has except revoked.
ExecuteChat(s) ==
    /\ s.on = "chat_logs" /\ s.kind = "upsert"
    /\ chatRows' = [chatRows EXCEPT ![s.args.id] =
                       [seq |-> s.args.message.seq, time |-> s.args.message.time,
                        status |-> s.args.message.status]]
    /\ acked' = [acked EXCEPT !.messages[s.args.id] = s.args.message]
    /\ UNCHANGED <<tables, appRows, syncRow, convRows>>

\* ON CONFLICT(conversation_id): the row is taken over by the new owner.
UpsertConversationRow(s) ==
    /\ s.on = "conversations" /\ s.kind = "upsert"
    /\ convRows' = [convRows EXCEPT ![s.args.id] =
                       [owner |-> s.args.owner,
                        latest |-> IF s.args.info.latest = None THEN "" ELSE s.args.info.latest]]
    /\ acked' = [acked EXCEPT !.convs[<<s.args.owner, s.args.id>>] = s.args.info,
                              !.owners = @ \cup {s.args.owner}]
    /\ UNCHANGED <<tables, appRows, syncRow, chatRows>>

\* WHERE owner_user_id = ?1 AND conversation_id = ?2
DeleteConversationRow(s) ==
    /\ s.on = "conversations" /\ s.kind = "delete"
    /\ convRows' = IF convRows[s.args.id] # None /\ convRows[s.args.id].owner = s.args.owner
                   THEN [convRows EXCEPT ![s.args.id] = None] ELSE convRows
    /\ acked' = [acked EXCEPT !.convs[<<s.args.owner, s.args.id>>] = None]
    /\ UNCHANGED <<tables, appRows, syncRow, chatRows>>

\* "no such table" ends the call with an error.
MissingTable(s) == s.kind # "create" /\ s.on \notin tables
Execute ==
    /\ call # <<>> /\ ~MissingTable(Head(call))
    /\ LET s == Head(call) IN
          \/ ExecuteCreate(s) \/ ExecuteApp(s) \/ ExecuteSync(s) \/ ExecuteChat(s)
          \/ UpsertConversationRow(s) \/ DeleteConversationRow(s)
    /\ call' = Tail(call)
    /\ UNCHANGED failed
Fail ==
    /\ call # <<>> /\ MissingTable(Head(call))
    /\ call' = <<>> /\ failed' = TRUE
    /\ UNCHANGED <<tables, appRows, syncRow, convRows, chatRows, acked>>

\* The process is killed and the file opened again.
Reopen ==
    /\ call # <<>>
    /\ call' = <<>> /\ failed' = FALSE
    /\ UNCHANGED <<tables, appRows, syncRow, convRows, chatRows, acked>>

SqliteNext ==
    \/ Migrate \/ DeleteVersionSync \/ Execute \/ Fail \/ Reopen
    \/ \E v \in Versions : SetAppSdkVersion(v)
    \/ \E n \in 0..MaxVersion : SetVersionSync(n)
    \/ \E i \in MsgIds, m \in Messages : SaveMessage(i, m)
    \/ \E o \in Owners, c \in ConvIds :
          RemoveConversation(o, c) \/ \E x \in Infos : SaveConversation(o, c, x)

-----------------------------------------------------------------------------
(* Properties *)

SqliteTypeOK ==
    /\ tables \subseteq AllTables
    /\ appRows \subseteq Versions
    /\ syncRow \in I64 \cup {None}
    /\ \A c \in ConvIds : convRows[c] # None =>
           convRows[c].owner \in Owners /\ IntoConversation(convRows[c]) \in Infos
    /\ \A i \in MsgIds : LoadMessage(i) \in Messages \cup {None}
    /\ failed \in BOOLEAN

OneOwner == \A o, p \in acked.owners : o = p

\* What a call saved before it returned is what is loaded, whatever calls were cut short
\* since.  Conversations live under the key conversation_id alone, so for them this holds
\* in a database that no second owner has written to, which the file name per login user
\* provides.
SqliteServesWhatWasSaved ==
    /\ GetAppSdkVersion = acked.app /\ GetVersionSync = acked.sync
    /\ \A i \in MsgIds : LoadMessage(i) = acked.messages[i]
    /\ OneOwner => \A o \in Owners, c \in ConvIds : LoadConversations(o)[c] = acked.convs[<<o, c>>]

\* Once a migration has run to its end, in this process or an earlier one, no call ends in
\* "no such table", however many migrations and saves were cut short.
MigratedForGood == call # <<>> /\ MissingTable(Head(call)) => ~acked.migrated

\* The reading the documentation gives of save_conversation: "owner scoped upsert".
OwnerScopedUpsert ==
    \A o \in Owners, c \in ConvIds : LoadConversations(o)[c] = acked.convs[<<o, c>>]

=============================================================================
