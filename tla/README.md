# A TLA+ verification of openim_sdk_core_rust

The repository is the Rust core of an instant-messaging SDK: a session object
that an application drives, a websocket transport that runs in a thread of its
own, in-memory services for messages, conversations, groups, relations and
users, file uploads, a sync engine, two stores, and bindings for C and the web.
This directory holds TLA+ models of these parts, the TLC configurations that
check them, and TLAPS proofs of the results that matter most.

Paths below are relative to `src/crates/`.

## Inventory

| Component | State it keeps | Operations | What makes it correct |
|---|---|---|---|
| Session lifecycle, `openim-session` | `state`, `login_user_id`, `runtime_resources`, tasks, listeners, domains | `init`, `login`, `logout`, `uninit`, `register_listener`, `unregister_listener`, `start_task`, `stop_task` | the fields agree after every failure; no resource is lost; no data crosses users; listeners can follow |
| Session message flow, `openim-session` | domains, drained transport events | `send_message`, `pull_messages`, `receive_transport_pushes`, `pump_transport_events` | messages are stored, projected and announced together, in any order of arrival, unless a call fails, and then by the next call that takes the message in |
| Message service, `openim-domain/src/message.rs` | messages by conversation and client id | send, acknowledge, receive, range sync, read, revoke | a send that is not settled reported an error; only the owner's messages |
| Conversation service, `openim-domain/src/conversation.rs` | conversations by owner and id | `apply_message`, read, delete, drafts, pins, pages, sync | latest message, max seq, unread count; one order everywhere |
| Native adapter, `openim-session-native` | three channels and a join handle | start, drain, close; the worker's loop; the token check | no thread outlives its login; start, close and reconnect end; gaps are visible; only confirmed users |
| Native websocket client, `openim-transport-native` | stream, pending requests, buffered events | connect, send, wait, receive, receive with timeout, reconnect | an answer goes to its own request, once; pushes keep their order |
| Wasm websocket client, `openim-transport-wasm` | the same over callbacks, without buffer and timeout | connect, send, receive, reconnect | the same; Ok only on an accepted connection |
| Transport core, `openim-transport-core` | pending table, reconnect policy | routing, expiry, codecs | as above |
| Sync engine, `openim-sync` | none (pure) | `diff_by`, `plan_version_sync` | the copy is always a version the server published, and catches up |
| Users, relations, groups, `openim-domain` | keyed maps | upsert, delete, sync | a sync leaves the server's list, nothing else changes, deleted groups take their members along |
| File transfer, `openim-domain/src/file.rs` | upload plan, signed parts | plan, prepare, upload missing parts, resume, complete | the plan tiles the file; a flag is true; nothing is sent twice without need; it ends |
| SQLite storage | tables, rows | migrate, save, load, remove, versions | what was acknowledged is served, whenever the process was killed |
| IndexedDB storage | object stores | the same over transactions | lists agree with entries; bystanders are never hurt |
| C ABI, `openim-ffi` | a session, the last error | one function per operation | `last_error` is current; destroy releases what is not in use |
| Wasm binding, `openim-wasm` | a session, JavaScript callbacks | one method per operation | its own events tell what the session did |
| Protocol, types, errors, tools, examples | none | codecs, generated code, test capture | not behaviour of the SDK's state |

How they interact: the application calls the session, directly or through a
binding; every method takes `&mut self`, so calls on one session never overlap.
At login the session asks its adapter for resources; the native adapter checks
the token, opens SQLite and starts the transport worker, a thread that owns the
websocket client.  Session and worker share three channels: ready (worker to
session, once), shutdown (session to worker, once) and events.
`pump_transport_events` drains the events into the domain services; services
return what changed, and the session turns that into events for the listeners,
called synchronously.  The C ABI registers its callbacks as session listeners;
the wasm binding keeps callbacks of its own and composes their events itself.

What is hard here: two threads and a server with reconnects and shutdown in any
phase; calls that fail half way after changing state; messages and deltas that
arrive late, twice and in any order; resources that refuse to close; timeouts
racing answers; a process killed between two statements, and read-modify-write
across awaits.  `PROJECT.json` lists each of these hazards at its line.

## Modules

| Module | Models | Kind |
|---|---|---|
| `Session` | lifecycle of `OpenImSession` | specification |
| `MCSession` | constants and symmetry for TLC | model |
| `SessionProofs` | theorems about `Session` and `Bindings` | proofs |
| `Bindings` | C ABI and wasm binding on top of `Session` | specification, composes `Session` |
| `TransportResource` | what a session may rely on in its transport | abstract specification |
| `TransportWorker` | session thread, worker thread, server | specification, refines `TransportResource` |
| `TransportWorkerProofs` | theorems about `TransportWorker`, the refinement included | proofs |
| `RequestLife` | what a client promises for its requests | abstract specification |
| `WsClient` | native and wasm client, requests and pushes | specification, refines `RequestLife` |
| `WsClientProofs` | theorems about `WsClient`, the refinement included | proofs |
| `Conversations` | projection of messages onto conversations | operators |
| `MessageFlow` | messages through a logged-in session | specification, uses `Conversations` |
| `MCMessageFlow` | the messages TLC uses | model |
| `MessageFlowProofs` | theorems about `MessageFlow` and `Conversations` | proofs |
| `Replica` | what a versioned sync promises | abstract specification |
| `VersionSync` | `plan_version_sync`, a server and a network | specification, refines `Replica` |
| `VersionSyncProofs` | theorems about `VersionSync`, the refinement included | proofs |
| `Sorting` | what a sort of a finite set returns | operators |
| `SyncEngine` | `diff_by` and the application of its plan | operators |
| `Directory` | groups, relations, users, conversation list | specification, uses `SyncEngine`, `Sorting` |
| `DirectoryProofs` | theorems about `Directory` and `SyncEngine` | proofs |
| `FileUpload` | multipart uploads | specification |
| `FileUploadProofs` | theorems about `FileUpload` | proofs |
| `SqliteStorage` | the sqlite store, statement by statement | specification part |
| `IndexedDbStorage` | the IndexedDB store, transaction by transaction | specification part |
| `Storage` | the store a session picks; comparison of the histories | composes the two |
| `StorageProofs` | theorems about the two stores and `Storage` | proofs |

Definitions named `Mutant...` are deliberate mistakes, one per property; no
specification uses them.  Substituting one for the definition it precedes must
make TLC report the property it was written for.

Each module with a specification has a type invariant, proved as a theorem of its own or as a
conjunct of the inductive invariant of its proof module; the runs spend their time
on the properties that relate pieces of state.

### Session

One action per public method; a call is atomic because of `&mut self`.  The
adapter is a trait, so its results are nondeterministic: `init`, `login`,
`logout` and `uninit` of the adapter may fail, its login may return any set of
resources, any subset of the held resources may refuse to close
(`CloseMayFail`), and the resources may belong to another user
(`AdapterMayMismatch`; `ensure_matches` then rejects them and they are dropped
without `close`).  `live`, `dropped`, `early` and `view` are history: what is
open in the world, what was dropped, who listened from the start, and what a
listener knows from the events it heard: `Heard` takes them one at a time, and
`InOrder` is the order in which closings emit theirs.
`UseDomains` stands for everything that stores data while logged in, failing
calls included; `MessageFlow` has the detail.

When `close_all` meets a resource that refuses, the infos of those that did
close are discarded with the error, so their `ResourceClosed` events are never
emitted.  `ListenersInformed` therefore speaks of openings, tasks and users.

### Bindings

Extends `Session` and drives its actions the way the bindings do.  Through the
C ABI every function sets or clears `last_error` and returns a code, arguments
may be null or not UTF-8, and login goes through the native adapter: the
server's answer to the token is any answer, and the resources are those of the
storage target.  Through the wasm binding the resources are none
(`NoopSessionResourceAdapter`) and the events are composed by the binding.

- `openim_session_destroy` in a login drops the session without closing it and
  leaves the worker running; `DestroyedHandlesAreClean` is about every other
  moment.
- A C callback that calls back into its handle would alias a `&mut`: callers
  must not, and the model has no such step.  A JavaScript callback that calls
  back gets an error that the binding swallows.
- The wasm binding never emits message or conversation events.

### TransportWorker

The worker's control state follows `run_native_transport_worker`: `connecting`
and `authing` are the two awaits of `NativeWsClient::connect`, `checking` is
the shutdown test at the head of the loop, `polling` the timed `recv_event`,
`dialing`, `reauthing` and `sleeping` the awaits of `reconnect`.  The session
thread blocks in `starting` (`ready_rx.recv`) and in `joining` (`join`).
`DropResource` is `openim_session_destroy`, or a rejected login: the thread is
detached.  `shutdown_requested` is `try_recv().is_ok()`, so the dropped sender
is not a shutdown request and a detached worker keeps its connection until the
server ends it and reconnecting fails.  No document promises otherwise, so no
property forbids it; it is worth knowing.  A reconnect whose initial response
is a rejection returns at once: only failed dials are retried.

`TransportResource` is the same seen from the session: the thread and its websocket
are a flag (`running`), the ready channel another (`accepted`), and the events a
queue whose contents, with what was drained before, are `Gapless`.  Channels,
shutdown signal, reconnects and frames are hidden; `ImplementsResource` is the
refinement.

### WsClient

One module for both clients, told apart by `platform`.
`send_request_wait_response` and reading the initial response span several
steps (`waiting # 0`, `initial`), all other calls are one.  Requests are
numbers; `gen_msg_incr` is taken to be unique.  Time is left out: a receive
that timed out has waited for exactly the duration `expire_at` compares with,
so everything pending before it has expired; only the first is reported.  The
server may answer on a later connection.

- The native `reconnect` clears the pending table and the buffer, so pushes
  buffered during a wait and not read yet are lost with the connection, although
  docs/phase-7-message-conversation.md:88 says they can still be consumed;
  `PushesConserved` is a statement about one connection.
- The wasm `reconnect` installs the new socket before the server accepted it.
  After an error the client stands on a connection that may never be accepted;
  `OkMeansAccepted` states what a caller may still rely on.  Its pending
  requests never expire.
- `recv_envelope` is `recv_event` in a loop; each turn is a step of the model.
- `owed` is the set of pushes the server has written to this connection.

`RequestLife` hides frames, calls and platforms and keeps where each request is:
awaited (`PendingRequests`), kept (`buffered_events`), reported, or none of these.
`ImplementsRequestLife` is the refinement.  It says more than `OneVerdictPerRequest`:
also that no request is forgotten while its connection lasts, unless another one
is reported as timed out in the same step, which is what `expire_at` does.

### Conversations and MessageFlow

`Conversations` translates `apply_message`, `should_replace_latest`,
`conversation_target`, `total_unread_count` and the loop of
`apply_messages_to_conversations`.  `MessageFlow` drives it.  The server's copy
of a message is a constant (`Attr`); its `kind` says whether it is a text, a
typing notice (ignored), an empty text or of an unsupported type (decoding
fails for both); a message may also be addressed to somebody else (outside the
user's scope).  Nothing decodes what `pull_messages` and
`receive_transport_pushes` are given, so an empty text is refused there by
`validate_message`.  A push carries messages and notices by conversation, decoded
into one list by `decode_push_messages_response`.  An acknowledgement carries the
sequence number or 0; the application may send the same message again.  With
`ServerMayErr` an acknowledgement may also lack the server id and an event may be
an error.  `projected`, `fresh`, `applied`, `drained`, `announced`, `halfDone`,
`shown` and `shownTotal` are history; `shown` is the conversation list of an
application that follows only the callbacks its events are mapped to
(`map_session_event_payload_to_go_listener_dispatches`) and its own calls.

- A push is decoded into one list by sequence number and send time (`DecodePush`);
  the order of the client ids, which settles ties, is one fixed order.  Typing notices
  are dropped (`TextsOf`) before anything is stored.
- A message delivered twice is counted unread twice; `UnreadNeverUndercounts`
  states the direction that holds.
- Two failures leave a message in the store and in no conversation.  An
  acknowledgement without a server id is refused by `ack_send_success` after the
  message was stored as `Sending`, and nothing marks it failed
  (`message_flow_unsettled_send`).  A foreign message in a batch of pushes ends
  the call with the ones before it stored, not projected and not announced.
- `halfDone` holds the messages whose last storing call returned an error.
  `StoredMessagesAccountedFor` says that these failures, with a failed send, are all there is:
  any other stored message was given to its conversation, and a call that takes
  a message in again makes up for an earlier failure, as a receiver that skipped
  known messages would not.

Assumption `SeqAndTimeAgree`: within a conversation the server's send times
grow with its sequence numbers.  Without it `should_replace_latest` is not an
order (it compares seq when both sides have one and time otherwise) and
`LatestIsNewest` would not be a fair demand.  Assumption `ConvsOfOwner`: `Convs`
holds the conversations of every message the owner may see; it only says that the
constant is large enough.  `ConversationsShowThePeer` leaves out the chat of the
owner with himself, the only one whose other end is the owner.

### Replica and VersionSync

`Replica` is the promise: a copy of one published position that only moves
forward, and that may already lack an item a later version removes.
`VersionSync` is `plan_version_sync` with the caller that its result type and
its tests suggest (no caller exists in the repository yet), a server that
publishes versions, reorders and starts new version ids, and a network in which
a delta is never consumed, so that it can be lost, repeated and delivered in any
order.  `refreshed_full_ids` is fetched by a request of its own: it is the
server's list at any version from the delta's on, or missing.  An id list is
its set and its order (`[ids, before]`).  `ImplementsReplica` instantiates
`Replica` with the items of the log and the local position.

A delta without changes is a Noop even when its version is newer, so the local
version stays behind and the next real delta is a gap, answered by a full sync.
The model server publishes no empty version.

### SyncEngine and Directory

`SyncEngine` has `diff_by` on lists with repeated keys, the loop that applies its
plan (`ApplyPlan`: the last action on a key decides) and the summary.
`Directory` has every put, delete and sync of the five keyed maps; the services
share nothing, so a behaviour is about one of them.  Lists from the server may
repeat an id, carry a foreign scope or an empty id.  Conversation lists have
pins, drafts and times, pages and search, and the order of the stores.

- A sync replaces the whole record: pins and drafts set since the server made
  its list are overwritten.
- The stores sort by the later of message and draft time, the in-memory service
  by message time; the orders agree as long as nothing is drafted, and pins come
  first in both.

### FileUpload

`part_size_for` with its checked products, the plan, the signed session that
signs a batch at a time, uploading what is missing, resuming with the server's
list, completing.  Calls fail, answers to stored puts get lost, signatures are
missing or expire, and the application restarts from a saved plan with older
flags.  A part the session lists is not signed again, so an unusable signature
makes every retry fail until a new upload is prepared; `expire_time` is never
looked at.  The application of the model then prepares a new upload.

### SqliteStorage, IndexedDbStorage, Storage

A sqlite call is its list of statements, each committed on its own; the process
may be killed between two.  `acked` is what the calls that returned Ok promised.
Versions beyond the column's range make a call fail.  An IndexedDB call is its
transactions, interleaved with the calls of other tasks; a request may fail, the
page may be closed, the database deleted.  `HistoriesAgree` compares the pages
of the sqlite query, of the in-memory service and its search, and of the
IndexedDB vector.  `ORDER BY` and the `sort_by`s are `Sorted`: the list of the
set in which everything comes in the order, however it is found.

The key of the conversation table is the conversation id alone.  It is safe
because the database file is per login user (`openim_db_file`), and wrong
against the words "owner scoped upsert" of the documentation.

## Runs

| Run | Expected | Shows | Properties |
|---|---|---|---|
| `session` | pass | no order of calls and failures leaks resources or data; events stay in step | `SessionCoherent`, `DomainsBelongToLoginUser`, `NoResourceEscapes`, `ListenersInformed`, `ErrorsChangeNothing` |
| `bindings` | pass | `last_error`, token check, destroyed handles, and the events the wasm binding composes | `JsListenersInformed`, `LastErrorIsCurrent`, `LoggedInUserConfirmed`, `DestroyedHandlesAreClean` |
| `transport_worker` | pass | hand-over, shutdown, event order; the refinement of `TransportResource`; start, close and reconnect end | `CloseFailsAtMostOnce`, `GapsAreAnnounced`, `ImplementsResource`, `CallsTerminate`, `ReconnectSettles` |
| `ws_client` | pass | one verdict per request, none across connections, pushes conserved, Ok only when accepted; the refinement of `RequestLife` | `NoResponseAcrossConnections`, `PushesConserved`, `OkMeansAccepted`, `ImplementsRequestLife` |
| `message_flow` | pass | any order, replay and batching of messages, with those that are ignored or make a call fail, invalid acknowledgements and revocations: conversations stay right, events keep up, nothing foreign is stored, and what is stored and not shown goes back to a call that failed | `LatestIsNewest`, `UnreadNeverUndercounts`, `ConversationsShowThePeer`, `EventsKeepUpWithConversations`, `OnlyVisibleMessagesStored`, `StoredMessagesAccountedFor` |
| `message_flow_pump_loss` | violation | an unsupported message loses the texts drained with it | `DrainedTextsStored` |
| `message_flow_unsettled_send` | violation | an acknowledgement without an id leaves the message `Sending` | `SentMessagesSettle` |
| `version_sync` | pass | the refinement of `Replica`, uid lists, and catching up | `UidListCoversItems`, `UidListKeepsOrder`, `ImplementsReplica`, `CatchesUp` |
| `directory` | pass | syncs mirror the server and change what they say; deleted groups stay empty; lists agree | `SyncMirrorsServer`, `NoResurrectedMembers`, `ConversationListsAgree`, `CallsChangeWhatTheySay` |
| `file_upload` | pass | the plan fits, flags are true, no redundant puts, the upload ends | `PlanFitsTheFile`, `FlagsAreStored`, `NoRedundantPuts`, `UploadEnds` |
| `storage` | pass | acknowledged data is served after crashes, migrations finish, histories agree, bystanders are unharmed | `SqliteServesWhatWasSaved`, `MigratedForGood`, `HistoriesAgree`, `SettledElementsAgree` |
| `storage_owner_scope` | violation | a conversation saved for a second owner takes the row of the first | `OwnerScopedUpsert` |

The three violations are disagreements between the code and a sentence of its
documentation; `PROJECT.json` quotes the sentence for each.

Every module a run checks also states its types (`TypeOK`, `BindingsTypeOK`).  The runs do not
list them: they are theorems or parts of the proved inductive invariants, and hold under the
configurations above when named as an `INVARIANT`.  `OneVerdictPerRequest` and `NoWorkerLeftBehind` are
theorems too and not listed either, because the refinements of `RequestLife` and
`TransportResource` that the runs check imply them.

Bounds, and why they are enough:

- `session`, `bindings`: two users (isolation needs a second one), two logins
  (a resource of the first in the second), two or three resources per login (one
  closes, another refuses), two listeners (one unregistered while one stays).
  Users are symmetric in `session`.
- `transport_worker`: two reconnect attempts (the limit and one below it),
  three pushes, two frames in flight and two broken connections, so that a
  push can be read before, missed during and read after a gap, twice.
- `ws_client`: three requests, two outstanding, two pushes, two connections,
  two frames in flight: an answer can overtake another, arrive after a timeout
  or after a reconnect, and a push can come between.
- `message_flow`: two conversations, messages of the peer around one of the
  owner, and one message of each kind that is ignored or refused (an unsupported
  type fails to decode as the empty text does and takes its place in
  `message_flow_pump_loss`); three sends, pulls or pushes of one or two messages
  each, with any number of reads and deletions: enough for a batch refused half
  way, its repetition and one more.  A queue of two pushes is enough to pump a
  batch of four.
- `version_sync`: two ids (an order to lose), two values, two versions after the
  first in each of three epochs: a delta can be late, early, repeated, of an old
  epoch, and ids can be one version ahead.
- `directory`: two ids per scope and two scopes, lists of up to two items: an id
  repeated, omitted, misplaced; drafts and pins by one owner and by none.
- `file_upload`: sizes of 0 to 5 with limits on both sides of them and a small
  `MaxU64`, signatures in batches of two for up to three parts, two faults.
- `storage`: two messages (an order), two owners of one conversation id, a
  column that holds versions up to 1, two tasks, elements and values.

Deadlock is checked for `session`, `directory` and `storage`.  The other models
stop where their bounds on traffic or the end of the worker, the upload or the
handle stop them, so their configurations turn the check off; whether anything
gets stuck is stated by the liveness properties.

Fairness:

- `TransportWorker`: the operating system runs a thread that is not blocked
  (`ThreadFairness`), which covers both threads, their timers and the delivery
  of frames already read.  `ServerAnswers`, that the server answers connection
  attempts, is an assumption on the environment: neither `connect` nor
  `read_initial_response` has a timeout, so a server that accepts a connection
  and stays silent blocks start, reconnect and with it close.  The server is
  never required to push, ping or disconnect, the application never to call.
- `VersionSync`: the caller keeps polling and carries out a full sync that is
  wanted.  No other delivery is assumed, and the server's bound on versions is
  the silence in which it is caught up with.
- `FileUpload`: the application goes on with its upload, and prepares a new one
  when the next part's signature is unusable; of the calls that may fail, faults
  are bounded by `MaxFaults`.

## Proofs

Every safety property of the passing runs, invariant or step property, is a theorem
for all values of the constants.  Each component has
an inductive invariant, `IInv`, with `Init => IInv`, one lemma per action for
`IInv /\ Next => IInv'`, and the properties as its consequences; the invariants
were checked by TLC on the configurations above before they were proved.

Recursive functions and folds are handled without induction schemes: a set of
numbers that is not empty has a least one (`LeastNumber`, from the
well-foundedness of `<`), so a statement that holds of 0 and is handed from `i`
to `i + 1` holds up to any bound (`Induct`), and a function defined by recursion
is the history `h[0], h[1], ...` of its steps (`Repeats`, `IsHeard`).  That a finite
set can be sorted, in one way, is shown by counting: an element's place is the number
of elements up to it (`Ranks`, `PlaceIsRank`).  These lemmas are stated where they are
used, so that each proof module stands on its own component.

**`SessionProofs`**, for every set of users, tasks and resources and every bound.

- `ResourceInvariance`: `ResourceInv` is inductive.  The properties alone are
  not: that `held` belongs to the latest login survives `Login` only because
  nothing is held while `runtime_resources` is `None`, and that fresh resources
  are not among the dropped ones needs the dropped ones to stem from earlier
  logins.  From it `SessionIsCoherent`, `DomainsIsolation`,
  `ResourcesStayReachable`, `ResourcesClosedOutsideLogin`, and the step
  properties `ErrorsAreInvisible` and `UnregisteredIsSilent`.
- `ViewInvariance`: what every listener believes.  A view is the fold of the
  events heard; the lemmas about `Heard` say what each kind of event list
  (openings, closings of tasks and resources, a single event) makes of any view.
  The invariant adds to `ListenersInformed` that a listener that was never
  registered has heard nothing.  From it `ListenersFollow`.
- `BindingsInvariance`: the same session driven by the bindings.  `HandleInv`
  says that nothing but destroying the handle drops a resource, because the
  bindings' adapters return what they were asked for; without it
  `DestroyedHandlesAreClean` does not follow.  `JsInv`, for the events the wasm
  binding composes by hand, needs that there tasks run exactly during a login.
  From them `LastErrorCurrent`, `OnlyConfirmedUsers`, `CleanDestruction`,
  `JsListenersFollow`.

**`TransportWorkerProofs`**, for every retry limit, any traffic, and a server that
may stay silent (fairness plays no part in safety).

- `HandoverInv` ties the ready channel to the worker's phase and `closeErrs` to
  the session's; from it `WorkerIsJoined`, `ConnectedBeforeOpen` and
  `RetriedCloseSucceeds`.
- `GapsInv`, for `GapsAnnounced`: unread pushes are in order and none is missing
  between one of them and the last one written to this connection
  (`InboxInOrder`); they follow whatever was seen (`SeenComesFirst`), with nothing
  missing after the last event if that is a push (`NoneLostInBetween`); and a
  worker that redials has said `Disconnected` last (`LossIsAnnounced`).  The last
  is what lets a reconnect throw the inbox away.
- `WorkerImplementsResource`, the refinement, from these invariants and
  `ServingInv` (a worker past its connection phase has reported it, and an ended
  one has a result): each call of the session is the call of that name, a frame
  that is forwarded a `Deliver`, an exit a `Stop`, and the rest stutters.  It holds
  without fairness, so a silent server does not break the contract.

**`WsClientProofs`**, for both platforms, any number of requests, pushes and
connections.  `ClientInv` adds to the properties where a request may be (pending,
buffered or reported, never two of them), that nothing is under way without a
connection, that an acknowledgement on the wire is the server's, and that while one
is awaited no push overtakes it.  `ClientImplementsRequestLife` is the refinement: a
response settles or keeps its request (`ReportSettles`, `BufferKeeps`) because no
request is in two places, and a connection changes only where nothing is left over.

**`MessageFlowProofs`**, for any conversations, messages and traffic under
`SeqAndTimeAgree` and `ConvsOfOwner`.

- `Agrees` says what an entry is in terms of exactly the messages projected onto
  it: its newest, its highest sequence number, at least its unread ones.
  `FlowInv` puts that beside the application's copy (`shown`), the events told so
  far and what may be stored.  `LatestIsNewest` alone is not inductive: whether
  `should_replace_latest` replaces rightly depends on the entry's latest message
  being the newest of all projected ones.
- A batch is followed message by message (`Filed`), since one batch may create a
  conversation and change it again.  From `FlowInv`: `LatestShown`,
  `UnreadCounts`, `EventsKeepUp`, `OnlyVisibleStored`, `PeerShown` and `FlowTypes`,
  where the total of unread messages is a fold over all conversations.
- `StoredAccounted` assumes nothing of the server.  Its property is inductive
  beside `FlowInv`: `ApplyTransportEnds` splits a batch of pushes into one taken in
  as a whole and a refused one that stored its first `k` messages, and
  `StoredWithAccount` follows what was stored into `applied` or `halfDone`.

**`DirectoryProofs`**, for any number of ids and lists of any length, with foreign,
empty and repeated ids.

- `AscendingOrder`, `ItemsOfScope`, `DiffPlans`: the items of a scope list every
  row of it once, and `diff_by` plans one action per item of the server and then
  one deletion per local item the server does not name.
- `SyncedScope`: applying that plan leaves the scope with the server's list
  (`Mirrors`) and every other scope alone, although a repeated id may be updated
  twice or updated and then found unchanged.  `SyncCounts`: the summary counts
  what came, went and stayed, by one-to-one maps between actions and ids.
- `DirInv` is the types with the two invariants; it is inductive because a list
  passes `ensure_pair` before a plan is made.  From it `SyncsMirror`,
  `MembersStayGone`, `DirectoryTypes` and the step property `CallsAreHonest`.
- `ListsAgree` follows from the types alone, by what sorting and paging do.
  `PagesTile`: pages of any size, at least as many as there are items, flatten to
  the list.  `ListIsUnique`: two orders that agree on a set give one list, so the
  stores list as the service does while nothing is drafted.  `FirstPlaces`: what an
  order puts first, here the pinned conversations, is the front of the list.

**`FileUploadProofs`**, for any sizes, limits and numbers of faults.

- `part_size_for` and the plan, for `PlansFit`: each part starts where the one
  before it ends, all have one size but the last (`Layout`); checked products
  that overflow are refused.
- `UploadInv`: the plan changes only in its flags, the server has parts of this
  plan only, a flag is never ahead of the server, and a part without a flag was
  put again only if an answer was lost.  From it `FlagsTrue` and `PutsOnce`.

**`StorageProofs`**, for any owners, conversations, messages, versions, tasks and
elements.

- `SqliteInv`: the rows of each table are those of the calls acknowledged so far,
  and of a call under way only by the statement it is about to acknowledge
  (`AppServed`, `ChatServed`, `ConvsServed`); every statement finds its table or
  an earlier one of the same call creates it (`Prepared`), which is what a crash
  between two statements of a migration could break.  From it `SavedIsServed` and
  `MigratedOnce`.
- `IdbInv`: calls that overlap have met (`OverlapsAreMet`), an undisturbed call's
  entry stays (`OwnEntryKept`), and a list that was read agrees with the entries
  of all elements that are settled and that no call works on, however long ago it
  was read (`ReadsAgree`).  Together these make the write of the whole list safe
  for its bystanders: `SettledElements`.
- `HistoriesEverywhere`: only finitely many messages are saved (`FinitelySaved`,
  inductive), and sequence number, time and id order them strictly
  (`TimeOrders`).  A finite set in a strict total order has a list (`ListExists`,
  each element in the place of its rank) and only one (`ListIsUnique`); reversed it
  is the list in the opposite order, and `SubSeq` cuts a page as skip and take do
  (`PagesCutAlike`).  The lemma `PagesAgree` is for every page and size.

**`VersionSyncProofs`**, for any ids, values, versions and epochs.

- `SyncInvariance`: `SyncInv` is inductive.  That the copy is faithful to its
  position needs more than itself: an item outside `uid_list` is dropped, so the
  list must cover the items; ids fetched late name items of later versions, so
  the ids of the list are those of this or a later version; and an incremental
  plan uses the version just before the delta's, so the log may have no holes
  within an epoch and `newest` must be its end.
- `DeltaDescribes` says what a delta tells of two snapshots, `IncrementalPlan`
  goes through one item: outside the new list, updated or inserted, deleted, or
  untouched.  `MoveTo` and `StayAt` turn that into the invariant and a step of
  `Replica`; there is one lemma per action on top of them.
- From it: `UidListCovers`, `OrderIsKept` and the refinement,
  `SyncImplementsReplica`.

The assumptions are the named `ASSUME`s of the modules: the ranges of the
constants; that sets one counts over (`Positions`, `AppTasks`, `Convs`) are
finite; that `NoUser` is not a user, `NoItem` not a value, `None` not a row, a
version or a value, `Absent` not a value and `NoMsg` not a message; and the two of
`MessageFlow` explained above.

Only model-checked:

- liveness under fairness, which is out of the prover's reach: `CallsTerminate`,
  `ReconnectSettles`, `CatchesUp`, `UploadEnds`;
- the three runs that end in a violation.

## Left out, and the plan

Next: a composition of `Session` with `TransportResource` in place of one of its
anonymous resources, so that what a retried logout, a rejected login and a pump of
events see of the transport is stated of both together.

Not modelled: codecs, protobuf and generated code, request builders and urls
(stateless data conversion), hashes, names and headers of uploads, accessors
and texts of errors, the IndexedDB stubs outside wasm32, the tools, examples and
compatibility tests (capture and comparison of test data, not part of the SDK).
