-------------------------- MODULE IndexedDbStorage --------------------------
(***************************************************************************)
(* The IndexedDB store (crates/openim-storage-indexeddb, wasm32).  Every   *)
(* get_json, put_json and delete_key opens the database, runs one          *)
(* transaction on one object store and closes it; the calls are futures on *)
(* one thread, so calls of the page's tasks interleave at every await.  A  *)
(* message is kept twice: under its own key and in its conversation's      *)
(* history; a conversation under its own key and in its owner's list.      *)
(*                                                                         *)
(* Object stores share nothing, so a behaviour looks at one of them, and   *)
(* at one history or owner's list in it.                                   *)
(***************************************************************************)
EXTENDS Sorting, Sequences

CONSTANTS
    Tasks,       \* tasks of the page that may call the store at the same time
    Elements,    \* client message ids, conversation ids or version keys
    Values,      \* what is stored for one of them
    Absent       \* get_json's None

ASSUME IndexedDbConstants == Absent \notin Values

VARIABLES
    store,       \* "messages", "conversations" or "versions"
    entries,     \* the value under each key
    list,        \* the history, or the owner's list
    tasks,       \* the call each task is in
    unsettled    \* elements whose last call failed, or overlapped another call

idbVars == <<store, entries, list, tasks, unsettled>>

Idle == [pc |-> "idle"]
Active(t) == tasks[t].pc # "idle"
ActiveTasks == { t \in Tasks : Active(t) }
Empty == [e \in Elements |-> Absent]

\* upsert_message / upsert_conversation and the retain of remove_conversation; the vectors
\* hold an id at most once.
Upserted(l, e, v) == [l EXCEPT ![e] = v]
Retain(l, e) == [l EXCEPT ![e] = Absent]

IdbInit ==
    /\ store \in {"messages", "conversations", "versions"}
    /\ entries = Empty /\ list = Empty
    /\ tasks = [t \in Tasks |-> Idle]
    /\ unsettled = {}

-----------------------------------------------------------------------------
\* The first transaction of a call.  A call that meets another one is not settled by its end.
Enter(t, e, v) ==
    /\ ~Active(t)
    /\ entries' = [entries EXCEPT ![e] = v]
    /\ tasks' = [u \in Tasks |->
           IF u = t THEN [pc |-> "get", element |-> e, value |-> v, met |-> ActiveTasks # {}]
           ELSE IF Active(u) THEN [tasks[u] EXCEPT !.met = TRUE] ELSE Idle]
    /\ UNCHANGED <<store, list, unsettled>>

\* save_message: put the message, then read, change and write the history.
PutMessage(t, e, v) == store = "messages" /\ Enter(t, e, v)
\* save_conversation, the same on the owner's list.
PutConversation(t, e, v) == store = "conversations" /\ Enter(t, e, v)
\* remove_conversation: delete the key, then read, filter and write the owner's list.
DeleteConversation(t, e) == store = "conversations" /\ Enter(t, e, Absent)

GetList(t) ==
    /\ tasks[t].pc = "get"
    /\ tasks' = [tasks EXCEPT ![t] =
           [pc |-> "put", element |-> @.element, value |-> @.value, met |-> @.met, read |-> list]]
    /\ UNCHANGED <<store, entries, list, unsettled>>

MutantPutList(t) ==
    /\ tasks[t].pc = "put"
    /\ LET c == tasks[t] IN
          /\ list' = IF c.value = Absent THEN c.read ELSE Upserted(c.read, c.element, c.value)
          /\ unsettled' = IF c.met THEN unsettled \cup {c.element} ELSE unsettled \ {c.element}
    /\ tasks' = [tasks EXCEPT ![t] = Idle]
    /\ UNCHANGED <<store, entries>>
PutList(t) ==
    /\ tasks[t].pc = "put"
    /\ LET c == tasks[t] IN
          /\ list' = IF c.value = Absent THEN Retain(c.read, c.element)
                     ELSE Upserted(c.read, c.element, c.value)
          /\ unsettled' = IF c.met THEN unsettled \cup {c.element} ELSE unsettled \ {c.element}
    /\ tasks' = [tasks EXCEPT ![t] = Idle]
    /\ UNCHANGED <<store, entries>>

\* A request's error event rejects the promise: the call returns before its later steps.
RequestError(t) ==
    /\ Active(t)
    /\ tasks' = [tasks EXCEPT ![t] = Idle]
    /\ unsettled' = unsettled \cup {tasks[t].element}
    /\ UNCHANGED <<store, entries, list>>

\* One transaction each; set_app_sdk_version is the same with a fixed key.
PutVersion(e, v) ==
    /\ store = "versions"
    /\ entries' = [entries EXCEPT ![e] = v]
    /\ UNCHANGED <<store, list, tasks, unsettled>>
PutVersionSync(e, v) == PutVersion(e, v)
DeleteKeyVersionSync(e) == PutVersion(e, Absent)

\* The page is closed: its tasks are gone, the database stays.
ClosePage ==
    /\ ActiveTasks # {}
    /\ tasks' = [t \in Tasks |-> Idle]
    /\ unsettled' = unsettled \cup { tasks[t].element : t \in ActiveTasks }
    /\ UNCHANGED <<store, entries, list>>

\* delete_database, possible between any two transactions.
DeleteDatabase ==
    /\ entries' = Empty /\ list' = Empty
    /\ unsettled' = IF ActiveTasks = {} THEN {} ELSE Elements
    /\ tasks' = [t \in Tasks |-> IF Active(t) THEN [tasks[t] EXCEPT !.met = TRUE] ELSE Idle]
    /\ UNCHANGED store

IdbNext ==
    \/ ClosePage \/ DeleteDatabase
    \/ \E t \in Tasks : GetList(t) \/ PutList(t) \/ RequestError(t)
    \/ \E t \in Tasks, e \in Elements :
          DeleteConversation(t, e) \/ \E v \in Values : PutMessage(t, e, v) \/ PutConversation(t, e, v)
    \/ \E e \in Elements : DeleteKeyVersionSync(e) \/ \E v \in Values : PutVersionSync(e, v)

-----------------------------------------------------------------------------
(* Reading *)

LoadEntry(e) == entries[e]
LoadList == list

\* load_history: the vector sorted by message_desc_order, then paginated.  messages is what
\* the vector holds, by client message id.
MessageDescOrder(messages, i, j) ==
    \/ messages[j].seq < messages[i].seq
    \/ messages[j].seq = messages[i].seq /\ messages[j].time < messages[i].time
    \/ messages[j].seq = messages[i].seq /\ messages[j].time = messages[i].time /\ j < i
SkipTake(items, page, size) ==
    LET start == page * size
    IN  [k \in 1..Cardinality({ n \in 1..size : start + n <= Len(items) }) |-> items[start + k]]
IdbHistory(messages, page, size) ==
    LET ids == DOMAIN messages
    IN  SkipTake(Sorted(ids, { p \in ids \X ids : MessageDescOrder(messages, p[1], p[2]) }),
                 page, size)

-----------------------------------------------------------------------------
(* Properties *)

Contents == [Elements -> Values \cup {Absent}]
GetCalls == [pc : {"get"}, element : Elements, value : Values \cup {Absent}, met : BOOLEAN]
PutCalls == [pc : {"put"}, element : Elements, value : Values \cup {Absent}, met : BOOLEAN,
             read : Contents]
IdbTypeOK ==
    /\ entries \in Contents /\ list \in Contents
    /\ unsettled \subseteq Elements
    /\ tasks \in [Tasks -> {Idle} \cup GetCalls \cup PutCalls]

\* The two copies agree on every element that no call is working on and whose last call
\* returned Ok without meeting another call on the same list: a lost update, a failed
\* request or a closed page can only hurt the elements of the calls concerned, never a
\* bystander in the same history or owner's list, and one undisturbed save repairs it.
SettledElementsAgree ==
    store \in {"messages", "conversations"} =>
    \A e \in Elements \ unsettled :
        (\A t \in ActiveTasks : tasks[t].element # e) => LoadEntry(e) = LoadList[e]

=============================================================================
