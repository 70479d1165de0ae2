---------------------------- MODULE StorageProofs ----------------------------
(***************************************************************************)
(* Proofs about the two stores of a session, for any number of owners,     *)
(* conversations, messages, versions, tasks and elements.                  *)
(***************************************************************************)
EXTENDS Storage, FiniteSetTheorems, FunctionTheorems, SequenceTheorems, TLAPS

-----------------------------------------------------------------------------
(* The IndexedDB store *)

ActiveOn(e) == \E t \in Tasks : Active(t) /\ tasks[t].element = e

\* Calls that overlap know it: a call that has met no other is the only one.
OverlapsAreMet ==
    \A t, u \in Tasks : Active(t) /\ Active(u) /\ t # u => tasks[t].met

\* What an undisturbed call stored under the element's own key is still there.
OwnEntryKept ==
    \A t \in Tasks : Active(t) /\ ~tasks[t].met => entries[tasks[t].element] = tasks[t].value

\* A list that was read agrees with the entries of every element that is settled and that
\* no call works on, however long ago it was read.
ReadsAgree ==
    \A t \in Tasks : tasks[t].pc = "put" =>
        \A e \in Elements \ unsettled : ~ActiveOn(e) => tasks[t].read[e] = entries[e]

ListAgrees ==
    \A e \in Elements \ unsettled : ~ActiveOn(e) => list[e] = entries[e]

IdbInv ==
    /\ IdbTypeOK
    /\ store \in {"messages", "conversations", "versions"}
    /\ store = "versions" => \A t \in Tasks : ~Active(t)
    /\ OverlapsAreMet /\ OwnEntryKept /\ ReadsAgree
    /\ store # "versions" => ListAgrees

LEMMA IdbInvInit == IdbInit => IdbInv
  <1> SUFFICES ASSUME IdbInit PROVE IdbInv
    OBVIOUS
  <1>1. \A t \in Tasks : tasks[t] = [pc |-> "idle"] /\ ~Active(t) /\ tasks[t].pc # "put"
    BY DEF IdbInit, Idle, Active
  <1>2. entries \in Contents /\ list = entries
    BY DEF IdbInit, Empty, Contents
  <1>3. IdbTypeOK
    BY <1>1, <1>2 DEF IdbInit, IdbTypeOK, Idle
  <1> QED BY <1>1, <1>2, <1>3
    DEF IdbInit, IdbInv, OverlapsAreMet, OwnEntryKept, ReadsAgree, ListAgrees

\* The shapes of a task.
LEMMA TaskShape ==
  ASSUME IdbTypeOK, NEW t \in Tasks
  PROVE  /\ ~Active(t) => tasks[t] = Idle
         /\ Active(t) => /\ tasks[t] \in GetCalls \cup PutCalls
                         /\ tasks[t].element \in Elements /\ tasks[t].met \in BOOLEAN
                         /\ tasks[t].value \in Values \cup {Absent}
         /\ tasks[t].pc = "get" => Active(t) /\ tasks[t] \in GetCalls
         /\ tasks[t].pc = "put" => Active(t) /\ tasks[t] \in PutCalls /\ tasks[t].read \in Contents
  BY DEF IdbTypeOK, Active, Idle, GetCalls, PutCalls

\* A call that has met another one.
Met(call1) == [call1 EXCEPT !.met = TRUE]

LEMMA MetShape ==
  ASSUME NEW c \in GetCalls \cup PutCalls
  PROVE  /\ Met(c) \in GetCalls \cup PutCalls /\ Met(c).met
         /\ Met(c).pc = c.pc /\ Met(c).element = c.element /\ Met(c).value = c.value
         /\ c.pc = "put" => Met(c).read = c.read
  BY DEF Met, GetCalls, PutCalls

\* A step that ends or marks calls, and changes neither copy of an element that stays
\* settled, keeps the invariant.
LEMMA EnterKeeps ==
  ASSUME IdbInv, NEW t \in Tasks, NEW e \in Elements, NEW v \in Values \cup {Absent}, Enter(t, e, v),
         store # "versions"
  PROVE  IdbInv'
  <1>1. /\ ~Active(t) /\ entries' = [entries EXCEPT ![e] = v]
        /\ UNCHANGED <<store, list, unsettled>> /\ IdbTypeOK
    BY DEF Enter, IdbInv
  <1> DEFINE mine == [pc |-> "get", element |-> e, value |-> v, met |-> ActiveTasks # {}]
  <1>2. mine \in GetCalls /\ mine.element = e /\ mine.value = v /\ mine.pc = "get"
        /\ (mine.met <=> ActiveTasks # {})
    BY DEF GetCalls
  <1>3. tasks' = [u \in Tasks |-> IF u = t THEN mine ELSE IF Active(u) THEN Met(tasks[u]) ELSE Idle]
    BY DEF Enter, Met
  <1> HIDE DEF mine
  <1>4. \A u \in Tasks \ {t} :
            /\ Active(u) => tasks'[u] = Met(tasks[u]) /\ tasks'[u].met
                            /\ tasks'[u].element = tasks[u].element /\ tasks'[u].pc = tasks[u].pc
                            /\ (tasks'[u].pc = "put" => tasks'[u].read = tasks[u].read)
                            /\ tasks'[u] \in GetCalls \cup PutCalls
            /\ ~Active(u) => tasks'[u] = Idle
    BY <1>1, <1>3, TaskShape, MetShape
  <1>5. tasks'[t] = mine
    BY <1>3
  <1>6. \A u \in Tasks : Active(u)' <=> u = t \/ Active(u)
    BY <1>1, <1>2, <1>4, <1>5 DEF Active, Idle
  <1>7. IdbTypeOK'
    <2>1. tasks' \in [Tasks -> {Idle} \cup GetCalls \cup PutCalls]
      BY <1>2, <1>3, <1>4, <1>5
    <2>2. entries' \in Contents
      BY <1>1 DEF IdbTypeOK, Contents
    <2> QED BY <1>1, <2>1, <2>2 DEF IdbTypeOK
  <1>8. \A f \in Elements : ActiveOn(f)' <=> f = e \/ ActiveOn(f)
    <2> SUFFICES ASSUME NEW f \in Elements PROVE ActiveOn(f)' <=> f = e \/ ActiveOn(f)
      OBVIOUS
    <2>1. Active(t)' /\ tasks'[t].element = e
      BY <1>2, <1>5, <1>6
    <2>2. \A u \in Tasks \ {t} : Active(u)' /\ tasks'[u].element = f <=> Active(u) /\ tasks[u].element = f
      BY <1>4, <1>6
    <2> QED BY <1>1, <2>1, <2>2 DEF ActiveOn
  <1>9. OverlapsAreMet'
    <2> SUFFICES ASSUME NEW p \in Tasks, NEW q \in Tasks, Active(p)', Active(q)', p # q
                 PROVE  tasks'[p].met
      BY DEF OverlapsAreMet
    <2>1. CASE p = t
      BY <1>2, <1>5, <1>6, <2>1 DEF ActiveTasks
    <2>2. CASE p # t
      BY <1>4, <1>6, <2>2
    <2> QED BY <2>1, <2>2
  <1>10. OwnEntryKept'
    <2> SUFFICES ASSUME NEW p \in Tasks, Active(p)', ~tasks'[p].met
                 PROVE  entries'[tasks'[p].element] = tasks'[p].value
      BY DEF OwnEntryKept
    <2>1. p = t
      BY <1>4, <1>6
    <2> QED BY <1>1, <1>2, <1>5, <2>1 DEF IdbTypeOK, Contents
  <1>11. \A f \in Elements \ unsettled : ~ActiveOn(f)' => entries'[f] = entries[f] /\ ~ActiveOn(f)
    BY <1>1, <1>8 DEF IdbTypeOK, Contents
  <1>12. ReadsAgree'
    <2> SUFFICES ASSUME NEW p \in Tasks, tasks'[p].pc = "put", NEW f \in Elements \ unsettled,
                        ~ActiveOn(f)'
                 PROVE  tasks'[p].read[f] = entries'[f]
      BY <1>1 DEF ReadsAgree
    <2>1. p # t /\ Active(p)
      BY <1>2, <1>4, <1>5 DEF Idle
    <2> QED BY <1>4, <1>11, <2>1 DEF IdbInv, ReadsAgree
  <1>13. ListAgrees'
    BY <1>1, <1>11 DEF ListAgrees, IdbInv
  <1> QED BY <1>1, <1>7, <1>9, <1>10, <1>12, <1>13 DEF IdbInv

\* The tasks in ended go idle, the others stay as they are, and of the elements that end up
\* settled none had been worked on by an ended task, except perhaps own.
LEMMA EndKeeps ==
  ASSUME IdbInv, NEW ended \in SUBSET Tasks,
         tasks' = [t \in Tasks |-> IF t \in ended THEN Idle ELSE tasks[t]],
         UNCHANGED store,
         entries' = entries, list' \in Contents, unsettled' \subseteq Elements,
         \A e \in Elements \ unsettled' : ~ActiveOn(e)' =>
            /\ list'[e] = entries[e]
            /\ \A u \in Tasks \ ended : tasks[u].pc = "put" => tasks[u].read[e] = entries[e]
  PROVE  IdbInv'
  <1>1. \A t \in Tasks : /\ t \in ended => tasks'[t] = Idle /\ ~Active(t)'
                         /\ t \notin ended => tasks'[t] = tasks[t] /\ (Active(t)' <=> Active(t))
    BY DEF Active, Idle
  <1>2. IdbTypeOK'
    <2>1. tasks \in [Tasks -> {Idle} \cup GetCalls \cup PutCalls]
      BY DEF IdbInv, IdbTypeOK
    <2>2. tasks' \in [Tasks -> {Idle} \cup GetCalls \cup PutCalls]
      BY <1>1, <2>1
    <2> QED BY <2>2 DEF IdbInv, IdbTypeOK
  <1>3. \A t \in Tasks : tasks'[t].pc = "put" => t \notin ended /\ tasks'[t] = tasks[t]
    BY <1>1 DEF Idle
  <1>4. ReadsAgree' /\ ListAgrees'
    BY <1>1, <1>3 DEF ReadsAgree, ListAgrees
  <1>5. OverlapsAreMet' /\ OwnEntryKept'
    BY <1>1 DEF IdbInv, OverlapsAreMet, OwnEntryKept
  <1> QED BY <1>1, <1>2, <1>4, <1>5 DEF IdbInv

LEMMA IdbInvStep == IdbInv /\ IdbNext => IdbInv'
  <1> SUFFICES ASSUME IdbInv, IdbNext PROVE IdbInv'
    OBVIOUS
  <1>1. /\ IdbTypeOK /\ entries \in Contents /\ list \in Contents /\ unsettled \subseteq Elements
        /\ DOMAIN tasks = Tasks
    BY DEF IdbInv, IdbTypeOK
  <1>2. (\E t \in Tasks : Active(t)) => store # "versions" /\ ListAgrees
    BY DEF IdbInv
  <1>3. ASSUME NEW t \in Tasks, NEW e \in Elements,
               DeleteConversation(t, e) \/ \E v \in Values : PutMessage(t, e, v) \/ PutConversation(t, e, v)
        PROVE  IdbInv'
    <2>1. \E v \in Values \cup {Absent} : Enter(t, e, v) /\ store # "versions"
      BY <1>3 DEF DeleteConversation, PutMessage, PutConversation
    <2> QED BY <2>1, <1>3, EnterKeeps
  <1>4. ASSUME NEW t \in Tasks, GetList(t)
        PROVE  IdbInv'
    <2> DEFINE mine == [pc |-> "put", element |-> tasks[t].element, value |-> tasks[t].value,
                        met |-> tasks[t].met, read |-> list]
    <2>1. /\ tasks' = [tasks EXCEPT ![t] = mine] /\ Active(t) /\ tasks[t] \in GetCalls
          /\ UNCHANGED <<store, entries, list, unsettled>>
      BY <1>1, <1>4, TaskShape DEF GetList
    <2>2. /\ mine \in PutCalls /\ mine.pc = "put" /\ mine.element = tasks[t].element
          /\ mine.value = tasks[t].value /\ mine.met = tasks[t].met /\ mine.read = list
      BY <1>1, <2>1 DEF GetCalls, PutCalls
    <2> HIDE DEF mine
    <2>3. tasks'[t] = mine /\ \A u \in Tasks \ {t} : tasks'[u] = tasks[u]
      BY <1>1, <2>1
    <2>4. \A u \in Tasks : /\ Active(u)' <=> Active(u)
                           /\ Active(u) => /\ tasks'[u].element = tasks[u].element
                                           /\ tasks'[u].met = tasks[u].met
                                           /\ tasks'[u].value = tasks[u].value
      BY <2>1, <2>2, <2>3 DEF Active
    <2>5. \A e \in Elements : ActiveOn(e)' <=> ActiveOn(e)
      BY <2>4 DEF ActiveOn
    <2>6. IdbTypeOK'
      BY <2>1, <2>2 DEF IdbTypeOK, IdbInv
    <2>7. ReadsAgree' /\ ListAgrees'
      BY <1>2, <2>1, <2>2, <2>3, <2>5 DEF IdbInv, ReadsAgree, ListAgrees
    <2>8. OverlapsAreMet' /\ OwnEntryKept'
      BY <2>1, <2>4 DEF IdbInv, OverlapsAreMet, OwnEntryKept
    <2> QED BY <1>2, <2>1, <2>4, <2>6, <2>7, <2>8 DEF IdbInv
  <1>5. ASSUME NEW t \in Tasks, PutList(t)
        PROVE  IdbInv'
    <2> DEFINE c == tasks[t]
    <2>1. /\ c \in PutCalls /\ Active(t) /\ c.element \in Elements /\ c.met \in BOOLEAN
          /\ c.read \in Contents /\ c.value \in Values \cup {Absent} /\ c.pc = "put"
      BY <1>1, <1>5, TaskShape DEF PutList
    <2>2. /\ list' = [c.read EXCEPT ![c.element] = c.value]
          /\ unsettled' = IF c.met THEN unsettled \cup {c.element} ELSE unsettled \ {c.element}
          /\ tasks' = [tasks EXCEPT ![t] = Idle] /\ UNCHANGED <<store, entries>>
      BY <1>5 DEF PutList, Retain, Upserted
    <2>3. tasks' = [u \in Tasks |-> IF u \in {t} THEN Idle ELSE tasks[u]]
      BY <1>1, <2>2
    <2>4. list' \in Contents /\ unsettled' \subseteq Elements
      BY <1>1, <2>1, <2>2 DEF Contents
    <2>5. ASSUME NEW e \in Elements \ unsettled', ~ActiveOn(e)'
          PROVE  /\ list'[e] = entries[e]
                 /\ \A u \in Tasks \ {t} : tasks[u].pc = "put" => tasks[u].read[e] = entries[e]
      <3>1. \A u \in Tasks \ {t} : Active(u) => tasks[u].element # e /\ Active(u)'
        BY <2>3, <2>5 DEF ActiveOn, Active
      <3>2. CASE e # c.element
        <4>1. e \notin unsettled /\ ~ActiveOn(e)
          BY <2>2, <2>5, <3>1, <3>2 DEF ActiveOn
        <4>2. list'[e] = c.read[e]
          BY <2>1, <2>2, <3>2 DEF Contents
        <4> QED BY <2>1, <2>5, <4>1, <4>2 DEF IdbInv, ReadsAgree
      <3>3. CASE e = c.element
        <4>1. ~c.met
          BY <2>2, <2>5, <3>3
        <4>2. entries[e] = c.value /\ list'[e] = c.value
          BY <2>1, <2>2, <3>3, <4>1 DEF IdbInv, OwnEntryKept, Contents
        <4>3. \A u \in Tasks \ {t} : ~Active(u)
          BY <2>1, <4>1 DEF IdbInv, OverlapsAreMet
        <4> QED BY <4>2, <4>3, <1>1, TaskShape
      <3> QED BY <3>2, <3>3
    <2> HIDE DEF c
    <2> QED BY <2>2, <2>3, <2>4, <2>5, EndKeeps
  <1>6. ASSUME NEW ended \in SUBSET Tasks,
               \A t \in ended : Active(t), ended # {},
               tasks' = [t \in Tasks |-> IF t \in ended THEN Idle ELSE tasks[t]],
               unsettled' = unsettled \cup { tasks[t].element : t \in ended },
               UNCHANGED <<store, entries, list>>
        PROVE  IdbInv'
    <2>1. unsettled' \subseteq Elements
      BY <1>1, <1>6, TaskShape
    <2>2. ASSUME NEW e \in Elements \ unsettled', ~ActiveOn(e)'
          PROVE  /\ list'[e] = entries[e]
                 /\ \A u \in Tasks \ ended : tasks[u].pc = "put" => tasks[u].read[e] = entries[e]
      <3>1. \A u \in Tasks \ ended : Active(u) => Active(u)' /\ tasks'[u] = tasks[u]
        BY <1>6 DEF Active
      <3>2. e \notin unsettled /\ ~ActiveOn(e)
        BY <1>6, <2>2, <3>1 DEF ActiveOn
      <3> QED BY <1>2, <1>6, <3>2 DEF IdbInv, ReadsAgree, ListAgrees
    <2> QED BY <1>1, <1>6, <2>1, <2>2, EndKeeps
  <1>7. ASSUME NEW t \in Tasks, RequestError(t)
        PROVE  IdbInv'
    <2>1. /\ Active(t) /\ unsettled' = unsettled \cup { tasks[u].element : u \in {t} }
          /\ tasks' = [u \in Tasks |-> IF u \in {t} THEN Idle ELSE tasks[u]]
          /\ UNCHANGED <<store, entries, list>>
      BY <1>1, <1>7 DEF RequestError
    <2>2. {t} \in SUBSET Tasks /\ {t} # {} /\ \A u \in {t} : Active(u)
      BY <1>7, <2>1
    <2> QED BY <1>6, <2>1, <2>2
  <1>8. CASE ClosePage
    <2>1. /\ ActiveTasks \subseteq Tasks /\ ActiveTasks # {} /\ \A t \in ActiveTasks : Active(t)
          /\ unsettled' = unsettled \cup { tasks[u].element : u \in ActiveTasks }
          /\ UNCHANGED <<store, entries, list>>
      BY <1>8 DEF ClosePage, ActiveTasks
    <2>2. tasks' = [u \in Tasks |-> IF u \in ActiveTasks THEN Idle ELSE tasks[u]]
      BY <1>1, <1>8, TaskShape DEF ClosePage, ActiveTasks
    <2> QED BY <1>6, <2>1, <2>2
  <1>9. CASE DeleteDatabase
    <2>1. /\ entries' = Empty /\ list' = Empty /\ store' = store
          /\ tasks' = [t \in Tasks |-> IF Active(t) THEN Met(tasks[t]) ELSE Idle]
          /\ unsettled' = IF ActiveTasks = {} THEN {} ELSE Elements
      BY <1>9 DEF DeleteDatabase, Met
    <2>2. \A t \in Tasks : /\ Active(t) => tasks'[t] \in GetCalls \cup PutCalls /\ tasks'[t].met
                                           /\ tasks'[t].pc = tasks[t].pc
                           /\ ~Active(t) => tasks'[t] = Idle
      BY <1>1, <2>1, TaskShape, MetShape
    <2>3. \A t \in Tasks : (Active(t)' <=> Active(t)) /\ (Active(t)' => tasks'[t].met)
      BY <2>2 DEF Active, Idle
    <2>4. IdbTypeOK'
      <3>1. tasks' \in [Tasks -> {Idle} \cup GetCalls \cup PutCalls]
        BY <2>1, <2>2
      <3>2. Empty \in Contents
        BY DEF Empty, Contents
      <3> QED BY <2>1, <3>1, <3>2 DEF IdbTypeOK
    <2>5. OverlapsAreMet' /\ OwnEntryKept'
      BY <2>3 DEF OverlapsAreMet, OwnEntryKept
    <2>6. ListAgrees'
      BY <2>1 DEF ListAgrees
    <2>7. ReadsAgree'
      <3>1. CASE ActiveTasks = {}
        <4>1. \A t \in Tasks : tasks'[t].pc # "put"
          BY <2>2, <3>1 DEF ActiveTasks, Idle
        <4> QED BY <4>1 DEF ReadsAgree
      <3>2. CASE ActiveTasks # {}
        BY <2>1, <3>2 DEF ReadsAgree
      <3> QED BY <3>1, <3>2
    <2> QED BY <2>1, <2>3, <2>4, <2>5, <2>6, <2>7 DEF IdbInv
  <1>10. ASSUME NEW e \in Elements, NEW v \in Values \cup {Absent}, PutVersion(e, v)
         PROVE  IdbInv'
    <2>1. /\ store = "versions" /\ UNCHANGED <<store, list, tasks, unsettled>>
          /\ entries' = [entries EXCEPT ![e] = v]
      BY <1>10 DEF PutVersion
    <2>2. \A t \in Tasks : ~Active(t) /\ ~Active(t)' /\ tasks[t].pc # "put"
      BY <1>1, <2>1, TaskShape DEF IdbInv, Active
    <2>3. IdbTypeOK'
      BY <1>1, <2>1 DEF IdbTypeOK, Contents
    <2> QED BY <2>1, <2>2, <2>3 DEF IdbInv, OverlapsAreMet, OwnEntryKept, ReadsAgree
  <1> QED BY <1>3, <1>4, <1>5, <1>7, <1>8, <1>9, <1>10 DEF IdbNext, DeleteKeyVersionSync, PutVersionSync

-----------------------------------------------------------------------------
(* The sqlite store *)

\* The statements calls are made of.
Statements ==
    [kind : {"create"}, on : AllTables, args : {None}]
    \cup [kind : {"upsert"}, on : {"app"}, args : Versions]
    \cup [kind : {"upsert"}, on : {"sync"}, args : 0..MaxI64]
    \cup [kind : {"delete"}, on : {"sync"}, args : {None}]
    \cup [kind : {"upsert"}, on : {"chat_logs"}, args : [id : MsgIds, message : Messages]]
    \cup [kind : {"upsert"}, on : {"conversations"}, args : [owner : Owners, id : ConvIds, info : Infos]]
    \cup [kind : {"delete"}, on : {"conversations"}, args : [owner : Owners, id : ConvIds]]

\* What a statement relies on: an insert into chat_logs on its table, the end of a
\* migration on the tables created before it.
Needs(s) == IF s.kind = "upsert" /\ s.on = "chat_logs" THEN {"chat_logs"}
            ELSE IF s.kind = "create" /\ s.on = "conversations" THEN {"app", "sync"} ELSE {}
Creates(s) == IF s.kind = "create" THEN {s.on} ELSE {}

\* What a statement of the call relies on is there, or an earlier one of the call makes it.
Prepared(stmts, there) ==
    \A i \in 1..Len(stmts) : \A t \in Needs(stmts[i]) :
        t \in there \/ \E j \in 1..(i - 1) : t \in Creates(stmts[j])

AckedTypes ==
    [migrated : BOOLEAN, owners : SUBSET Owners, app : Versions \cup {None}, sync : 0..MaxI64 \cup {None},
     messages : [MsgIds -> Messages \cup {None}], convs : [Owners \X ConvIds -> Infos \cup {None}]]

RowOf(m) == [seq |-> m.seq, time |-> m.time, status |-> m.status]
ConvRowOf(o, x) == [owner |-> o, latest |-> IF x.latest = None THEN "" ELSE x.latest]

\* What the rows of each table are in terms of what was acknowledged.
AppServed == appRows = IF acked.app = None THEN {} ELSE {acked.app}
ChatServed ==
    /\ chatRows \in [MsgIds -> ChatRows \cup {None}]
    /\ \A i \in MsgIds : chatRows[i] = IF acked.messages[i] = None THEN None ELSE RowOf(acked.messages[i])
ConvsServed ==
    /\ convRows \in [ConvIds -> ConvRows \cup {None}]
    /\ \A c \in ConvIds : convRows[c] # None => convRows[c].owner \in acked.owners
    /\ \A o \in Owners \ acked.owners, c \in ConvIds : acked.convs[<<o, c>>] = None
    /\ OneOwner => \A o \in Owners, c \in ConvIds :
          acked.convs[<<o, c>>] = IF convRows[c] # None /\ convRows[c].owner = o
                                  THEN IntoConversation(convRows[c]) ELSE None

SqliteInv ==
    /\ tables \subseteq AllTables /\ failed \in BOOLEAN
    /\ acked \in AckedTypes
    /\ call \in Seq(Statements)
    /\ Prepared(call, tables)
    /\ acked.migrated => {"app", "sync", "conversations"} \subseteq tables
    /\ AppServed /\ syncRow = acked.sync /\ ChatServed /\ ConvsServed

\* The row of a message is read back as that message.
LEMMA MessageReadBack ==
  ASSUME NEW m \in Messages
  PROVE  RowOf(m) \in ChatRows /\ IntoChatMessage(RowOf(m)) = m /\ RowOf(m) # None /\ m # None
  <1>1. /\ m \in [seq : 0..1, time : 0..1, status : {"ok", "HasDeleted"}, revoked : BOOLEAN]
        /\ m.revoked <=> m.status = "HasDeleted"
    BY DEF Messages
  <1>2. RowOf(m) \in ChatRows
    BY <1>1 DEF RowOf, ChatRows
  <1>3. (m.status = "HasDeleted") = m.revoked
    BY <1>1
  <1>4. m = [seq |-> m.seq, time |-> m.time, status |-> m.status, revoked |-> m.revoked]
    BY <1>1
  <1>5. IntoChatMessage(RowOf(m)) = m
    BY <1>3, <1>4 DEF IntoChatMessage, RowOf
  <1> QED BY <1>2, <1>5, StorageConstants DEF StorageConstants

\* The row of a conversation is read back as that conversation.
LEMMA ConversationReadBack ==
  ASSUME NEW o \in Owners, NEW x \in Infos
  PROVE  /\ ConvRowOf(o, x) \in ConvRows /\ ConvRowOf(o, x).owner = o /\ ConvRowOf(o, x) # None
         /\ IntoConversation(ConvRowOf(o, x)) = x
  <1>1. x = [latest |-> x.latest] /\ x.latest \in {None, "snapshot"}
    BY DEF Infos
  <1>2. ConvRowOf(o, x) \in ConvRows /\ ConvRowOf(o, x).owner = o
    BY <1>1 DEF ConvRows, ConvRowOf
  <1>3. IntoConversation(ConvRowOf(o, x)) = x
    BY <1>1 DEF IntoConversation, ConvRowOf
  <1> QED BY <1>2, <1>3, StorageConstants DEF StorageConstants

\* The lists of statements that begin a call.
LEMMA MigrateBatchPrepared ==
  /\ MigrateBatch \in Seq(Statements) /\ Len(MigrateBatch) = 3
  /\ MigrateBatch[1] = Create("app") /\ MigrateBatch[2] = Create("sync")
  /\ MigrateBatch[3] = Create("conversations")
  /\ \A there : Prepared(MigrateBatch, there)
  <1>1. \A t \in AllTables : Create(t) \in Statements
    BY DEF Create, Statement, Statements
  <1>2. /\ MigrateBatch \in Seq(Statements) /\ Len(MigrateBatch) = 3
        /\ MigrateBatch[1] = Create("app") /\ MigrateBatch[2] = Create("sync")
        /\ MigrateBatch[3] = Create("conversations")
    BY <1>1 DEF MigrateBatch, AllTables
  <1>3. Needs(Create("app")) = {} /\ Needs(Create("sync")) = {} /\ Needs(Create("conversations")) = {"app", "sync"}
        /\ Creates(Create("app")) = {"app"} /\ Creates(Create("sync")) = {"sync"}
    BY DEF Needs, Creates, Create, Statement
  <1>4. ASSUME NEW there PROVE Prepared(MigrateBatch, there)
    <2> SUFFICES ASSUME NEW i \in 1..3, NEW t \in Needs(MigrateBatch[i])
                 PROVE  \E j \in 1..(i - 1) : t \in Creates(MigrateBatch[j])
      BY <1>2 DEF Prepared
    <2>1. i = 3
      BY <1>2, <1>3
    <2>2. t \in Creates(MigrateBatch[1]) \/ t \in Creates(MigrateBatch[2])
      BY <1>2, <1>3, <2>1
    <2> QED BY <2>1, <2>2
  <1> QED BY <1>2, <1>4

\* A statement that relies on nothing may be added.
LEMMA PreparedAppend ==
  ASSUME NEW stmts \in Seq(Statements), NEW s \in Statements, NEW there,
         Prepared(stmts, there), Needs(s) = {}
  PROVE  Append(stmts, s) \in Seq(Statements) /\ Prepared(Append(stmts, s), there)
  <1> DEFINE longer == Append(stmts, s)
  <1>1. longer \in Seq(Statements) /\ Len(longer) = Len(stmts) + 1 /\ longer[Len(stmts) + 1] = s
        /\ \A i \in 1..Len(stmts) : longer[i] = stmts[i]
    OBVIOUS
  <1> HIDE DEF longer
  <1>2. ASSUME NEW i \in 1..Len(longer), NEW t \in Needs(longer[i])
        PROVE  t \in there \/ \E j \in 1..(i - 1) : t \in Creates(longer[j])
    <2>1. i \in 1..Len(stmts) /\ longer[i] = stmts[i]
      BY <1>1, <1>2
    <2>2. t \in there \/ \E j \in 1..(i - 1) : t \in Creates(stmts[j])
      BY <1>2, <2>1 DEF Prepared
    <2>3. \A j \in 1..(i - 1) : longer[j] = stmts[j]
      BY <1>1, <2>1
    <2> QED BY <2>2, <2>3
  <1>3. Prepared(longer, there)
    BY <1>2 DEF Prepared
  <1> QED BY <1>1, <1>3 DEF longer

\* After its first statement the rest of a call is prepared.
LEMMA PreparedTail ==
  ASSUME NEW stmts \in Seq(Statements), stmts # <<>>, NEW there, Prepared(stmts, there)
  PROVE  /\ Tail(stmts) \in Seq(Statements) /\ Head(stmts) \in Statements
         /\ Needs(Head(stmts)) \subseteq there
         /\ Prepared(Tail(stmts), there \cup Creates(Head(stmts)))
  <1>1. /\ Tail(stmts) \in Seq(Statements) /\ Head(stmts) \in Statements /\ Head(stmts) = stmts[1]
        /\ Len(Tail(stmts)) = Len(stmts) - 1 /\ Len(stmts) \in Nat \ {0}
        /\ \A i \in 1..Len(Tail(stmts)) : Tail(stmts)[i] = stmts[i + 1]
    OBVIOUS
  <1>2. Needs(Head(stmts)) \subseteq there
    BY <1>1 DEF Prepared
  <1>3. ASSUME NEW i \in 1..Len(Tail(stmts)), NEW t \in Needs(Tail(stmts)[i])
        PROVE  \/ t \in there \cup Creates(Head(stmts))
               \/ \E j \in 1..(i - 1) : t \in Creates(Tail(stmts)[j])
    <2>1. t \in there \/ \E j \in 1..i : t \in Creates(stmts[j])
      <3>1. i + 1 \in 1..Len(stmts) /\ t \in Needs(stmts[i + 1]) /\ (i + 1) - 1 = i
        BY <1>1, <1>3
      <3> QED BY <3>1 DEF Prepared
    <2>2. ASSUME NEW j \in 1..i, t \in Creates(stmts[j]), j # 1
          PROVE  \E k \in 1..(i - 1) : t \in Creates(Tail(stmts)[k])
      <3>1. j - 1 \in 1..(i - 1) /\ Tail(stmts)[j - 1] = stmts[j]
        BY <1>1, <2>2
      <3> QED BY <2>2, <3>1
    <2> QED BY <1>1, <2>1, <2>2
  <1>4. Prepared(Tail(stmts), there \cup Creates(Head(stmts)))
    BY <1>3 DEF Prepared
  <1> QED BY <1>1, <1>2, <1>4

\* Every call of the store is prepared when it begins.
LEMMA CallsPrepared ==
  /\ \A s \in Statements : Needs(s) = {} => <<s>> \in Seq(Statements) /\ \A there : Prepared(<<s>>, there)
  /\ \A s \in Statements : Needs(s) = {"chat_logs"} =>
        <<EnsureChatLogsTable, s>> \in Seq(Statements) /\ \A there : Prepared(<<EnsureChatLogsTable, s>>, there)
  <1>1. \A there : Prepared(<<>>, there) /\ <<>> \in Seq(Statements)
    BY DEF Prepared
  <1>2. ASSUME NEW s \in Statements, Needs(s) = {}
        PROVE  <<s>> \in Seq(Statements) /\ \A there : Prepared(<<s>>, there)
    BY <1>2 DEF Prepared
  <1>3. ASSUME NEW s \in Statements, Needs(s) = {"chat_logs"}
        PROVE  /\ <<EnsureChatLogsTable, s>> \in Seq(Statements)
               /\ \A there : Prepared(<<EnsureChatLogsTable, s>>, there)
    <2>1. EnsureChatLogsTable \in Statements /\ Needs(EnsureChatLogsTable) = {}
          /\ Creates(EnsureChatLogsTable) = {"chat_logs"}
      BY DEF EnsureChatLogsTable, Create, Statement, Statements, AllTables, Needs, Creates
    <2> DEFINE both == <<EnsureChatLogsTable, s>>
    <2>2. both \in Seq(Statements) /\ Len(both) = 2 /\ both[1] = EnsureChatLogsTable /\ both[2] = s
      BY <2>1
    <2> HIDE DEF both
    <2>3. ASSUME NEW there, NEW i \in 1..2, NEW t \in Needs(both[i])
          PROVE  \E j \in 1..(i - 1) : t \in Creates(both[j])
      <3>1. i = 2 /\ t \in Creates(both[1])
        BY <1>3, <2>1, <2>2, <2>3
      <3> QED BY <3>1
    <2>4. \A there : Prepared(both, there)
      BY <2>2, <2>3 DEF Prepared
    <2> QED BY <2>2, <2>4 DEF both
  <1> QED BY <1>2, <1>3

LEMMA SqliteInvInit == SqliteInit => SqliteInv
  <1> SUFFICES ASSUME SqliteInit PROVE SqliteInv
    OBVIOUS
  <1>1. acked = NothingAcked /\ acked \in AckedTypes /\ acked.app = None /\ acked.sync = None
        /\ acked.owners = {} /\ ~acked.migrated
        /\ (\A i \in MsgIds : acked.messages[i] = None)
        /\ \A o \in Owners, c \in ConvIds : acked.convs[<<o, c>>] = None
    BY DEF SqliteInit, NothingAcked, AckedTypes
  <1>2. Prepared(<<>>, {}) /\ <<>> \in Seq(Statements)
    BY DEF Prepared
  <1> QED BY <1>1, <1>2 DEF SqliteInit, SqliteInv, AppServed, ChatServed, ConvsServed

\* A call that begins is prepared, and stores nothing yet.
LEMMA BeginKeeps ==
  ASSUME SqliteInv, NEW stmts, Begin(stmts), stmts \in Seq(Statements), Prepared(stmts, tables)
  PROVE  SqliteInv'
  BY DEF SqliteInv, Begin, AppServed, ChatServed, ConvsServed, OneOwner

LEMMA StopKeeps ==
  ASSUME SqliteInv, call' = <<>>, failed' \in BOOLEAN,
         UNCHANGED <<tables, appRows, syncRow, convRows, chatRows, acked>>
  PROVE  SqliteInv'
  <1>1. Prepared(<<>>, tables) /\ <<>> \in Seq(Statements)
    BY DEF Prepared
  <1> QED BY <1>1 DEF SqliteInv, AppServed, ChatServed, ConvsServed, OneOwner

\* One statement of a call keeps what the tables and the rest of the call are for.
LEMMA ExecuteCallKeeps ==
  ASSUME SqliteInv, Execute
  PROVE  /\ call # <<>> /\ call' \in Seq(Statements) /\ Prepared(call', tables')
         /\ Head(call) \in Statements /\ Needs(Head(call)) \subseteq tables
         /\ tables' = tables \cup Creates(Head(call)) /\ tables' \subseteq AllTables
  <1>1. call # <<>> /\ call' = Tail(call) /\ call \in Seq(Statements) /\ Prepared(call, tables)
    BY DEF SqliteInv, Execute
  <1>2. /\ Tail(call) \in Seq(Statements) /\ Head(call) \in Statements
        /\ Needs(Head(call)) \subseteq tables
        /\ Prepared(Tail(call), tables \cup Creates(Head(call)))
    BY <1>1, PreparedTail
  <1>3. tables' = tables \cup Creates(Head(call))
    BY DEF Execute, ExecuteCreate, ExecuteApp, ExecuteSync, ExecuteChat, UpsertConversationRow,
           DeleteConversationRow, Creates
  <1>4. Creates(Head(call)) \subseteq AllTables
    BY <1>2 DEF Creates, Statements
  <1> QED BY <1>1, <1>2, <1>3, <1>4 DEF SqliteInv

LEMMA ExecuteKeeps ==
  ASSUME SqliteInv, Execute
  PROVE  SqliteInv'
  <1> DEFINE s == Head(call)
  <1>1. /\ call' \in Seq(Statements) /\ Prepared(call', tables') /\ s \in Statements
        /\ Needs(s) \subseteq tables /\ tables' = tables \cup Creates(s) /\ tables' \subseteq AllTables
        /\ failed' \in BOOLEAN /\ tables \subseteq tables'
    BY ExecuteCallKeeps DEF SqliteInv, Execute
  <1>2. ExecuteCreate(s) \/ ExecuteApp(s) \/ ExecuteSync(s) \/ ExecuteChat(s)
        \/ UpsertConversationRow(s) \/ DeleteConversationRow(s)
    BY DEF Execute
  <1> HIDE DEF s
  <1>3. /\ acked \in AckedTypes /\ AppServed /\ syncRow = acked.sync /\ ChatServed /\ ConvsServed
        /\ acked.migrated => {"app", "sync", "conversations"} \subseteq tables
    BY DEF SqliteInv
  <1>4. CASE ExecuteCreate(s)
    <2>1. /\ acked' \in AckedTypes /\ acked'.app = acked.app /\ acked'.sync = acked.sync
          /\ acked'.messages = acked.messages /\ acked'.convs = acked.convs
          /\ acked'.owners = acked.owners
          /\ acked'.migrated => acked.migrated \/ s.on = "conversations"
      BY <1>3, <1>4 DEF ExecuteCreate, AckedTypes
    <2>2. acked'.migrated => {"app", "sync", "conversations"} \subseteq tables'
      BY <1>1, <1>3, <1>4, <2>1 DEF ExecuteCreate, Needs
    <2>3. UNCHANGED <<appRows, syncRow, convRows, chatRows>>
      BY <1>4 DEF ExecuteCreate
    <2> QED BY <1>1, <1>3, <2>1, <2>2, <2>3 DEF SqliteInv, AppServed, ChatServed, ConvsServed, OneOwner
  <1>5. CASE ExecuteApp(s)
    <2>1. s.args \in Versions /\ s.args # None
      BY <1>1, <1>5, StorageConstants DEF ExecuteApp, Statements, StorageConstants
    <2>2. /\ acked' \in AckedTypes /\ acked'.app = s.args /\ acked'.sync = acked.sync
          /\ acked'.messages = acked.messages /\ acked'.convs = acked.convs
          /\ acked'.owners = acked.owners /\ acked'.migrated = acked.migrated
      BY <1>3, <1>5, <2>1 DEF ExecuteApp, AckedTypes
    <2>3. appRows' = {s.args}
      <3>1. appRows' = IF appRows = {} THEN {s.args} ELSE (appRows \ {GetAppSdkVersion}) \cup {s.args}
        BY <1>5 DEF ExecuteApp
      <3>2. appRows = {} \/ \E v : appRows = {v}
        BY <1>3 DEF AppServed
      <3>3. ASSUME NEW v, appRows = {v} PROVE GetAppSdkVersion = v
        BY <3>3 DEF GetAppSdkVersion
      <3> QED BY <3>1, <3>2, <3>3
    <2>4. AppServed'
      BY <2>1, <2>2, <2>3 DEF AppServed
    <2>5. UNCHANGED <<tables, syncRow, convRows, chatRows>>
      BY <1>5 DEF ExecuteApp
    <2> QED BY <1>1, <1>3, <2>2, <2>4, <2>5 DEF SqliteInv, ChatServed, ConvsServed, OneOwner
  <1>6. CASE ExecuteSync(s)
    <2>1. syncRow' = acked'.sync /\ syncRow' \in 0..MaxI64 \cup {None}
      <3>1. s.kind = "delete" \/ s.args \in 0..MaxI64
        BY <1>1, <1>6 DEF ExecuteSync, Statements
      <3>2. s.args \in 0..MaxI64 => AsI64(s.args) = s.args
        BY StorageConstants DEF StorageConstants, AsI64
      <3> QED BY <1>3, <1>6, <3>1, <3>2 DEF ExecuteSync, AckedTypes
    <2>2. /\ acked' \in AckedTypes /\ acked'.app = acked.app
          /\ acked'.messages = acked.messages /\ acked'.convs = acked.convs
          /\ acked'.owners = acked.owners /\ acked'.migrated = acked.migrated
      BY <1>3, <1>6, <2>1 DEF ExecuteSync, AckedTypes
    <2>3. UNCHANGED <<tables, appRows, convRows, chatRows>>
      BY <1>6 DEF ExecuteSync
    <2> QED BY <1>1, <1>3, <2>1, <2>2, <2>3 DEF SqliteInv, AppServed, ChatServed, ConvsServed, OneOwner
  <1>7. CASE ExecuteChat(s)
    <2> DEFINE i == s.args.id
               m == s.args.message
    <2>1. i \in MsgIds /\ m \in Messages
      BY <1>1, <1>7 DEF ExecuteChat, Statements
    <2>2. RowOf(m) \in ChatRows /\ m # None
      BY <2>1, MessageReadBack
    <2>3. /\ acked' = [acked EXCEPT !.messages[i] = m] /\ chatRows' = [chatRows EXCEPT ![i] = RowOf(m)]
          /\ UNCHANGED <<tables, appRows, syncRow, convRows>>
      BY <1>7 DEF ExecuteChat, RowOf
    <2> HIDE DEF i, m
    <2>4. /\ acked' \in AckedTypes /\ acked'.app = acked.app /\ acked'.sync = acked.sync
          /\ acked'.messages = [acked.messages EXCEPT ![i] = m] /\ acked'.convs = acked.convs
          /\ acked'.owners = acked.owners /\ acked'.migrated = acked.migrated
      BY <1>3, <2>1, <2>3 DEF AckedTypes
    <2>5. acked.messages \in [MsgIds -> Messages \cup {None}]
      BY <1>3 DEF AckedTypes
    <2>6. ChatServed'
      BY <1>3, <2>1, <2>2, <2>3, <2>4, <2>5 DEF ChatServed
    <2> QED BY <1>1, <1>3, <2>3, <2>4, <2>6 DEF SqliteInv, AppServed, ConvsServed, OneOwner
  <1>8. CASE UpsertConversationRow(s)
    <2> DEFINE o == s.args.owner
               c == s.args.id
               x == s.args.info
               row == ConvRowOf(o, x)
    <2>1. o \in Owners /\ c \in ConvIds /\ x \in Infos
      BY <1>1, <1>8 DEF UpsertConversationRow, Statements
    <2>2. row \in ConvRows /\ row.owner = o /\ row # None /\ IntoConversation(row) = x
      BY <2>1, ConversationReadBack
    <2>3. /\ acked' = [acked EXCEPT !.convs[<<o, c>>] = x, !.owners = @ \cup {o}]
          /\ convRows' = [convRows EXCEPT ![c] = row]
          /\ UNCHANGED <<tables, appRows, syncRow, chatRows>>
      BY <1>8 DEF UpsertConversationRow, ConvRowOf
    <2> HIDE DEF o, c, x, row
    <2>4. /\ acked' \in AckedTypes /\ acked'.app = acked.app /\ acked'.sync = acked.sync
          /\ acked'.messages = acked.messages /\ acked'.convs = [acked.convs EXCEPT ![<<o, c>>] = x]
          /\ acked'.owners = acked.owners \cup {o} /\ acked'.migrated = acked.migrated
      BY <1>3, <2>1, <2>3 DEF AckedTypes
    <2>5. ConvsServed'
      <3>1. /\ acked.convs \in [Owners \X ConvIds -> Infos \cup {None}]
            /\ convRows \in [ConvIds -> ConvRows \cup {None}] /\ acked.owners \subseteq Owners
        BY <1>3 DEF AckedTypes, ConvsServed
      <3>2. convRows' \in [ConvIds -> ConvRows \cup {None}]
        BY <2>1, <2>2, <2>3, <3>1
      <3>3. \A d \in ConvIds : convRows'[d] = IF d = c THEN row ELSE convRows[d]
        BY <2>3, <3>1
      <3>4. \A p \in Owners, d \in ConvIds :
               acked'.convs[<<p, d>>] = IF p = o /\ d = c THEN x ELSE acked.convs[<<p, d>>]
        BY <2>1, <2>4, <3>1
      <3>5. \A d \in ConvIds : convRows'[d] # None => convRows'[d].owner \in acked'.owners
        BY <1>3, <2>2, <2>4, <3>3 DEF ConvsServed
      <3>6. \A p \in Owners \ acked'.owners, d \in ConvIds : acked'.convs[<<p, d>>] = None
        <4> SUFFICES ASSUME NEW p \in Owners, p \notin acked'.owners, NEW d \in ConvIds
                     PROVE  acked'.convs[<<p, d>>] = None
          OBVIOUS
        <4>1. p # o /\ p \notin acked.owners
          BY <2>4
        <4> QED BY <1>3, <3>4, <4>1 DEF ConvsServed
      <3>7. ASSUME OneOwner', NEW p \in Owners, NEW d \in ConvIds
            PROVE  acked'.convs[<<p, d>>] = IF convRows'[d] # None /\ convRows'[d].owner = p
                                            THEN IntoConversation(convRows'[d]) ELSE None
        <4>1. OneOwner /\ acked.owners \subseteq {o}
          BY <2>4, <3>7 DEF OneOwner
        <4>2. CASE d = c /\ p = o
          BY <2>2, <3>3, <3>4, <4>2
        <4>3. CASE d = c /\ p # o
          BY <1>3, <2>2, <3>3, <3>4, <4>1, <4>3 DEF ConvsServed
        <4>4. CASE d # c
          BY <1>3, <3>3, <3>4, <4>1, <4>4 DEF ConvsServed
        <4> QED BY <4>2, <4>3, <4>4
      <3> QED BY <3>2, <3>5, <3>6, <3>7 DEF ConvsServed
    <2> QED BY <1>1, <1>3, <2>3, <2>4, <2>5 DEF SqliteInv, AppServed, ChatServed
  <1>9. CASE DeleteConversationRow(s)
    <2> DEFINE o == s.args.owner
               c == s.args.id
    <2>1. o \in Owners /\ c \in ConvIds
      BY <1>1, <1>9 DEF DeleteConversationRow, Statements
    <2>2. /\ acked' = [acked EXCEPT !.convs[<<o, c>>] = None]
          /\ convRows' = IF convRows[c] # None /\ convRows[c].owner = o
                         THEN [convRows EXCEPT ![c] = None] ELSE convRows
          /\ UNCHANGED <<tables, appRows, syncRow, chatRows>>
      BY <1>9 DEF DeleteConversationRow
    <2> HIDE DEF o, c
    <2>3. /\ acked' \in AckedTypes /\ acked'.app = acked.app /\ acked'.sync = acked.sync
          /\ acked'.messages = acked.messages /\ acked'.convs = [acked.convs EXCEPT ![<<o, c>>] = None]
          /\ acked'.owners = acked.owners /\ acked'.migrated = acked.migrated
      BY <1>3, <2>1, <2>2 DEF AckedTypes
    <2>4. ConvsServed'
      <3>1. /\ acked.convs \in [Owners \X ConvIds -> Infos \cup {None}]
            /\ convRows \in [ConvIds -> ConvRows \cup {None}]
        BY <1>3 DEF AckedTypes, ConvsServed
      <3>2. convRows' \in [ConvIds -> ConvRows \cup {None}]
        BY <2>1, <2>2, <3>1
      <3>3. \A d \in ConvIds : convRows'[d] = IF d = c /\ convRows[c] # None /\ convRows[c].owner = o
                                              THEN None ELSE convRows[d]
        BY <2>1, <2>2, <3>1
      <3>4. \A p \in Owners, d \in ConvIds :
               acked'.convs[<<p, d>>] = IF p = o /\ d = c THEN None ELSE acked.convs[<<p, d>>]
        BY <2>1, <2>3, <3>1
      <3>5. OneOwner' <=> OneOwner
        BY <2>3 DEF OneOwner
      <3> QED BY <1>3, <2>3, <3>2, <3>3, <3>4, <3>5 DEF ConvsServed
    <2> QED BY <1>1, <1>3, <2>2, <2>3, <2>4 DEF SqliteInv, AppServed, ChatServed
  <1> QED BY <1>2, <1>4, <1>5, <1>6, <1>7, <1>8, <1>9

LEMMA SqliteInvStep == SqliteInv /\ SqliteNext => SqliteInv'
  <1> SUFFICES ASSUME SqliteInv, SqliteNext PROVE SqliteInv'
    OBVIOUS
  <1>1. ASSUME NEW s \in Statements, Needs(s) = {}, Begin(<<s>>) PROVE SqliteInv'
    BY <1>1, CallsPrepared, BeginKeeps
  <1>2. Refuse => SqliteInv'
    BY StopKeeps DEF Refuse
  <1>3. CASE Migrate
    BY <1>3, MigrateBatchPrepared, BeginKeeps DEF Migrate
  <1>4. CASE DeleteVersionSync
    <2>1. Delete("sync", None) \in Statements /\ Needs(Delete("sync", None)) = {}
      BY DEF Delete, Statement, Statements, Needs
    <2> QED BY <1>1, <1>4, <2>1 DEF DeleteVersionSync
  <1>5. CASE Fail \/ Reopen
    BY <1>5, StopKeeps DEF Fail, Reopen
  <1>6. ASSUME NEW v \in Versions, SetAppSdkVersion(v) PROVE SqliteInv'
    <2>1. Upsert("app", v) \in Statements /\ Needs(Upsert("app", v)) = {}
      BY DEF Upsert, Statement, Statements, Needs
    <2> QED BY <1>1, <1>6, <2>1 DEF SetAppSdkVersion
  <1>7. ASSUME NEW n \in 0..MaxVersion, SetVersionSync(n) PROVE SqliteInv'
    <2>1. CASE n > MaxI64
      BY <1>2, <1>7, <2>1 DEF SetVersionSync
    <2>2. CASE n <= MaxI64
      <3>1. n \in 0..MaxI64 /\ Begin(<<Upsert("sync", n)>>)
        BY <1>7, <2>2, StorageConstants DEF StorageConstants, SetVersionSync
      <3>2. Upsert("sync", n) \in Statements /\ Needs(Upsert("sync", n)) = {}
        BY <3>1 DEF Upsert, Statement, Statements, Needs
      <3> QED BY <1>1, <3>1, <3>2
    <2> QED BY <2>1, <2>2, StorageConstants DEF StorageConstants
  <1>8. ASSUME NEW i \in MsgIds, NEW m \in Messages, SaveMessage(i, m) PROVE SqliteInv'
    <2> DEFINE s == Upsert("chat_logs", [id |-> i, message |-> m])
    <2>1. s \in Statements /\ Needs(s) = {"chat_logs"} /\ Begin(<<EnsureChatLogsTable, s>>)
      BY <1>8 DEF SaveMessage, Upsert, Statement, Statements, Needs
    <2> HIDE DEF s
    <2> QED BY <2>1, CallsPrepared, BeginKeeps
  <1>9. ASSUME NEW o \in Owners, NEW c \in ConvIds, RemoveConversation(o, c) PROVE SqliteInv'
    <2> DEFINE s == Delete("conversations", [owner |-> o, id |-> c])
    <2>1. s \in Statements /\ Needs(s) = {} /\ Begin(<<s>>)
      BY <1>9 DEF RemoveConversation, Delete, Statement, Statements, Needs
    <2> HIDE DEF s
    <2> QED BY <1>1, <2>1
  <1>10. ASSUME NEW o \in Owners, NEW c \in ConvIds, NEW x \in Infos, SaveConversation(o, c, x)
         PROVE  SqliteInv'
    <2> DEFINE s == Upsert("conversations", [owner |-> o, id |-> c, info |-> x])
    <2>1. s \in Statements /\ Needs(s) = {} /\ Begin(Append(MigrateBatch, s))
      BY <1>10 DEF SaveConversation, Upsert, Statement, Statements, Needs
    <2> HIDE DEF s
    <2> QED BY <2>1, MigrateBatchPrepared, PreparedAppend, BeginKeeps
  <1> QED BY <1>3, <1>4, <1>5, <1>6, <1>7, <1>8, <1>9, <1>10, ExecuteKeeps DEF SqliteNext

-----------------------------------------------------------------------------
(* Sorting *)

\* R is a strict total order of S.
Orders(R, S) ==
    /\ \A x \in S : <<x, x>> \notin R
    /\ \A x, y \in S : x = y \/ <<x, y>> \in R \/ <<y, x>> \in R
    /\ \A x, y, z \in S : <<x, y>> \in R /\ <<y, z>> \in R => <<x, z>> \in R

\* q lists S in the order R.
InOrder(q, S, R) ==
    /\ q \in [1..Cardinality(S) -> S]
    /\ \A i, j \in 1..Cardinality(S) : i < j => <<q[i], q[j]>> \in R

UpTo(R, S, x) == { y \in S : y = x \/ <<y, x>> \in R }

\* An element's rank is the number of elements up to it.
LEMMA Ranks ==
  ASSUME NEW S, IsFiniteSet(S), NEW R, Orders(R, S)
  PROVE  /\ Cardinality(S) \in Nat
         /\ \A x \in S : Cardinality(UpTo(R, S, x)) \in 1..Cardinality(S)
         /\ \A x, y \in S : <<x, y>> \in R => Cardinality(UpTo(R, S, x)) < Cardinality(UpTo(R, S, y))
         /\ \A x, y \in S : Cardinality(UpTo(R, S, x)) = Cardinality(UpTo(R, S, y)) => x = y
  <1>1. \A x \in S : UpTo(R, S, x) \in SUBSET S /\ x \in UpTo(R, S, x)
    BY DEF UpTo
  <1>2. /\ Cardinality(S) \in Nat
        /\ \A x \in S : /\ IsFiniteSet(UpTo(R, S, x)) /\ Cardinality(UpTo(R, S, x)) \in Nat
                        /\ Cardinality(UpTo(R, S, x)) <= Cardinality(S)
    BY <1>1, FS_Subset, FS_CardinalityType
  <1>3. \A x \in S : Cardinality(UpTo(R, S, x)) # 0
    BY <1>1, <1>2, FS_EmptySet
  <1>4. ASSUME NEW x \in S, NEW y \in S, <<x, y>> \in R
        PROVE  Cardinality(UpTo(R, S, x)) < Cardinality(UpTo(R, S, y))
    <2>1. UpTo(R, S, x) \in SUBSET UpTo(R, S, y)
      BY <1>4 DEF UpTo, Orders
    <2>2. y \in UpTo(R, S, y) /\ y \notin UpTo(R, S, x)
      BY <1>4 DEF UpTo, Orders
    <2>3. /\ Cardinality(UpTo(R, S, x)) <= Cardinality(UpTo(R, S, y))
          /\ Cardinality(UpTo(R, S, x)) # Cardinality(UpTo(R, S, y))
      BY <1>2, <2>1, <2>2, FS_Subset
    <2> QED BY <1>2, <2>3
  <1>5. ASSUME NEW x \in S, NEW y \in S, Cardinality(UpTo(R, S, x)) = Cardinality(UpTo(R, S, y))
        PROVE  x = y
    <2>1. <<x, y>> \notin R /\ <<y, x>> \notin R
      BY <1>2, <1>4, <1>5
    <2> QED BY <2>1 DEF Orders
  <1> QED BY <1>2, <1>3, <1>4, <1>5

\* A finite set in a strict total order can be listed in it.
LEMMA ListExists ==
  ASSUME NEW S, IsFiniteSet(S), NEW R, Orders(R, S)
  PROVE  \E q : InOrder(q, S, R)
  <1> DEFINE rank == [x \in S |-> Cardinality(UpTo(R, S, x))]
             n == Cardinality(S)
  <1>1. n \in Nat /\ rank \in [S -> 1..n] /\ \A x, y \in S : rank[x] = rank[y] => x = y
    BY Ranks
  <1>2. rank \in Injection(S, 1..n)
    BY <1>1, Fun_IsInj
  <1>3. IsFiniteSet(1..n) /\ Cardinality(1..n) = n
    BY <1>1, FS_Interval
  <1>4. rank \in Surjection(S, 1..n)
    BY <1>2, <1>3, FS_Injection
  <1>5. \A i \in 1..n : \E x \in S : rank[x] = i
    <2> HIDE DEF rank, n
    <2> QED BY <1>4, Fun_SurjectionProperties
  <1> DEFINE q == [i \in 1..n |-> CHOOSE x \in S : rank[x] = i]
  <1>6. \A i \in 1..n : q[i] \in S /\ rank[q[i]] = i
    BY <1>5
  <1>7. ASSUME NEW i \in 1..n, NEW j \in 1..n, i < j PROVE <<q[i], q[j]>> \in R
    <2>1. q[i] \in S /\ q[j] \in S /\ rank[q[i]] = i /\ rank[q[j]] = j
      BY <1>6
    <2>2. q[i] # q[j]
      BY <1>1, <1>7, <2>1
    <2>3. <<q[j], q[i]>> \in R => rank[q[j]] < rank[q[i]]
      <3> HIDE DEF q
      <3> QED BY <2>1, Ranks
    <2>4. <<q[j], q[i]>> \notin R
      BY <1>1, <1>7, <2>1, <2>3
    <2> HIDE DEF q, rank
    <2> QED BY <2>1, <2>2, <2>4 DEF Orders
  <1>8. q \in [1..n -> S]
    BY <1>6
  <1> HIDE DEF q
  <1> QED BY <1>7, <1>8 DEF InOrder

\* A sort returns the list of the set in the order.
LEMMA SortedIsList ==
  ASSUME NEW S, IsFiniteSet(S), NEW R, Orders(R, S)
  PROVE  InOrder(Sorted(S, R), S, R)
  <1>1. PICK q : InOrder(q, S, R)
    BY ListExists
  <1>2. q \in [1..Cardinality(S) -> S] /\ \A i, j \in 1..Cardinality(S) : i < j => <<q[i], q[j]>> \in R
    BY <1>1 DEF InOrder
  <1> QED BY <1>2 DEF Sorted, InOrder

\* A list of a set in an order holds each element once.
LEMMA ListIsComplete ==
  ASSUME NEW S, IsFiniteSet(S), NEW R, Orders(R, S), NEW q, InOrder(q, S, R)
  PROVE  /\ \A j, k \in 1..Cardinality(S) : q[j] = q[k] => j = k
         /\ \A x \in S : \E k \in 1..Cardinality(S) : q[k] = x
  <1> DEFINE n == Cardinality(S)
  <1>1. n \in Nat /\ IsFiniteSet(1..n) /\ Cardinality(1..n) = n /\ q \in [1..n -> S]
        /\ \A j, k \in 1..n : j < k => <<q[j], q[k]>> \in R
    <2>1. n \in Nat
      BY FS_CardinalityType
    <2>2. IsFiniteSet(1..n) /\ Cardinality(1..n) = n
      BY <2>1, FS_Interval
    <2> QED BY <2>1, <2>2 DEF InOrder
  <1> HIDE DEF n
  <1>2. \A j, k \in 1..n : q[j] = q[k] => j = k
    <2>1. \A j, k \in 1..n : j < k => q[j] # q[k]
      BY <1>1 DEF Orders
    <2>2. \A j, k \in 1..n : j < k \/ k < j \/ j = k
      BY <1>1
    <2> QED BY <2>1, <2>2
  <1>3. q \in Injection(1..n, S)
    BY <1>1, <1>2, Fun_IsInj
  <1>4. \A x \in S : \E k \in 1..n : q[k] = x
    BY <1>1, <1>3, FS_Injection, Fun_SurjectionProperties DEF n
  <1> QED BY <1>2, <1>4 DEF n

\* The element in place i is the one of rank i.
LEMMA PlaceIsRank ==
  ASSUME NEW S, IsFiniteSet(S), NEW R, Orders(R, S), NEW q, InOrder(q, S, R),
         NEW i \in 1..Cardinality(S)
  PROVE  Cardinality(UpTo(R, S, q[i])) = i
  <1> DEFINE n == Cardinality(S)
  <1>1. n \in Nat /\ q \in [1..n -> S] /\ i \in 1..n
        /\ \A j, k \in 1..n : j < k => <<q[j], q[k]>> \in R
    BY FS_CardinalityType DEF InOrder
  <1>2. /\ \A j, k \in 1..n : q[j] = q[k] => j = k
        /\ \A x \in S : \E k \in 1..n : q[k] = x
    BY ListIsComplete
  <1> HIDE DEF n
  <1>3. UpTo(R, S, q[i]) = { q[k] : k \in 1..i }
    <2>1. ASSUME NEW k \in 1..n PROVE q[k] \in UpTo(R, S, q[i]) <=> k <= i
      <3>1. k < i => <<q[k], q[i]>> \in R
        BY <1>1
      <3>2. i < k => <<q[i], q[k]>> \in R /\ q[i] # q[k]
        BY <1>1, <1>2
      <3>3. i < k => <<q[k], q[i]>> \notin R
        BY <1>1, <3>2 DEF Orders
      <3> QED BY <1>1, <3>1, <3>2, <3>3 DEF UpTo
    <2>2. 1..i \subseteq 1..n /\ \A k \in 1..n : k \in 1..i <=> k <= i
      BY <1>1
    <2> QED BY <1>1, <1>2, <2>1, <2>2 DEF UpTo
  <1>4. ExistsBijection(1..i, { q[k] : k \in 1..i })
    <2> DEFINE f == [k \in 1..i |-> q[k]]
    <2>1. f \in [1..i -> { q[k] : k \in 1..i }]
      OBVIOUS
    <2>2. \A j, k \in 1..i : f[j] = f[k] => j = k
      BY <1>1, <1>2
    <2>3. \A x \in { q[k] : k \in 1..i } : \E k \in 1..i : f[k] = x
      OBVIOUS
    <2> HIDE DEF f
    <2>4. f \in Bijection(1..i, { q[k] : k \in 1..i })
      BY <2>1, <2>2, <2>3, Fun_IsBij
    <2> QED BY <2>4, Fun_ExistsBij
  <1>5. IsFiniteSet(1..i) /\ Cardinality(1..i) = i
    BY <1>1, FS_Interval
  <1> QED BY <1>3, <1>4, <1>5, FS_Bijection

\* There is one list of a finite set in an order.
LEMMA ListIsUnique ==
  ASSUME NEW S, IsFiniteSet(S), NEW R, Orders(R, S), NEW p, NEW q, InOrder(p, S, R), InOrder(q, S, R)
  PROVE  p = q
  <1>1. p \in [1..Cardinality(S) -> S] /\ q \in [1..Cardinality(S) -> S]
    BY DEF InOrder
  <1>2. ASSUME NEW i \in 1..Cardinality(S) PROVE p[i] = q[i]
    <2>1. Cardinality(UpTo(R, S, p[i])) = Cardinality(UpTo(R, S, q[i]))
      BY PlaceIsRank
    <2> QED BY <1>1, <2>1, Ranks
  <1>3. p = [i \in 1..Cardinality(S) |-> p[i]] /\ q = [i \in 1..Cardinality(S) |-> q[i]]
    BY <1>1
  <1> QED BY <1>2, <1>3

\* The reversed list is the list in the opposite order.
LEMMA ReverseLists ==
  ASSUME NEW S, IsFiniteSet(S), NEW R, NEW Q, NEW q, InOrder(q, S, R),
         \A x, y \in S : <<x, y>> \in R => <<y, x>> \in Q
  PROVE  InOrder(Reverse(q), S, Q)
  <1> DEFINE n == Cardinality(S)
  <1>1. n \in Nat /\ q \in [1..n -> S] /\ \A i, j \in 1..n : i < j => <<q[i], q[j]>> \in R
    BY FS_CardinalityType DEF InOrder
  <1>2. q \in Seq(S) /\ Len(q) = n
    BY <1>1
  <1> HIDE DEF n
  <1>3. Reverse(q) = [i \in 1..n |-> q[(n - i) + 1]] /\ \A i \in 1..n : (n - i) + 1 \in 1..n
    BY <1>1, <1>2 DEF Reverse
  <1>4. Reverse(q) \in [1..n -> S] /\ \A i \in 1..n : Reverse(q)[i] = q[(n - i) + 1]
    BY <1>1, <1>3
  <1>5. ASSUME NEW i \in 1..n, NEW j \in 1..n, i < j PROVE <<Reverse(q)[i], Reverse(q)[j]>> \in Q
    <2>1. (n - j) + 1 \in 1..n /\ (n - i) + 1 \in 1..n /\ (n - j) + 1 < (n - i) + 1
      BY <1>1, <1>5
    <2>2. <<q[(n - j) + 1], q[(n - i) + 1]>> \in R /\ q[(n - j) + 1] \in S /\ q[(n - i) + 1] \in S
      BY <1>1, <2>1
    <2> QED BY <1>4, <2>2
  <1> QED BY <1>4, <1>5 DEF InOrder, n

\* Both ways of cutting a page out of a list.
LEMMA PagesCutAlike ==
  ASSUME NEW S, NEW q \in Seq(S), NEW page \in Nat, NEW size \in Nat
  PROVE  PageOf(q, page, size) = SkipTake(q, page, size)
  <1> DEFINE start == page * size
             n == Len(q)
             last == IF n < start + size THEN n ELSE start + size
             count == IF last < start THEN 0 ELSE last - start
  <1>1. start \in Nat /\ n \in Nat /\ q \in [1..n -> S]
    <2>1. page * size \in Nat
      OBVIOUS
    <2> QED BY <2>1
  <1> HIDE DEF start
  <1>2. /\ last \in Nat /\ last <= n /\ last <= start + size
        /\ count \in Nat /\ (last >= start => count = last - start)
        /\ (last < start => count = 0)
    <2> HIDE DEF n
    <2>1. last \in Nat /\ last <= n /\ last <= start + size
      BY <1>1
    <2> HIDE DEF last
    <2> QED BY <1>1, <2>1
  <1>3. { k \in 1..size : start + k <= n } = 1..count
    <2> HIDE DEF n
    <2>1. ASSUME NEW k \in Nat PROVE k \in 1..size /\ start + k <= n <=> k \in 1..count
      <3>1. CASE n < start + size /\ n < start
        BY <1>1, <3>1
      <3>2. CASE n < start + size /\ n >= start
        BY <1>1, <3>2
      <3>3. CASE n >= start + size
        BY <1>1, <3>3
      <3> QED BY <1>1, <3>1, <3>2, <3>3
    <2>2. 1..size \subseteq Nat /\ 1..count \subseteq Nat
      BY <1>2
    <2> HIDE DEF count
    <2> QED BY <2>1, <2>2
  <1>4. Cardinality({ k \in 1..size : start + k <= n }) = count
    <2>1. Cardinality(1..count) = count
      <3> HIDE DEF count
      <3> QED BY <1>2, FS_Interval
    <2> QED BY <1>3, <2>1
  <1>5. SkipTake(q, page, size) = [k \in 1..count |-> q[start + k]]
    BY <1>4 DEF SkipTake, start
  <1>6. PageOf(q, page, size) = SubSeq(q, start + 1, last)
    BY DEF PageOf, start
  <1> HIDE DEF last, count, n
  <1>7. \A k \in (start + 1)..last : q[k] \in S
    BY <1>1, <1>2 DEF n
  <1>8. /\ SubSeq(q, start + 1, last) \in Seq(S)
        /\ Len(SubSeq(q, start + 1, last)) = count
        /\ \A k \in 1..count : SubSeq(q, start + 1, last)[k] = q[start + k]
    <2>1. /\ SubSeq(q, start + 1, last) \in Seq(S)
          /\ Len(SubSeq(q, start + 1, last))
                = IF start + 1 <= last THEN last - (start + 1) + 1 ELSE 0
          /\ \A k \in 1..(last - (start + 1) + 1) :
                SubSeq(q, start + 1, last)[k] = q[start + 1 + k - 1]
      BY <1>1, <1>2, <1>7, SubSeqProperties
    <2>2. /\ 1..(last - (start + 1) + 1) = 1..count
          /\ \A k \in 1..count : start + 1 + k - 1 = start + k
      BY <1>1, <1>2
    <2> QED BY <1>1, <1>2, <2>1, <2>2
  <1> QED BY <1>2, <1>5, <1>6, <1>8

-----------------------------------------------------------------------------
(* Histories *)

\* The order of messages by sequence number, time and id, and its opposite.
Older(rows, S) == { p \in S \X S : MessageOrder(rows, p[1], p[2]) }
Newer(rows, S) == { p \in S \X S : MessageOrder(rows, p[2], p[1]) }
Numbered(rows, S) ==
    S \subseteq Nat /\ \A i \in S : rows[i].seq \in Nat /\ rows[i].time \in Nat

LEMMA TimeOrders ==
  ASSUME NEW rows, NEW S, Numbered(rows, S)
  PROVE  Orders(Older(rows, S), S) /\ Orders(Newer(rows, S), S)
  <1>1. \A x, y \in S : /\ <<x, y>> \in Older(rows, S) <=> MessageOrder(rows, x, y)
                        /\ <<x, y>> \in Newer(rows, S) <=> MessageOrder(rows, y, x)
    BY DEF Older, Newer
  <1>2. \A x \in S : x \in Nat /\ rows[x].seq \in Nat /\ rows[x].time \in Nat
    BY DEF Numbered
  <1>3. \A x \in S : ~MessageOrder(rows, x, x)
    BY <1>2 DEF MessageOrder
  <1>4. \A x, y \in S : x = y \/ MessageOrder(rows, x, y) \/ MessageOrder(rows, y, x)
    BY <1>2 DEF MessageOrder
  <1>5. \A x, y, z \in S : MessageOrder(rows, x, y) /\ MessageOrder(rows, y, z) => MessageOrder(rows, x, z)
    BY <1>2 DEF MessageOrder
  <1> QED BY <1>1, <1>3, <1>4, <1>5 DEF Orders

\* What the sorts of the three return.
LEMMA MemoryLists ==
  ASSUME NEW rows, NEW S, S = { i \in MsgIds : rows[i] # None }, IsFiniteSet(S), Numbered(rows, S)
  PROVE  InOrder(AllMessages(rows), S, Older(rows, S))
  <1>1. AllMessages(rows) = Sorted(S, Older(rows, S))
    BY DEF AllMessages, Older
  <1> QED BY <1>1, TimeOrders, SortedIsList

LEMMA SqliteLists ==
  ASSUME NEW S, S = { i \in MsgIds : chatRows[i] # None }, IsFiniteSet(S), Numbered(chatRows, S)
  PROVE  \E q : /\ InOrder(q, S, Newer(chatRows, S))
                /\ \A page, size : LoadHistory(page, size) = PageOf(q, page, size)
  <1> DEFINE order == { p \in S \X S : HistoryBefore(chatRows, p[1], p[2]) }
  <1>1. \A page, size : LoadHistory(page, size) = PageOf(Sorted(S, order), page, size)
    BY DEF LoadHistory
  <1>2. \A i, j \in S : HistoryBefore(chatRows, i, j) <=> MessageOrder(chatRows, j, i)
    BY DEF HistoryBefore, MessageOrder, Numbered
  <1>3. order = Newer(chatRows, S)
    BY <1>2 DEF Newer
  <1> HIDE DEF order
  <1>4. InOrder(Sorted(S, order), S, Newer(chatRows, S))
    BY <1>3, TimeOrders, SortedIsList
  <1> QED BY <1>1, <1>4

LEMMA IdbLists ==
  ASSUME NEW S, IsFiniteSet(S), NEW rows, DOMAIN rows = S, Numbered(rows, S)
  PROVE  \E q : /\ InOrder(q, S, Newer(rows, S))
                /\ \A page, size : IdbHistory(rows, page, size) = SkipTake(q, page, size)
  <1> DEFINE order == { p \in S \X S : MessageDescOrder(rows, p[1], p[2]) }
  <1>1. \A page, size : IdbHistory(rows, page, size) = SkipTake(Sorted(S, order), page, size)
    BY DEF IdbHistory
  <1>2. \A i, j \in S : MessageDescOrder(rows, i, j) <=> MessageOrder(rows, j, i)
    <2>1. \A i \in S : i \in Nat /\ rows[i].seq \in Nat /\ rows[i].time \in Nat
      BY DEF Numbered
    <2> QED BY <2>1 DEF MessageDescOrder, MessageOrder
  <1>3. order = Newer(rows, S)
    BY <1>2 DEF Newer
  <1> HIDE DEF order
  <1>4. InOrder(Sorted(S, order), S, Newer(rows, S))
    BY <1>3, TimeOrders, SortedIsList
  <1> QED BY <1>1, <1>4

\* Only finitely many messages are stored.
FinitelySaved == IsFiniteSet({ i \in MsgIds : acked.messages[i] # None })

LEMMA FinitelySavedStep ==
  ASSUME SqliteInv, FinitelySaved, SqliteNext
  PROVE  FinitelySaved'
  <1>1. CASE acked'.messages = acked.messages
    BY <1>1 DEF FinitelySaved
  <1>2. ASSUME NEW i, NEW m, acked'.messages = [acked.messages EXCEPT ![i] = m]
        PROVE  FinitelySaved'
    <2> DEFINE before == { j \in MsgIds : acked.messages[j] # None }
               after == { j \in MsgIds : acked'.messages[j] # None }
    <2>1. acked.messages \in [MsgIds -> Messages \cup {None}]
      BY DEF SqliteInv, AckedTypes
    <2>2. \A j \in MsgIds : j # i => acked'.messages[j] = acked.messages[j]
      BY <1>2, <2>1
    <2>3. after \in SUBSET (before \cup {i})
      BY <2>2
    <2>4. IsFiniteSet(before \cup {i})
      BY FS_AddElement DEF FinitelySaved
    <2> HIDE DEF before
    <2>5. IsFiniteSet(after)
      BY <2>3, <2>4, FS_Subset
    <2> QED BY <2>5 DEF FinitelySaved
  <1>3. CASE Execute
    <2> DEFINE s == Head(call)
    <2>1. acked \in AckedTypes
      BY DEF SqliteInv
    <2>2. CASE ExecuteChat(s)
      <3>1. acked'.messages = [acked.messages EXCEPT ![s.args.id] = s.args.message]
        BY <2>1, <2>2 DEF ExecuteChat, AckedTypes
      <3> QED BY <1>2, <3>1
    <2>3. CASE ~ExecuteChat(s)
      <3> HIDE DEF s
      <3>1. ExecuteCreate(s) => acked'.messages = acked.messages
        BY <2>1 DEF ExecuteCreate, AckedTypes
      <3>2. ExecuteApp(s) \/ ExecuteSync(s) => acked'.messages = acked.messages
        BY <2>1 DEF ExecuteApp, ExecuteSync, AckedTypes
      <3>3. UpsertConversationRow(s) => acked'.messages = acked.messages
        BY <2>1 DEF UpsertConversationRow, AckedTypes
      <3>4. DeleteConversationRow(s) => acked'.messages = acked.messages
        BY <2>1 DEF DeleteConversationRow, AckedTypes
      <3>5. ExecuteCreate(s) \/ ExecuteApp(s) \/ ExecuteSync(s) \/ UpsertConversationRow(s)
            \/ DeleteConversationRow(s)
        BY <1>3, <2>3 DEF Execute, s
      <3> QED BY <1>1, <3>1, <3>2, <3>3, <3>4, <3>5
    <2> QED BY <2>2, <2>3
  <1>4. CASE ~Execute
    <2>1. UNCHANGED acked
      BY <1>4 DEF SqliteNext, Migrate, DeleteVersionSync, Fail, Reopen, SetAppSdkVersion, SetVersionSync,
                  SaveMessage, RemoveConversation, SaveConversation, Begin, Refuse
    <2> QED BY <1>1, <2>1
  <1> QED BY <1>3, <1>4

\* Every page of every size.
LEMMA PagesAgree ==
  ASSUME SqliteInv, FinitelySaved, NEW size \in Nat, NEW page \in Nat
  PROVE  LET saved == { i \in MsgIds : acked.messages[i] # None }
             vector == [i \in saved |-> acked.messages[i]]
             rows == LoadHistory(page, size)
         IN  /\ rows = MemoryHistory(acked.messages, page, size)
             /\ rows = MemorySearch(acked.messages, MsgIds, page, size)
             /\ rows = IdbHistory(vector, page, size)
  <1> DEFINE saved == { i \in MsgIds : acked.messages[i] # None }
             vector == [i \in saved |-> acked.messages[i]]
             msgs == acked.messages
             q == Reverse(AllMessages(msgs))
  <1>1. /\ msgs \in [MsgIds -> Messages \cup {None}] /\ MsgIds \subseteq Nat
        /\ chatRows \in [MsgIds -> ChatRows \cup {None}]
        /\ \A i \in MsgIds : chatRows[i] = IF msgs[i] = None THEN None ELSE RowOf(msgs[i])
    BY StorageConstants DEF SqliteInv, AckedTypes, ChatServed, StorageConstants
  <1>2. \A i \in MsgIds : chatRows[i] # None <=> msgs[i] # None
    BY <1>1, StorageConstants DEF StorageConstants, RowOf, Messages, ChatRows
  <1>3. saved = { i \in MsgIds : chatRows[i] # None } /\ IsFiniteSet(saved)
    BY <1>2 DEF FinitelySaved
  <1>4. \A i \in saved : /\ i \in Nat /\ msgs[i] \in Messages /\ vector[i] = msgs[i]
                         /\ chatRows[i].seq = msgs[i].seq /\ chatRows[i].time = msgs[i].time
                         /\ msgs[i].seq \in Nat /\ msgs[i].time \in Nat
    BY <1>1, <1>2 DEF RowOf, Messages
  <1>5. Numbered(msgs, saved) /\ Numbered(chatRows, saved) /\ Numbered(vector, saved)
    BY <1>4 DEF Numbered
  <1>6. /\ Newer(chatRows, saved) = Newer(msgs, saved)
        /\ Newer(vector, saved) = Newer(msgs, saved)
    <2>1. \A i, j \in saved : /\ MessageOrder(chatRows, i, j) <=> MessageOrder(msgs, i, j)
                              /\ MessageOrder(vector, i, j) <=> MessageOrder(msgs, i, j)
      BY <1>4 DEF MessageOrder
    <2> HIDE DEF saved, vector, msgs
    <2> QED BY <2>1 DEF Newer
  <1>7. InOrder(q, saved, Newer(msgs, saved))
    <2>1. InOrder(AllMessages(msgs), saved, Older(msgs, saved))
      BY <1>3, <1>5, MemoryLists
    <2>2. \A x, y \in saved : <<x, y>> \in Older(msgs, saved) => <<y, x>> \in Newer(msgs, saved)
      BY DEF Older, Newer
    <2> HIDE DEF saved, msgs
    <2> QED BY <1>3, <2>1, <2>2, ReverseLists
  <1>8. Orders(Newer(msgs, saved), saved)
    BY <1>5, TimeOrders
  <1>9. \A p : InOrder(p, saved, Newer(msgs, saved)) => p = q
    <2> HIDE DEF saved, msgs, q
    <2> QED BY <1>3, <1>7, <1>8, ListIsUnique
  <1>10. LoadHistory(page, size) = PageOf(q, page, size)
    <2>1. PICK p : /\ InOrder(p, saved, Newer(chatRows, saved))
                   /\ \A pg, sz : LoadHistory(pg, sz) = PageOf(p, pg, sz)
      BY <1>3, <1>5, SqliteLists
    <2> QED BY <1>6, <1>9, <2>1
  <1>11. MemoryHistory(msgs, page, size) = PageOf(q, page, size)
    BY DEF MemoryHistory
  <1>12. MemorySearch(msgs, MsgIds, page, size) = PageOf(q, page, size)
    BY DEF MemorySearch, AllMessages
  <1>13. IdbHistory(vector, page, size) = PageOf(q, page, size)
    <2>1. PICK p : /\ InOrder(p, saved, Newer(vector, saved))
                   /\ \A pg, sz : IdbHistory(vector, pg, sz) = SkipTake(p, pg, sz)
      <3>1. DOMAIN vector = saved
        OBVIOUS
      <3> HIDE DEF vector
      <3> QED BY <1>3, <1>5, <3>1, IdbLists
    <2>2. p = q /\ q \in Seq(saved)
      <3>1. p = q
        BY <1>6, <1>9, <2>1
      <3>2. q \in [1..Cardinality(saved) -> saved] /\ Cardinality(saved) \in Nat
        BY <1>3, <1>7, FS_CardinalityType DEF InOrder
      <3> HIDE DEF q, saved
      <3> QED BY <3>1, <3>2
    <2> HIDE DEF q, vector
    <2> QED BY <2>1, <2>2, PagesCutAlike
  <1> HIDE DEF q
  <1> QED BY <1>10, <1>11, <1>12, <1>13

-----------------------------------------------------------------------------
(* Theorems *)

StoragePartsInv == SqliteInv /\ IdbInv

\* Whichever backend a session uses, the invariant of its store is kept; the other store
\* is not touched.
THEOREM StorageInvariance == Spec => []StoragePartsInv
  <1>1. Init => StoragePartsInv
    BY SqliteInvInit, IdbInvInit DEF Init, StoragePartsInv
  <1>2. StoragePartsInv /\ [Next]_vars => StoragePartsInv'
    <2>1. SqliteInv /\ UNCHANGED sqliteVars => SqliteInv'
      BY DEF sqliteVars, SqliteInv, AppServed, ChatServed, ConvsServed, OneOwner
    <2>2. IdbInv /\ UNCHANGED idbVars => IdbInv'
      BY DEF idbVars, IdbInv, IdbTypeOK, OverlapsAreMet, OwnEntryKept, ReadsAgree, ListAgrees, ActiveOn, Active
    <2> QED BY <2>1, <2>2, SqliteInvStep, IdbInvStep DEF StoragePartsInv, Next, vars
  <1> QED BY <1>1, <1>2, PTL DEF Spec

\* Rows, entries, lists and the calls under way stay in their domains.
THEOREM StorageTypes == Spec => []TypeOK
  <1>1. StoragePartsInv => TypeOK
    <2> SUFFICES ASSUME StoragePartsInv PROVE SqliteTypeOK
      BY DEF TypeOK, StoragePartsInv, IdbInv
    <2>1. acked \in AckedTypes /\ AppServed /\ syncRow = acked.sync /\ ChatServed /\ ConvsServed
          /\ tables \subseteq AllTables /\ failed \in BOOLEAN
      BY DEF StoragePartsInv, SqliteInv
    <2>2. appRows \subseteq Versions
      BY <2>1 DEF AckedTypes, AppServed
    <2>3. syncRow \in I64 \cup {None}
      BY <2>1, StorageConstants DEF AckedTypes, I64, StorageConstants
    <2>4. \A c \in ConvIds : convRows[c] # None =>
              convRows[c].owner \in Owners /\ IntoConversation(convRows[c]) \in Infos
      BY <2>1 DEF ConvsServed, ConvRows, IntoConversation, Infos
    <2>5. \A i \in MsgIds : LoadMessage(i) \in Messages \cup {None}
      <3>1. ASSUME NEW i \in MsgIds, chatRows[i] # None PROVE LoadMessage(i) \in Messages
        <4>1. acked.messages[i] \in Messages /\ chatRows[i] = RowOf(acked.messages[i])
          BY <2>1, <3>1 DEF AckedTypes, ChatServed
        <4> QED BY <3>1, <4>1, MessageReadBack DEF LoadMessage
      <3> QED BY <3>1 DEF LoadMessage
    <2> QED BY <2>1, <2>2, <2>3, <2>4, <2>5 DEF SqliteTypeOK
  <1> QED BY <1>1, StorageInvariance, PTL

\* What a call that returned Ok has stored is what the sqlite store loads, wherever the
\* process was killed since and in whatever order the calls came.
THEOREM SavedIsServed == Spec => []SqliteServesWhatWasSaved
  <1>1. StoragePartsInv => SqliteServesWhatWasSaved
    <2> SUFFICES ASSUME StoragePartsInv PROVE SqliteServesWhatWasSaved
      OBVIOUS
    <2>1. acked \in AckedTypes /\ AppServed /\ syncRow = acked.sync /\ ChatServed /\ ConvsServed
      BY DEF StoragePartsInv, SqliteInv
    <2>2. GetAppSdkVersion = acked.app
      <3>1. ASSUME NEW v, appRows = {v} PROVE GetAppSdkVersion = v
        BY <3>1 DEF GetAppSdkVersion
      <3> QED BY <2>1, <3>1 DEF AppServed, GetAppSdkVersion
    <2>3. GetVersionSync = acked.sync
      BY <2>1, StorageConstants DEF StorageConstants, AckedTypes, GetVersionSync, IntoVersionRecord
    <2>4. ASSUME NEW i \in MsgIds PROVE LoadMessage(i) = acked.messages[i]
      <3>1. acked.messages[i] # None => acked.messages[i] \in Messages
        BY <2>1 DEF AckedTypes
      <3> QED BY <2>1, <3>1, MessageReadBack DEF ChatServed, LoadMessage
    <2>5. OneOwner => \A o \in Owners, c \in ConvIds : LoadConversations(o)[c] = acked.convs[<<o, c>>]
      BY <2>1 DEF ConvsServed, LoadConversations
    <2> QED BY <2>2, <2>3, <2>4, <2>5 DEF SqliteServesWhatWasSaved
  <1> QED BY <1>1, StorageInvariance, PTL

\* After one complete migration no call meets a missing table.
THEOREM MigratedOnce == Spec => []MigratedForGood
  <1>1. StoragePartsInv => MigratedForGood
    <2> SUFFICES ASSUME StoragePartsInv, call # <<>>, MissingTable(Head(call)) PROVE ~acked.migrated
      BY DEF MigratedForGood
    <2>1. Head(call) \in Statements /\ Needs(Head(call)) \subseteq tables
      BY PreparedTail DEF StoragePartsInv, SqliteInv
    <2>2. Head(call).on \in {"app", "sync", "conversations"}
      BY <2>1 DEF Statements, Needs, MissingTable, AllTables
    <2> QED BY <2>2 DEF StoragePartsInv, SqliteInv, MissingTable
  <1> QED BY <1>1, StorageInvariance, PTL

\* The two copies the IndexedDB store keeps differ only on elements whose own calls failed
\* or overlapped others.
THEOREM SettledElements == Spec => []SettledElementsAgree
  <1>1. StoragePartsInv => SettledElementsAgree
    BY DEF StoragePartsInv, IdbInv, SettledElementsAgree, ListAgrees, ActiveOn, ActiveTasks, LoadEntry, LoadList
  <1> QED BY <1>1, StorageInvariance, PTL

\* One history, whichever store or service it is read from, page by page.
THEOREM HistoriesEverywhere == Spec => []HistoriesAgree
  <1>1. Init => FinitelySaved
    <2> SUFFICES ASSUME Init PROVE FinitelySaved
      OBVIOUS
    <2>1. { i \in MsgIds : acked.messages[i] # None } = {}
      BY DEF Init, SqliteInit, NothingAcked
    <2> QED BY <2>1, FS_EmptySet DEF FinitelySaved
  <1>2. StoragePartsInv /\ FinitelySaved /\ [Next]_vars => FinitelySaved'
    <2>1. UNCHANGED acked /\ FinitelySaved => FinitelySaved'
      BY DEF FinitelySaved
    <2> QED BY <2>1, FinitelySavedStep DEF StoragePartsInv, Next, vars, sqliteVars
  <1>3. StoragePartsInv /\ FinitelySaved => HistoriesAgree
    <2> SUFFICES ASSUME StoragePartsInv, FinitelySaved, NEW size \in 1..2, NEW page \in 0..2
                 PROVE  LET saved == { i \in MsgIds : acked.messages[i] # None }
                            vector == [i \in saved |-> acked.messages[i]]
                            rows == LoadHistory(page, size)
                        IN  /\ rows = MemoryHistory(acked.messages, page, size)
                            /\ rows = MemorySearch(acked.messages, MsgIds, page, size)
                            /\ rows = IdbHistory(vector, page, size)
      BY DEF HistoriesAgree
    <2>1. size \in Nat /\ page \in Nat /\ SqliteInv
      BY DEF StoragePartsInv
    <2> QED BY <2>1, PagesAgree
  <1> QED BY <1>1, <1>2, <1>3, StorageInvariance, PTL DEF Spec

=============================================================================
