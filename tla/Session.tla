------------------------------- MODULE Session -------------------------------
(***************************************************************************)
(* The lifecycle of OpenImSession (crates/openim-session/src/lib.rs): the  *)
(* login state machine, the runtime resources the adapter hands over at    *)
(* login, the task supervisor, the domain services and the listeners.      *)
(*                                                                         *)
(* Every public method takes &mut self, so a call is one atomic step.      *)
(* What is not decided by this crate is nondeterministic: whether a method *)
(* of the SessionResourceAdapter succeeds, which resources its login       *)
(* returns, and which resources refuse to close.                           *)
(*                                                                         *)
(* A resource is [login, pos]: the login that opened it and its place in   *)
(* the Vec the adapter built.  close_all keeps that order, so the Vec is   *)
(* the set of its elements ordered by pos.                                 *)
(*                                                                         *)
(* A definition named Mutant... is a wrong version of the definition that  *)
(* follows it; no specification uses it.  Substituting it shows that the   *)
(* properties notice that mistake.                                         *)
(***************************************************************************)
EXTENDS Integers, Sequences, FiniteSets, FiniteSetsExt, SequencesExt

CONSTANTS
    Users,              \* user ids an application may log in with
    NoUser,             \* login_user_id = None
    AppTasks,           \* names an application passes to start_task
    Positions,          \* places in the adapter's resource vector
    MaxLogins,          \* bound: successful adapter logins per behaviour
    MaxListeners,       \* bound: listeners ever registered
    CloseMayFail,       \* may SessionResourceHandle::close return Err?
    AdapterMayMismatch  \* may the adapter return another user's resources?

ASSUME SessionConstants ==
    /\ NoUser \notin Users
    /\ MaxLogins \in Nat
    /\ MaxListeners \in Nat
    /\ Positions \subseteq Nat /\ IsFiniteSet(Positions)
    /\ IsFiniteSet(AppTasks)
    /\ CloseMayFail \in BOOLEAN
    /\ AdapterMayMismatch \in BOOLEAN

VARIABLES
    state,        \* SessionState
    loginUser,    \* login_user_id
    runtime,      \* runtime_resources: "None" or "Some"
    held,         \* the resources inside runtime_resources
    running,      \* names TaskSupervisor maps to true
    domains,      \* users whose data the domain services hold
    nextId,       \* ListenerRegistry.next_id
    listeners,    \* ids in ListenerRegistry.listeners
    result,       \* what the last call returned
    \* history
    logins,       \* adapter logins that succeeded
    live,         \* resources opened and never closed successfully
    dropped,      \* resources dropped without a call to close
    early,        \* listeners registered before the session did anything
    view          \* what each listener believes from the events it heard

vars == <<state, loginUser, runtime, held, running, domains, nextId,
          listeners, result, logins, live, dropped, early, view>>

States == {"Created", "Initialized", "LoggedIn", "LoggedOut", "Uninitialized"}
LoginTasks == {"transport", "sync"}
Tasks == AppTasks \cup LoginTasks
Resource == [login: 1..MaxLogins, pos: Positions]
ListenerIds == 1..MaxListeners

-----------------------------------------------------------------------------
(* Events and listeners *)

View == [user: Users \cup {NoUser}, tasks: SUBSET Tasks,
         opened: SUBSET Positions, gone: SUBSET ListenerIds]

EmptyView == [user |-> NoUser, tasks |-> {}, opened |-> {}, gone |-> {}]

Event(type, arg) == [type |-> type, arg |-> arg]

\* A listener that keeps its own picture of the session updates it like this.
Hear(v, e) ==
    CASE e.type = "TaskStarted" -> [v EXCEPT !.tasks = @ \cup {e.arg}]
      [] e.type = "TaskStopped" -> [v EXCEPT !.tasks = @ \ {e.arg}]
      [] e.type = "ResourceOpened" -> [v EXCEPT !.opened = @ \cup {e.arg}]
      [] e.type = "ResourceClosed" -> [v EXCEPT !.opened = @ \ {e.arg}]
      [] e.type = "LoggedIn" -> [v EXCEPT !.user = e.arg]
      [] e.type \in {"LoggedOut", "Uninitialized"} -> [v EXCEPT !.user = NoUser]
      [] e.type = "ListenerUnregistered" -> [v EXCEPT !.gone = @ \cup {e.arg}]
      [] OTHER -> v

\* What a listener believes that has heard the events one after the other.
Heard(v, events) ==
    LET heard[i \in 0..Len(events)] == IF i = 0 THEN v ELSE Hear(heard[i - 1], events[i])
    IN  heard[Len(events)]

\* ListenerRegistry::emit: every registered callback hears the events in order.
EmitTo(ids, events) ==
    view' = [l \in ListenerIds |-> IF l \in ids THEN Heard(view[l], events) ELSE view[l]]

Emit(events) == EmitTo(listeners, events)

\* The places of resources in the order of the Vec.
InOrder(places) ==
    CHOOSE order \in [1..Cardinality(places) -> places] :
        \A i, j \in DOMAIN order : i < j => order[i] < order[j]

\* close_all pops from the end of the Vec, so places are announced descending.
ClosedEvents(resources) ==
    LET order == InOrder({r.pos : r \in resources})
    IN  [i \in 1..Len(order) |-> Event("ResourceClosed", order[Len(order) + 1 - i])]

\* login announces the resources the adapter returned, in the Vec's order.
OpenedEvents(opened) ==
    LET order == InOrder(opened)
    IN  [i \in 1..Len(order) |-> Event("ResourceOpened", order[i])]

MutantStoppedEvents(names) == <<>>

\* stop_task and stop_all_tasks: TaskStopped for the tasks that were running.
StoppedEvents(names) ==
    LET order == SetToSeq(names \cap running)
    IN  [i \in 1..Len(order) |-> Event("TaskStopped", order[i])]

\* start_task: TaskStarted only when the task was not running yet.
StartEvents(name) == IF name \in running THEN <<>> ELSE <<Event("TaskStarted", name)>>

-----------------------------------------------------------------------------
(* Helpers *)

Fail ==
    /\ result' = "Err"
    /\ UNCHANGED <<state, loginUser, runtime, held, running, domains,
                   nextId, listeners, logins, live, dropped, early, view>>

NoOp ==
    /\ result' = "Ok"
    /\ UNCHANGED <<state, loginUser, runtime, held, running, domains,
                   nextId, listeners, logins, live, dropped, early, view>>

\* The sets of resources whose close returns Err in one close_all.
CloseFailures == IF CloseMayFail THEN SUBSET held ELSE {{}}

MutantKeepRemaining(failing) ==
    /\ held' = {}
    /\ live' = live \ (held \ failing)

\* close_all with an error: what closed is gone, and the resources that
\* refused are put back for a later attempt.
KeepRemaining(failing) ==
    /\ held' = failing
    /\ live' = live \ (held \ failing)

MutantCloseFails(failing) ==
    /\ failing # {}
    /\ KeepRemaining(failing)
    /\ running' = {}
    /\ result' = "Err"
    /\ UNCHANGED <<state, loginUser, runtime, domains, nextId, listeners,
                   logins, dropped, early, view>>

\* The infos of the closed resources are discarded and the error propagates
\* before logout or uninit writes another field.
CloseFails(failing) ==
    /\ failing # {}
    /\ KeepRemaining(failing)
    /\ result' = "Err"
    /\ UNCHANGED <<state, loginUser, runtime, running, domains, nextId,
                   listeners, logins, dropped, early, view>>

MutantCloseRuntimeResources ==
    /\ runtime' = "None"
    /\ held' = {}
    /\ UNCHANGED live

\* close_runtime_resources when every resource closes.
CloseRuntimeResources ==
    /\ runtime' = "None"
    /\ held' = {}
    /\ live' = live \ held

MutantForgetUserOnly ==
    /\ loginUser' = NoUser
    /\ UNCHANGED domains

MutantForgetDomainsOnly ==
    /\ domains' = {}
    /\ UNCHANGED loginUser

\* login_user_id = None and domains = DomainServices::default().
ForgetUser ==
    /\ loginUser' = NoUser
    /\ domains' = {}

\* The tail logout and uninit share once every resource has closed.
CleanUp(next, lastEvent) ==
    /\ CloseRuntimeResources
    /\ running' = {}
    /\ ForgetUser
    /\ state' = next
    /\ result' = "Ok"
    /\ Emit(StoppedEvents(running) \o ClosedEvents(held) \o <<lastEvent>>)
    /\ UNCHANGED <<nextId, listeners, logins, dropped, early>>

-----------------------------------------------------------------------------
(* Operations of OpenImSession *)

Init ==
    /\ state = "Created"
    /\ loginUser = NoUser
    /\ runtime = "None"
    /\ held = {}
    /\ running = {}
    /\ domains = {}
    /\ nextId = 0
    /\ listeners = {}
    /\ result = "Ok"
    /\ logins = 0
    /\ live = {}
    /\ dropped = {}
    /\ early = {}
    /\ view = [l \in ListenerIds |-> EmptyView]

\* init: resources are initialised once per Created/Uninitialized period.
InitSdk ==
    /\ state \in {"Created", "Uninitialized"}
    /\ \/ Fail                                      \* adapter.init failed
       \/ /\ state' = "Initialized"
          /\ result' = "Ok"
          /\ Emit(<<Event("Initialized", NoUser)>>)
          /\ UNCHANGED <<loginUser, runtime, held, running, domains, nextId,
                         listeners, logins, live, dropped, early>>

InitAgain ==
    /\ state \in {"Initialized", "LoggedOut", "LoggedIn"}
    /\ NoOp

\* login rejected: invalid credentials, wrong state, or adapter.login failed.
LoginRefused == Fail

\* adapter.login returned resources, but not the ones asked for: the value is
\* dropped where ensure_matches fails and nothing calls close on its contents.
LoginMismatch ==
    /\ AdapterMayMismatch
    /\ state \in {"Initialized", "LoggedOut"}
    /\ logins < MaxLogins
    /\ \E opened \in SUBSET Positions :
          LET new == {[login |-> logins + 1, pos |-> p] : p \in opened}
          IN  /\ live' = live \cup new
              /\ dropped' = dropped \cup new
    /\ logins' = logins + 1
    /\ result' = "Err"
    /\ UNCHANGED <<state, loginUser, runtime, held, running, domains,
                   nextId, listeners, early, view>>

Login(user) ==
    /\ state \in {"Initialized", "LoggedOut"}
    /\ logins < MaxLogins
    /\ \E opened \in SUBSET Positions :
          LET new == {[login |-> logins + 1, pos |-> p] : p \in opened}
          IN  /\ held' = new
              /\ live' = live \cup new
              /\ Emit(StartEvents("transport") \o StartEvents("sync")
                        \o OpenedEvents(opened)
                        \o <<Event("LoggedIn", user)>>)
    /\ logins' = logins + 1
    /\ loginUser' = user
    /\ runtime' = "Some"
    /\ domains' = {}
    /\ state' = "LoggedIn"
    /\ running' = running \cup LoginTasks
    /\ result' = "Ok"
    /\ UNCHANGED <<nextId, listeners, dropped, early>>

LogoutNobody ==
    /\ loginUser = NoUser
    /\ NoOp

Logout ==
    /\ loginUser # NoUser
    /\ \/ Fail                                      \* adapter.logout failed
       \/ \E failing \in CloseFailures : CloseFails(failing)
       \/ CleanUp("LoggedOut", Event("LoggedOut", loginUser))

Uninit ==
    \/ Fail                                         \* adapter.uninit failed
    \/ \E failing \in CloseFailures : CloseFails(failing)
    \/ CleanUp("Uninitialized", Event("Uninitialized", NoUser))

RegisterListener ==
    /\ nextId < MaxListeners
    /\ nextId' = nextId + 1
    /\ listeners' = listeners \cup {nextId + 1}
    /\ early' = IF state = "Created" /\ running = {}
                  THEN early \cup {nextId + 1} ELSE early
    /\ EmitTo(listeners', <<Event("ListenerRegistered", nextId + 1)>>)
    /\ result' = "Ok"
    /\ UNCHANGED <<state, loginUser, runtime, held, running, domains,
                   logins, live, dropped>>

\* The callback is removed before the event is emitted.
UnregisterListener(id) ==
    \/ id \notin listeners /\ NoOp
    \/ /\ id \in listeners
       /\ listeners' = listeners \ {id}
       /\ EmitTo(listeners', <<Event("ListenerUnregistered", id)>>)
       /\ result' = "Ok"
       /\ UNCHANGED <<state, loginUser, runtime, held, running, domains,
                      nextId, logins, live, dropped, early>>

StartTask(name) ==
    /\ running' = running \cup {name}
    /\ Emit(StartEvents(name))
    /\ result' = "Ok"
    /\ UNCHANGED <<state, loginUser, runtime, held, domains, nextId,
                   listeners, logins, live, dropped, early>>

StopTask(name) ==
    /\ running' = running \ {name}
    /\ Emit(StoppedEvents({name}))
    /\ result' = "Ok"
    /\ UNCHANGED <<state, loginUser, runtime, held, domains, nextId,
                   listeners, logins, live, dropped, early>>

\* domains_mut, send_message, pull_messages, receive_transport_pushes and
\* pump_transport_events: whatever they store belongs to the login user, also
\* when they fail half way.  MessageFlow has their details and their events.
UseDomains ==
    IF state # "LoggedIn" \/ loginUser = NoUser \/ runtime = "None"
    THEN Fail
    ELSE /\ domains' \in {domains, domains \cup {loginUser}}
         /\ result' \in {"Ok", "Err"}
         /\ UNCHANGED <<state, loginUser, runtime, held, running, nextId,
                        listeners, logins, live, dropped, early, view>>

Next ==
    \/ InitSdk
    \/ InitAgain
    \/ LoginRefused
    \/ LoginMismatch
    \/ \E user \in Users : Login(user)
    \/ LogoutNobody
    \/ Logout
    \/ Uninit
    \/ RegisterListener
    \/ \E id \in ListenerIds : UnregisterListener(id)
    \/ \E name \in Tasks : StartTask(name) \/ StopTask(name)
    \/ UseDomains

Spec == Init /\ [][Next]_vars

-----------------------------------------------------------------------------
(* Properties *)

CoreTypeOK ==
    /\ state \in States
    /\ loginUser \in Users \cup {NoUser}
    /\ runtime \in {"None", "Some"}
    /\ held \subseteq Resource
    /\ running \subseteq Tasks
    /\ domains \subseteq Users
    /\ nextId \in 0..MaxListeners
    /\ listeners \subseteq 1..nextId
    /\ result \in {"Ok", "Err"}
    /\ logins \in 0..MaxLogins
    /\ live \subseteq Resource
    /\ dropped \subseteq Resource
    /\ early \subseteq 1..nextId

\* Every variable stays in its domain; early and listeners only name ids that
\* ListenerRegistry::register has handed out.
TypeOK == CoreTypeOK /\ view \in [ListenerIds -> View]

\* state, login_user_id and runtime_resources are written by different lines of
\* login, logout and uninit, with error returns between them; they never come
\* apart.  It is what makes the "login user missing" and "runtime resources
\* missing" errors of logged_in_user_id and runtime_resources_mut unreachable.
SessionCoherent ==
    /\ (state = "LoggedIn") <=> (loginUser # NoUser)
    /\ (state = "LoggedIn") <=> (runtime = "Some")

\* A user's messages, conversations and relations are never visible to the
\* next user of the same session object, whatever calls failed in between.
DomainsBelongToLoginUser == domains \subseteq {loginUser} \ {NoUser}

\* Every resource that is open is still reachable through runtime_resources
\* and came from the current login, so a later logout or uninit can close it;
\* the only way out is the value dropped when ensure_matches fails.
NoResourceEscapes ==
    /\ live = held \cup dropped
    /\ held \cap dropped = {}
    /\ \A r \in held : r.login = logins
    /\ ~AdapterMayMismatch => dropped = {}

\* Once the session has left LoggedIn nothing it opened is still open.
NothingOpenWhenLoggedOut == state # "LoggedIn" => live = dropped

\* The inductive invariant behind the two properties above: the resources are
\* empty whenever runtime_resources is None, and dropped resources belong to
\* logins that have already happened.
ResourceInv ==
    /\ CoreTypeOK
    /\ SessionCoherent
    /\ DomainsBelongToLoginUser
    /\ NoResourceEscapes
    /\ runtime = "None" => held = {}
    /\ \A r \in dropped : r.login <= logins

\* Events are enough to follow the session: a registered listener never
\* believes in a task that is not running or in a user who is not logged in,
\* and one that listened from the start knows both exactly and was told of each
\* resource the session still holds.  None heard of its own removal.
ListenersInformed ==
    /\ \A l \in ListenerIds : l \notin view[l].gone
    /\ \A l \in listeners :
        /\ view[l].tasks \subseteq running
        /\ view[l].user \in {NoUser, loginUser}
        /\ l \in early => /\ view[l].tasks = running /\ view[l].user = loginUser
                          /\ {r.pos : r \in held} \subseteq view[l].opened

\* A call that returns an error changes nothing a caller or a listener can
\* see, except that close_all may already have closed some resources and that
\* a failing message call may already have stored data of the login user.
ErrorsChangeNothing ==
    [][result' = "Err" =>
          /\ UNCHANGED <<state, loginUser, runtime, running, nextId,
                         listeners, view>>
          /\ held' \subseteq held
          /\ domains \subseteq domains'
          /\ domains' \subseteq domains \cup {loginUser}]_vars

\* An unregistered listener hears nothing more, its own removal included, and
\* its id is never given to a later registration.
UnregisteredStaysSilent ==
    [][/\ \A l \in ListenerIds \ listeners' : view'[l] = view[l]
       /\ \A l \in listeners' \ listeners : l > nextId]_vars

=============================================================================
