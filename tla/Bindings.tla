------------------------------ MODULE Bindings ------------------------------
(***************************************************************************)
(* An application on top of one session, through one of the two bindings:  *)
(* the C ABI (crates/openim-ffi), whose session uses the native resource   *)
(* adapter (crates/openim-session-native), and the wasm binding            *)
(* (crates/openim-wasm), whose session uses NoopSessionResourceAdapter.    *)
(*                                                                         *)
(* A C listener is a listener of the session.  The wasm binding registers  *)
(* none: it keeps its own table of JavaScript callbacks and composes the   *)
(* events itself from what the session told it before and after the call.  *)
(***************************************************************************)
EXTENDS Session

VARIABLES
    binding,      \* "ffi" or "wasm"
    target,       \* the session's StorageTarget
    handle,       \* the C handle: "open", or "destroyed"
    code,         \* what the last C function returned
    lastError,    \* last_error of the handle is not empty
    jsNext,       \* next_listener_id
    jsListeners,  \* ids of the JavaScript callbacks
    jsEarly,      \* history: those added before the session did anything
    jsView,       \* what each callback believes from the events it heard
    confirmed     \* history: the user of the last token the server accepted

bindingVars == <<binding, target, handle, code, lastError, jsNext, jsListeners, jsEarly,
                 jsView, confirmed>>
allVars == <<vars, bindingVars>>

ffiVars == <<binding, target, jsNext, jsListeners, jsEarly, jsView>>
wasmVars == <<binding, target, handle, code, lastError, confirmed>>

-----------------------------------------------------------------------------
(* The native adapter *)

\* Places of the resources in the vector login builds.
StoragePos == 1
TransportPos == 2
SyncPos == 3

AdapterResources(storage) ==
    (IF storage = "Sqlite" THEN {StoragePos} ELSE {}) \cup {TransportPos, SyncPos}

\* What parse_token may answer, as far as validate_http_login looks at it.
TokenAnswer == [errCode : 0..1, ok : BOOLEAN, user : Users \cup {NoUser}, platform : BOOLEAN]

MutantHttpLoginValid(answer, user) ==
    answer.errCode = 0 /\ answer.ok /\ answer.user # NoUser /\ answer.platform

\* validate_http_login: no error code, a success status, data (NoUser: none), this user
\* and this platform.
HttpLoginValid(answer, user) ==
    /\ answer.errCode = 0 /\ answer.ok
    /\ answer.user # NoUser /\ answer.user = user /\ answer.platform

\* NativeTransportTaskResource::close takes the thread handle before it joins: only the
\* first close can report the worker's error.  The other resources close without one.
NativeCloseFailure(failing) == failing = {} \/ failing = { r \in held : r.pos = TransportPos }

-----------------------------------------------------------------------------
(* The C ABI *)

\* run_session_op
MutantRunSessionOp(Op) ==
    /\ binding = "ffi" /\ handle = "open" /\ Op
    /\ lastError' = (lastError \/ result' = "Err")
    /\ code' = IF result' = "Ok" THEN "OK" ELSE "ERROR"
    /\ UNCHANGED <<ffiVars, handle>>
RunSessionOp(Op) ==
    /\ binding = "ffi" /\ handle = "open" /\ Op
    /\ lastError' = (result' = "Err")
    /\ code' = IF result' = "Ok" THEN "OK" ELSE "ERROR"
    /\ UNCHANGED <<ffiVars, handle>>

\* set_handle_error
SetHandleError(c) ==
    /\ binding = "ffi" /\ handle = "open"
    /\ lastError' = TRUE /\ code' = c
    /\ UNCHANGED <<vars, ffiVars, handle, confirmed>>

SessionInit == RunSessionOp((InitSdk /\ result' = "Ok") \/ InitAgain) /\ UNCHANGED confirmed

\* c_str: a pointer that is null, or bytes that are not UTF-8.
CStrErrors == {"NULL", "INVALID_UTF8"}

\* openim_session_login with such an argument.
SessionLoginBadArgs == \E c \in CStrErrors : SetHandleError(c)

\* login in the wrong state or with empty credentials never reaches the adapter.
SessionLoginRefused == RunSessionOp(LoginRefused) /\ UNCHANGED confirmed

\* The server turns the token down, or an IndexedDB target (a web platform on the native
\* adapter), a directory that cannot be made, or the websocket: dropping the partial vector
\* closes the sqlite file.
SessionLoginFails(user) ==
    /\ state \in {"Initialized", "LoggedOut"}
    /\ RunSessionOp(LoginRefused)
    /\ \E answer \in TokenAnswer :
          confirmed' = IF HttpLoginValid(answer, user) THEN answer.user ELSE confirmed

SessionLogin(user) ==
    /\ \E answer \in TokenAnswer :
          /\ HttpLoginValid(answer, user)
          /\ confirmed' = answer.user
    /\ target # "IndexedDb"
    /\ RunSessionOp(Login(user) /\ { r.pos : r \in held' } = AdapterResources(target))

\* A failed close has taken the worker's thread handle and closed the rest, so the second
\* call finds only the transport and closes it.
SessionLogout ==
    /\ RunSessionOp(LogoutNobody \/ (Logout /\ (result' = "Err" =>
           held' # held /\ NativeCloseFailure(held'))))
    /\ UNCHANGED confirmed
SessionUninit ==
    /\ RunSessionOp(Uninit /\ (result' = "Err" => held' # held /\ NativeCloseFailure(held')))
    /\ UNCHANGED confirmed

\* openim_session_register_listener, with a callback and without.
SessionRegisterListener ==
    \/ RunSessionOp(RegisterListener) /\ UNCHANGED confirmed
    \/ SetHandleError("INVALID_ARGS")
SessionUnregisterListener(id) ==
    \/ id \in listeners /\ RunSessionOp(UnregisterListener(id)) /\ UNCHANGED confirmed
    \/ id \notin listeners /\ SetHandleError("INVALID_ARGS")

\* openim_session_destroy drops the session; nothing calls close on what it holds.
SessionDestroy ==
    /\ binding = "ffi" /\ handle = "open"
    /\ handle' = "destroyed"
    /\ dropped' = dropped \cup held
    /\ UNCHANGED <<state, loginUser, runtime, held, running, domains, nextId, listeners, result,
                   logins, live, early, view, ffiVars, code, lastError, confirmed>>

-----------------------------------------------------------------------------
(* The wasm binding *)

\* emit_wasm_event: every callback in the table, in the order of the ids.
EmitWasm(ids, events) ==
    jsView' = [l \in ListenerIds |->
                  IF l \in ids THEN Heard(jsView[l], events) ELSE jsView[l]]

TaskEvents(type) == IF type = "TaskStarted"
                    THEN <<Event(type, "transport"), Event(type, "sync")>>
                    ELSE <<Event(type, "sync"), Event(type, "transport")>>

\* A method: the inner call, then the events if it returned Ok.
WasmOp(Op, events) ==
    /\ binding = "wasm" /\ Op
    /\ EmitWasm(jsListeners, IF result' = "Ok" THEN events ELSE <<>>)
    /\ UNCHANGED <<wasmVars, jsNext, jsListeners, jsEarly>>

WasmInit == WasmOp((InitSdk /\ result' = "Ok") \/ InitAgain,
                   IF state \in {"Created", "Uninitialized"}
                   THEN <<Event("Initialized", NoUser)>> ELSE <<>>)

\* NoopSessionResourceAdapter: every call succeeds, login makes a runtime with no resource.
NoopResources == {}

\* The session itself refuses a login in the wrong state or with empty credentials.
WasmLogin(user) == WasmOp(LoginRefused \/ (Login(user) /\ held' = NoopResources),
                          TaskEvents("TaskStarted") \o <<Event("LoggedIn", user)>>)

WasmLogout == WasmOp(LogoutNobody \/ (Logout /\ result' = "Ok"),
                     IF loginUser = NoUser THEN <<>>
                     ELSE TaskEvents("TaskStopped") \o <<Event("LoggedOut", loginUser)>>)

MutantWasmUninit == WasmOp(Uninit /\ result' = "Ok", <<Event("Uninitialized", NoUser)>>)
WasmUninit == WasmOp(Uninit /\ result' = "Ok",
                     (IF loginUser = NoUser THEN <<>> ELSE TaskEvents("TaskStopped"))
                     \o <<Event("Uninitialized", NoUser)>>)

AddListener ==
    /\ binding = "wasm" /\ jsNext < MaxListeners
    /\ jsNext' = jsNext + 1
    /\ jsListeners' = jsListeners \cup {jsNext'}
    /\ jsEarly' = IF state = "Created" THEN jsEarly \cup {jsNext'} ELSE jsEarly
    /\ EmitWasm(jsListeners', <<Event("ListenerRegistered", jsNext')>>)
    /\ UNCHANGED <<vars, wasmVars>>

RemoveListener(id) ==
    /\ binding = "wasm" /\ id \in jsListeners
    /\ jsListeners' = jsListeners \ {id}
    /\ EmitWasm(jsListeners', <<Event("ListenerUnregistered", id)>>)
    /\ UNCHANGED <<vars, wasmVars, jsNext, jsEarly>>

-----------------------------------------------------------------------------
BindingsInit ==
    /\ Init
    /\ binding \in {"ffi", "wasm"}
    /\ target \in (IF binding = "wasm" THEN {"IndexedDb"}
                   ELSE {"Sqlite", "IndexedDb", "Unconfigured"})
    /\ handle = "open" /\ code = "OK" /\ lastError = FALSE
    /\ jsNext = 0 /\ jsListeners = {} /\ jsEarly = {}
    /\ jsView = [l \in ListenerIds |-> EmptyView]
    /\ confirmed = NoUser

FfiNext ==
    \/ SessionInit \/ SessionLoginBadArgs \/ SessionLoginRefused
    \/ \E user \in Users : SessionLogin(user) \/ SessionLoginFails(user)
    \/ SessionLogout \/ SessionUninit \/ SessionDestroy
    \/ SessionRegisterListener
    \/ \E id \in ListenerIds : SessionUnregisterListener(id)

WasmNext ==
    \/ WasmInit \/ WasmLogout \/ WasmUninit \/ AddListener
    \/ \E user \in Users : WasmLogin(user)
    \/ \E id \in ListenerIds : RemoveListener(id)

BindingsNext == FfiNext \/ WasmNext

BindingsSpec == BindingsInit /\ [][BindingsNext]_allVars

-----------------------------------------------------------------------------
(* Properties *)

BindingsTypeOK ==
    /\ TypeOK
    /\ handle \in {"open", "destroyed"} /\ lastError \in BOOLEAN
    /\ code \in {"OK", "ERROR", "NULL", "INVALID_UTF8", "INVALID_ARGS"}
    /\ jsListeners \subseteq 1..jsNext /\ jsEarly \subseteq 1..jsNext
    /\ jsView \in [ListenerIds -> View]
    /\ confirmed \in Users \cup {NoUser}

\* The events the wasm binding composes on its own tell a callback what the session's events
\* would have: one that was added before init always knows the login user and the running
\* tasks, and a later one never believes in a user or task that is not there.
JsListenersInformed ==
    \A l \in jsListeners :
        /\ jsView[l].tasks \subseteq running /\ jsView[l].user \in {NoUser, loginUser}
        /\ l \in jsEarly => jsView[l].tasks = running /\ jsView[l].user = loginUser

\* openim_session_last_error is empty exactly when the last call on the handle returned OK:
\* no error outlives the next success, and none is lost on the paths that return early.
LastErrorIsCurrent == handle = "open" => (lastError <=> code # "OK")

\* Through the C ABI nobody is logged in whose token the server has not confirmed for that
\* very user, whatever logins of others failed in between.
LoggedInUserConfirmed == binding = "ffi" /\ state = "LoggedIn" => confirmed = loginUser

\* A handle destroyed outside a login leaves no open file and no worker behind, failed
\* logins, failed logouts and retries included.
DestroyedHandlesAreClean == handle = "destroyed" /\ state # "LoggedIn" => live = {} /\ dropped = {}

=============================================================================
