---------------------------- MODULE SessionProofs ----------------------------
(***************************************************************************)
(* Theorems about the session lifecycle, for any sets of users, tasks and  *)
(* resources and any bounds on logins and listeners.                       *)
(***************************************************************************)
EXTENDS Bindings, FiniteSetTheorems, WellFoundedInduction, TLAPS

\* The state OpenImSession::with_resource_adapter builds satisfies ResourceInv.
LEMMA InitResourceInv == Init => ResourceInv
  BY SessionConstants
  DEF SessionConstants, Init, ResourceInv, CoreTypeOK, States, SessionCoherent,
      DomainsBelongToLoginUser, NoResourceEscapes

\* An operation that returns early, with or without an error, keeps it.
LEMMA IdleResourceInv ==
  ASSUME ResourceInv, Fail \/ NoOp
  PROVE  ResourceInv'
  BY DEF Fail, NoOp, ResourceInv, CoreTypeOK, SessionCoherent,
         DomainsBelongToLoginUser, NoResourceEscapes

\* A close_all that fails half way keeps it.
LEMMA CloseFailsResourceInv ==
  ASSUME ResourceInv, NEW failing \in CloseFailures, CloseFails(failing)
  PROVE  ResourceInv'
<1>1. failing \subseteq held
  BY DEF CloseFailures
<1> QED
  BY <1>1 DEF CloseFails, KeepRemaining, ResourceInv, CoreTypeOK,
     SessionCoherent, DomainsBelongToLoginUser, NoResourceEscapes

\* The common tail of logout and uninit establishes it in the next state.
LEMMA CleanUpResourceInv ==
  ASSUME ResourceInv, NEW next \in {"LoggedOut", "Uninitialized"}, NEW e,
         CleanUp(next, e)
  PROVE  ResourceInv'
  BY DEF CleanUp, CloseRuntimeResources, ForgetUser, ResourceInv, CoreTypeOK,
     States, SessionCoherent, DomainsBelongToLoginUser, NoResourceEscapes

\* The resources of a login are fresh: no earlier login dropped one of them.
LEMMA FreshResources ==
  ASSUME ResourceInv, logins < MaxLogins, NEW opened \in SUBSET Positions
  PROVE  LET new == {[login |-> logins + 1, pos |-> p] : p \in opened}
         IN  /\ new \subseteq Resource
             /\ new \cap dropped = {}
             /\ \A r \in new : r.login = logins + 1
  BY SessionConstants DEF SessionConstants, ResourceInv, CoreTypeOK, Resource

\* Every operation of the session preserves ResourceInv.
LEMMA NextResourceInv == ResourceInv /\ [Next]_vars => ResourceInv'
<1> SUFFICES ASSUME ResourceInv, [Next]_vars PROVE ResourceInv'
  OBVIOUS
<1>1. CASE InitSdk
  <2>1. CASE Fail
    BY <2>1, IdleResourceInv
  <2>2. CASE ~Fail
    BY <1>1, <2>2 DEF InitSdk, ResourceInv, CoreTypeOK, States,
       SessionCoherent, DomainsBelongToLoginUser, NoResourceEscapes
  <2> QED BY <2>1, <2>2
<1>2. CASE InitAgain \/ LoginRefused \/ LogoutNobody
  BY <1>2, IdleResourceInv DEF InitAgain, LoginRefused, LogoutNobody
<1>3. CASE LoginMismatch
  <2>1. PICK opened \in SUBSET Positions :
          LET new == {[login |-> logins + 1, pos |-> p] : p \in opened}
          IN  live' = live \cup new /\ dropped' = dropped \cup new
    BY <1>3 DEF LoginMismatch
  <2> DEFINE new == {[login |-> logins + 1, pos |-> p] : p \in opened}
  <2>2. /\ new \subseteq Resource
        /\ \A r \in new : r.login = logins + 1
    BY <1>3, FreshResources DEF LoginMismatch
  <2>3. held = {} /\ held' = {}
    BY <1>3 DEF LoginMismatch, ResourceInv, CoreTypeOK, SessionCoherent
  <2> HIDE DEF new
  <2>4. live' = live \cup new /\ dropped' = dropped \cup new
    BY <2>1 DEF new
  <2>5. CoreTypeOK'
    BY <1>3, <2>2, <2>4, SessionConstants
    DEF SessionConstants, LoginMismatch, ResourceInv, CoreTypeOK
  <2>6. SessionCoherent' /\ DomainsBelongToLoginUser'
    BY <1>3 DEF LoginMismatch, ResourceInv, SessionCoherent,
                DomainsBelongToLoginUser
  <2>7. NoResourceEscapes'
    BY <1>3, <2>3, <2>4 DEF LoginMismatch, ResourceInv, NoResourceEscapes
  <2>8. \A r \in dropped' : r.login <= logins'
    BY <1>3, <2>2, <2>4 DEF LoginMismatch, ResourceInv, CoreTypeOK, Resource
  <2> QED BY <2>3, <2>5, <2>6, <2>7, <2>8 DEF ResourceInv
<1>4. ASSUME NEW user \in Users, Login(user) PROVE ResourceInv'
  <2>1. PICK opened \in SUBSET Positions :
          LET new == {[login |-> logins + 1, pos |-> p] : p \in opened}
          IN  held' = new /\ live' = live \cup new
    BY <1>4 DEF Login
  <2> DEFINE new == {[login |-> logins + 1, pos |-> p] : p \in opened}
  <2>2. /\ new \subseteq Resource
        /\ new \cap dropped = {}
        /\ \A r \in new : r.login = logins + 1
    BY <1>4, FreshResources DEF Login
  <2>3. held = {}
    BY <1>4 DEF Login, ResourceInv, CoreTypeOK, SessionCoherent
  <2> HIDE DEF new
  <2>4. held' = new /\ live' = live \cup new
    BY <2>1 DEF new
  <2>5. CoreTypeOK'
    BY <1>4, <2>2, <2>4, SessionConstants
    DEF SessionConstants, Login, ResourceInv, CoreTypeOK, States, Tasks
  <2>6. SessionCoherent' /\ DomainsBelongToLoginUser' /\ runtime' = "Some"
    BY <1>4, SessionConstants DEF SessionConstants, Login, SessionCoherent,
       DomainsBelongToLoginUser
  <2>7. NoResourceEscapes'
    BY <1>4, <2>2, <2>3, <2>4 DEF Login, ResourceInv, NoResourceEscapes
  <2>8. \A r \in dropped' : r.login <= logins'
    BY <1>4 DEF Login, ResourceInv, CoreTypeOK, Resource
  <2> QED BY <2>5, <2>6, <2>7, <2>8 DEF ResourceInv
<1>5. CASE Logout
  <2>1. CASE Fail
    BY <2>1, IdleResourceInv
  <2>2. CASE \E failing \in CloseFailures : CloseFails(failing)
    BY <2>2, CloseFailsResourceInv
  <2>3. CASE CleanUp("LoggedOut", Event("LoggedOut", loginUser))
    BY <2>3, CleanUpResourceInv
  <2> QED BY <1>5, <2>1, <2>2, <2>3 DEF Logout
<1>6. CASE Uninit
  <2>1. CASE Fail
    BY <2>1, IdleResourceInv
  <2>2. CASE \E failing \in CloseFailures : CloseFails(failing)
    BY <2>2, CloseFailsResourceInv
  <2>3. CASE CleanUp("Uninitialized", Event("Uninitialized", NoUser))
    BY <2>3, CleanUpResourceInv
  <2> QED BY <1>6, <2>1, <2>2, <2>3 DEF Uninit
<1>7. CASE RegisterListener
  BY <1>7, SessionConstants
  DEF SessionConstants, RegisterListener, ResourceInv, CoreTypeOK,
      SessionCoherent, DomainsBelongToLoginUser, NoResourceEscapes
<1>8. ASSUME NEW id \in ListenerIds, UnregisterListener(id) PROVE ResourceInv'
  <2>1. CASE NoOp
    BY <2>1, IdleResourceInv
  <2>2. CASE ~NoOp
    BY <1>8, <2>2 DEF UnregisterListener, ResourceInv, CoreTypeOK,
       SessionCoherent, DomainsBelongToLoginUser, NoResourceEscapes
  <2> QED BY <2>1, <2>2
<1>9. ASSUME NEW name \in Tasks, StartTask(name) \/ StopTask(name)
      PROVE  ResourceInv'
  BY <1>9 DEF StartTask, StopTask, ResourceInv, CoreTypeOK, Tasks,
     SessionCoherent, DomainsBelongToLoginUser, NoResourceEscapes
<1>10. CASE UseDomains
  <2>1. CASE Fail
    BY <2>1, IdleResourceInv
  <2>2. CASE ~Fail
    BY <1>10, <2>2 DEF UseDomains, ResourceInv, CoreTypeOK,
       SessionCoherent, DomainsBelongToLoginUser, NoResourceEscapes
  <2> QED BY <2>1, <2>2
<1>11. CASE UNCHANGED vars
  BY <1>11 DEF vars, ResourceInv, CoreTypeOK, SessionCoherent,
     DomainsBelongToLoginUser, NoResourceEscapes
<1> QED
  BY <1>1, <1>2, <1>3, <1>4, <1>5, <1>6, <1>7, <1>8, <1>9, <1>10, <1>11
  DEF Next

\* ResourceInv holds in every reachable state of the session.
THEOREM ResourceInvariance == Spec => []ResourceInv
  BY InitResourceInv, NextResourceInv, PTL DEF Spec

\* state, login_user_id and runtime_resources always agree, so the internal
\* errors of logged_in_user_id and runtime_resources_mut cannot occur.
THEOREM SessionIsCoherent == Spec => []SessionCoherent
<1>1. ResourceInv => SessionCoherent
  BY DEF ResourceInv
<1> QED BY <1>1, ResourceInvariance, PTL

\* No user ever sees domain data of another user of the same session object.
THEOREM DomainsIsolation == Spec => []DomainsBelongToLoginUser
<1>1. ResourceInv => DomainsBelongToLoginUser
  BY DEF ResourceInv
<1> QED BY <1>1, ResourceInvariance, PTL

\* Outside LoggedIn no resource the session accepted is still open.
THEOREM ResourcesClosedOutsideLogin == Spec => []NothingOpenWhenLoggedOut
<1>1. ResourceInv => NothingOpenWhenLoggedOut
  BY DEF ResourceInv, CoreTypeOK, NothingOpenWhenLoggedOut, SessionCoherent,
         NoResourceEscapes
<1> QED BY <1>1, ResourceInvariance, PTL

\* While LoggedIn every open resource is held by the session.
THEOREM ResourcesStayReachable == Spec => []NoResourceEscapes
<1>1. ResourceInv => NoResourceEscapes
  BY DEF ResourceInv
<1> QED BY <1>1, ResourceInvariance, PTL

\* A call that returns Err leaves the session as it was for its caller and its
\* listeners; at most some of the held resources are already closed, or some
\* data of the login user is already stored.
THEOREM ErrorsAreInvisible == Spec => ErrorsChangeNothing
<1> DEFINE Quiet ==
      result' = "Err" =>
          /\ UNCHANGED <<state, loginUser, runtime, running, nextId,
                         listeners, view>>
          /\ held' \subseteq held
          /\ domains \subseteq domains'
          /\ domains' \subseteq domains \cup {loginUser}
<1>1. [Next]_vars => [Quiet]_vars
  <2> SUFFICES ASSUME Next, result' = "Err" PROVE Quiet
    OBVIOUS
  <2>1. CASE Fail
    BY <2>1 DEF Fail
  <2>2. ASSUME NEW failing \in CloseFailures, CloseFails(failing) PROVE Quiet
    BY <2>2 DEF CloseFails, KeepRemaining, CloseFailures
  <2>3. CASE LoginMismatch
    BY <2>3 DEF LoginMismatch
  <2>4. CASE UseDomains
    BY <2>1, <2>4 DEF UseDomains
  <2>5. \/ Fail
        \/ \E failing \in CloseFailures : CloseFails(failing)
        \/ LoginMismatch
        \/ UseDomains
    BY DEF Next, InitSdk, InitAgain, LoginRefused, Login, LogoutNobody, Logout,
       Uninit, RegisterListener, UnregisterListener, StartTask, StopTask,
       NoOp, CleanUp
  <2> QED BY <2>1, <2>2, <2>3, <2>4, <2>5
<1> QED BY <1>1, PTL DEF Spec, ErrorsChangeNothing

\* No event reaches a listener after unregister_listener removed it, and no
\* later registration receives its id.
THEOREM UnregisteredIsSilent == Spec => UnregisteredStaysSilent
<1> DEFINE Silent ==
      /\ \A l \in ListenerIds \ listeners' : view'[l] = view[l]
      /\ \A l \in listeners' \ listeners : l > nextId
<1>1. ResourceInv /\ [Next]_vars => [Silent]_vars
  <2> SUFFICES ASSUME ResourceInv, Next PROVE Silent
    OBVIOUS
  <2>1. ASSUME UNCHANGED view, UNCHANGED listeners PROVE Silent
    BY <2>1
  <2>2. ASSUME NEW events, Emit(events), UNCHANGED listeners PROVE Silent
    BY <2>2 DEF Emit, EmitTo
  <2>3. CASE RegisterListener
    BY <2>3 DEF RegisterListener, EmitTo, ResourceInv, CoreTypeOK
  <2>4. ASSUME NEW id \in ListenerIds, UnregisterListener(id) PROVE Silent
    BY <2>1, <2>4 DEF UnregisterListener, EmitTo, NoOp
  <2>5. CASE InitSdk \/ InitAgain \/ LoginRefused \/ LoginMismatch
               \/ LogoutNobody \/ UseDomains
    BY <2>1, <2>2, <2>5 DEF InitSdk, InitAgain, LoginRefused, LoginMismatch,
       LogoutNobody, UseDomains, Fail, NoOp
  <2>6. CASE \E user \in Users : Login(user)
    BY <2>2, <2>6 DEF Login
  <2>7. CASE Logout \/ Uninit
    BY <2>1, <2>2, <2>7 DEF Logout, Uninit, Fail, CloseFails, CleanUp
  <2>8. CASE \E name \in Tasks : StartTask(name) \/ StopTask(name)
    BY <2>2, <2>8 DEF StartTask, StopTask
  <2> QED BY <2>3, <2>4, <2>5, <2>6, <2>7, <2>8 DEF Next
<1> QED
  BY <1>1, ResourceInvariance, PTL DEF Spec, UnregisteredStaysSilent

-----------------------------------------------------------------------------
(* Counting and enumerating *)

LEMMA LeastNumber ==
  ASSUME NEW T \in SUBSET Nat, T # {}
  PROVE  \E n \in T : \A m \in T : n <= m
  <1> DEFINE R == OpToRel(<, Nat)
  <1>1. IsWellFoundedOn(R, Nat)
    BY NatLessThanWellFounded
  <1>2. ASSUME NEW m \in Nat, NEW n \in Nat, m < n PROVE <<m, n>> \in R
    BY <1>2 DEF OpToRel
  <1> HIDE DEF R
  <1>3. PICK n \in T : \A m \in T : <<m, n>> \notin R
    BY <1>1, WFMin
  <1>4. ASSUME NEW m \in T PROVE n <= m
    <2>1. ~(m < n)
      BY <1>2, <1>3
    <2> QED BY <2>1
  <1> QED BY <1>4

\* Induction up to n, on the set of the numbers a statement holds for.
LEMMA Induct ==
  ASSUME NEW n \in Nat, NEW T, 0 \in T, \A i \in 0..(n - 1) : i \in T => i + 1 \in T
  PROVE  n \in T
  <1> DEFINE Bad == { i \in 0..n : i \notin T }
  <1> SUFFICES ASSUME n \notin T PROVE FALSE
    OBVIOUS
  <1>0. n \in Bad
    OBVIOUS
  <1>1. PICK m \in Bad : \A i \in Bad : m <= i
    <2>1. Bad \in SUBSET Nat
      OBVIOUS
    <2> HIDE DEF Bad
    <2> QED BY <1>0, <2>1, LeastNumber
  <1>2. m # 0 /\ m - 1 \in 0..(n - 1) /\ m - 1 \notin Bad
    BY <1>1
  <1>3. m - 1 \in T /\ (m - 1) + 1 = m
    BY <1>2
  <1> QED BY <1>1, <1>2, <1>3

\* SetToSeq lists every element of a finite set.
LEMMA SetToSeqLists ==
  ASSUME NEW S, IsFiniteSet(S)
  PROVE  /\ SetToSeq(S) \in [1..Cardinality(S) -> S] /\ Cardinality(S) \in Nat
         /\ \A x \in S : \E i \in 1..Cardinality(S) : SetToSeq(S)[i] = x
  <1>1. Cardinality(S) \in Nat /\ ExistsBijection(1..Cardinality(S), S)
    BY FS_CardinalityType
  <1>2. \E f \in [1..Cardinality(S) -> S] : IsInjective(f)
    BY <1>1 DEF ExistsBijection, Bijection, Injection, IsInjective
  <1>3. SetToSeq(S) \in [1..Cardinality(S) -> S] /\ IsInjective(SetToSeq(S))
    BY <1>2 DEF SetToSeq
  <1>4. SetToSeq(S) \in Injection(1..Cardinality(S), S)
    BY <1>3 DEF Injection, IsInjective
  <1>5. IsFiniteSet(1..Cardinality(S)) /\ Cardinality(1..Cardinality(S)) = Cardinality(S)
    BY <1>1, FS_Interval
  <1>6. SetToSeq(S) \in Surjection(1..Cardinality(S), S)
    BY <1>4, <1>5, FS_Injection
  <1> QED BY <1>1, <1>3, <1>6 DEF Surjection

\* Numbers can be put in order.
LEMMA AscendingExists ==
  ASSUME NEW n \in Nat
  PROVE  \A S \in SUBSET Nat : IsFiniteSet(S) /\ Cardinality(S) = n =>
            \E order \in [1..n -> S] :
                /\ \A i, j \in 1..n : i < j => order[i] < order[j]
                /\ \A x \in S : \E i \in 1..n : order[i] = x
  <1> DEFINE Ordered(S, k) == \E order \in [1..k -> S] :
                /\ \A i, j \in 1..k : i < j => order[i] < order[j]
                /\ \A x \in S : \E i \in 1..k : order[i] = x
             T == { k \in Nat : \A S \in SUBSET Nat : IsFiniteSet(S) /\ Cardinality(S) = k => Ordered(S, k) }
  <1>1. 0 \in T
    <2> SUFFICES ASSUME NEW S \in SUBSET Nat, IsFiniteSet(S), Cardinality(S) = 0
                 PROVE  Ordered(S, 0)
      OBVIOUS
    <2>1. S = {}
      BY FS_EmptySet
    <2>2. <<>> \in [1..0 -> S]
      OBVIOUS
    <2> QED BY <2>1, <2>2
  <1>2. ASSUME NEW k \in 0..(n - 1), k \in T PROVE k + 1 \in T
    <2> SUFFICES ASSUME NEW S \in SUBSET Nat, IsFiniteSet(S), Cardinality(S) = k + 1
                 PROVE  Ordered(S, k + 1)
      OBVIOUS
    <2>1. PICK least \in S : \A x \in S : least <= x
      <3>1. S # {}
        BY FS_EmptySet
      <3> QED BY <3>1, LeastNumber
    <2> DEFINE rest == S \ {least}
    <2>2. rest \in SUBSET Nat /\ IsFiniteSet(rest) /\ Cardinality(rest) = k
      BY FS_RemoveElement
    <2>3. PICK order \in [1..k -> rest] :
             /\ \A i, j \in 1..k : i < j => order[i] < order[j]
             /\ \A x \in rest : \E i \in 1..k : order[i] = x
      BY <1>2, <2>2
    <2> DEFINE longer == [i \in 1..(k + 1) |-> IF i = 1 THEN least ELSE order[i - 1]]
    <2>4. longer \in [1..(k + 1) -> S]
      BY <2>3
    <2>5. ASSUME NEW i \in 1..(k + 1), NEW j \in 1..(k + 1), i < j PROVE longer[i] < longer[j]
      <3>1. j - 1 \in 1..k /\ longer[j] = order[j - 1] /\ order[j - 1] \in rest
        BY <2>3, <2>5
      <3>2. CASE i = 1
        <4>1. longer[i] = least /\ least <= order[j - 1] /\ order[j - 1] # least
          BY <2>1, <3>1, <3>2
        <4>2. order[j - 1] \in Nat /\ least \in Nat
          BY <3>1
        <4>3. least < order[j - 1]
          BY <4>1, <4>2
        <4> QED BY <3>1, <4>1, <4>3
      <3>3. CASE i # 1
        <4>1. i - 1 \in 1..k /\ i - 1 < j - 1 /\ longer[i] = order[i - 1]
          BY <2>5, <3>3
        <4> QED BY <2>3, <3>1, <4>1
      <3> QED BY <3>2, <3>3
    <2>6. \A x \in S : \E i \in 1..(k + 1) : longer[i] = x
      <3> SUFFICES ASSUME NEW x \in S PROVE \E i \in 1..(k + 1) : longer[i] = x
        OBVIOUS
      <3>1. CASE x = least
        <4>1. 1 \in 1..(k + 1) /\ longer[1] = least
          OBVIOUS
        <4> QED BY <3>1, <4>1
      <3>2. CASE x # least
        <4>1. PICK i \in 1..k : order[i] = x
          BY <2>3, <3>2
        <4>2. i + 1 \in 1..(k + 1) /\ longer[i + 1] = x
          BY <4>1
        <4> QED BY <4>2
      <3> QED BY <3>1, <3>2
    <2> HIDE DEF longer
    <2> QED BY <2>4, <2>5, <2>6
  <1>3. n \in T
    <2> HIDE DEF T
    <2> QED BY <1>1, <1>2, Induct
  <1> QED BY <1>3

LEMMA InOrderLists ==
  ASSUME NEW S \in SUBSET Nat, IsFiniteSet(S)
  PROVE  /\ InOrder(S) \in [1..Cardinality(S) -> S] /\ Cardinality(S) \in Nat
         /\ \A x \in S : \E i \in 1..Cardinality(S) : InOrder(S)[i] = x
  <1>1. Cardinality(S) \in Nat
    BY FS_CardinalityType
  <1> DEFINE Ascends(order) == \A i, j \in DOMAIN order : i < j => order[i] < order[j]
  <1>2. PICK order \in [1..Cardinality(S) -> S] : Ascends(order)
    BY <1>1, AscendingExists
  <1>3. InOrder(S) \in [1..Cardinality(S) -> S] /\ Ascends(InOrder(S))
    BY <1>2 DEF InOrder
  <1>4. \A i, j \in 1..Cardinality(S) : InOrder(S)[i] = InOrder(S)[j] => i = j
    <2> SUFFICES ASSUME NEW i \in 1..Cardinality(S), NEW j \in 1..Cardinality(S), i # j
                 PROVE  InOrder(S)[i] # InOrder(S)[j]
      OBVIOUS
    <2>1. DOMAIN InOrder(S) = 1..Cardinality(S) /\ InOrder(S)[i] \in Nat /\ InOrder(S)[j] \in Nat
      BY <1>3
    <2>2. InOrder(S)[i] < InOrder(S)[j] \/ InOrder(S)[j] < InOrder(S)[i]
      BY <1>1, <1>3, <2>1
    <2> QED BY <2>1, <2>2
  <1>5. InOrder(S) \in Injection(1..Cardinality(S), S)
    BY <1>3, <1>4 DEF Injection, IsInjective
  <1>6. IsFiniteSet(1..Cardinality(S)) /\ Cardinality(1..Cardinality(S)) = Cardinality(S)
    BY <1>1, FS_Interval
  <1>7. InOrder(S) \in Surjection(1..Cardinality(S), S)
    BY <1>5, <1>6, FS_Injection
  <1> QED BY <1>1, <1>3, <1>7 DEF Surjection

-----------------------------------------------------------------------------
(* Listeners *)

\* The view h[i] a listener has after the first i events.
IsHeard(h, v, events) ==
    /\ h[0] = v /\ Heard(v, events) = h[Len(events)]
    /\ \A i \in 1..Len(events) : h[i] = Hear(h[i - 1], events[i])

\* What Heard computes, step by step.
LEMMA HeardSteps ==
  ASSUME NEW v, NEW events, Len(events) \in Nat
  PROVE  \E h : IsHeard(h, v, events)
  <1> DEFINE n == Len(events)
             Def(g, k) == g = [i \in 0..k |-> IF i = 0 THEN v ELSE Hear(g[i - 1], events[i])]
             T == { k \in 0..n : \E g : Def(g, k) }
  <1>0. n \in Nat
    OBVIOUS
  <1>1. 0 \in T
    <2> DEFINE g == [i \in 0..0 |-> v]
    <2>1. \A i \in 0..0 : i = 0
      OBVIOUS
    <2>2. Def(g, 0)
      BY <2>1
    <2> HIDE DEF g
    <2>3. 0 \in 0..n
      BY <1>0
    <2> QED BY <2>2, <2>3
  <1>2. \A k \in 0..(n - 1) : k \in T => k + 1 \in T
    <2> SUFFICES ASSUME NEW k \in 0..(n - 1), k \in T PROVE k + 1 \in T
      OBVIOUS
    <2>1. PICK g : Def(g, k)
      OBVIOUS
    <2> DEFINE h == [i \in 0..(k + 1) |-> IF i = k + 1 THEN Hear(g[k], events[k + 1]) ELSE g[i]]
    <2>2. \A i \in 0..k : h[i] = g[i] /\ g[i] = IF i = 0 THEN v ELSE Hear(g[i - 1], events[i])
      BY <2>1
    <2>3. \A i \in 0..(k + 1) : h[i] = IF i = 0 THEN v ELSE Hear(h[i - 1], events[i])
      <3> SUFFICES ASSUME NEW i \in 0..(k + 1)
                   PROVE  h[i] = IF i = 0 THEN v ELSE Hear(h[i - 1], events[i])
        OBVIOUS
      <3>1. CASE i = k + 1
        <4>1. h[k + 1] = Hear(g[k], events[k + 1]) /\ h[k] = g[k] /\ k + 1 # 0 /\ (k + 1) - 1 = k
          BY <2>2
        <4> QED BY <3>1, <4>1
      <3>2. CASE i # k + 1
        <4>1. i \in 0..k /\ (i # 0 => i - 1 \in 0..k)
          BY <3>2
        <4>2. h[i] = g[i] /\ (i # 0 => h[i - 1] = g[i - 1])
          BY <2>2, <4>1
        <4>3. g[i] = IF i = 0 THEN v ELSE Hear(g[i - 1], events[i])
          BY <2>2, <4>1
        <4> HIDE DEF h
        <4> QED BY <4>2, <4>3
      <3> QED BY <3>1, <3>2
    <2>4. Def(h, k + 1)
      BY <2>3
    <2>5. k + 1 \in 0..n
      BY <1>0
    <2> HIDE DEF h
    <2> QED BY <2>4, <2>5
  <1>3. n \in T
    <2> HIDE DEF T, n
    <2> QED BY <1>0, <1>1, <1>2, Induct
  <1>4. \E g : Def(g, n)
    BY <1>3
  <1> DEFINE heard == CHOOSE g : Def(g, n)
  <1>5. Def(heard, n)
    BY <1>4
  <1>6. Heard(v, events) = heard[n]
    BY DEF Heard
  <1> HIDE DEF heard
  <1>7. heard[0] = v /\ \A i \in 1..n : heard[i] = Hear(heard[i - 1], events[i])
    BY <1>5
  <1> QED BY <1>6, <1>7 DEF IsHeard

LEMMA HeardNothing ==
  ASSUME NEW v
  PROVE  Heard(v, <<>>) = v
  <1>1. Len(<<>>) = 0
    OBVIOUS
  <1>2. PICK h : IsHeard(h, v, <<>>)
    BY <1>1, HeardSteps
  <1> QED BY <1>1, <1>2 DEF IsHeard

LEMMA HeardOne ==
  ASSUME NEW v, NEW e
  PROVE  Heard(v, <<e>>) = Hear(v, e)
  <1>1. Len(<<e>>) = 1 /\ <<e>>[1] = e
    OBVIOUS
  <1>2. PICK h : IsHeard(h, v, <<e>>)
    BY <1>1, HeardSteps
  <1> QED BY <1>1, <1>2 DEF IsHeard

\* Whatever an event is about.
EventArg == Users \cup {NoUser} \cup Tasks \cup Positions \cup ListenerIds
EventTypes == {"Initialized", "LoggedIn", "LoggedOut", "Uninitialized", "TaskStarted", "TaskStopped",
               "ResourceOpened", "ResourceClosed", "ListenerRegistered", "ListenerUnregistered"}
SomeEvent == { Event(type, x) : type \in EventTypes, x \in EventArg }

\* Two lists heard one after the other are heard as one.
LEMMA HeardConcat ==
  ASSUME NEW v, NEW s \in Seq(SomeEvent), NEW t \in Seq(SomeEvent)
  PROVE  Heard(v, s \o t) = Heard(Heard(v, s), t)
  <1> DEFINE m == Len(s)
             n == Len(t)
             st == s \o t
  <1>1. /\ m \in Nat /\ n \in Nat /\ Len(st) = m + n /\ Len(st) \in Nat
        /\ (\A i \in 1..m : st[i] = s[i]) /\ \A i \in 1..n : st[m + i] = t[i]
    OBVIOUS
  <1>2. PICK h : IsHeard(h, v, st)
    <2> HIDE DEF st
    <2> QED BY <1>1, HeardSteps
  <1>3. PICK f : IsHeard(f, v, s)
    BY <1>1, HeardSteps
  <1>4. PICK g : IsHeard(g, Heard(v, s), t)
    BY <1>1, HeardSteps
  <1>5. /\ h[0] = v /\ Heard(v, st) = h[m + n]
        /\ \A i \in 1..(m + n) : h[i] = Hear(h[i - 1], st[i])
    BY <1>1, <1>2 DEF IsHeard
  <1>6. f[0] = v /\ Heard(v, s) = f[m] /\ \A i \in 1..m : f[i] = Hear(f[i - 1], s[i])
    BY <1>3 DEF IsHeard
  <1>7. /\ g[0] = Heard(v, s) /\ Heard(Heard(v, s), t) = g[n]
        /\ \A i \in 1..n : g[i] = Hear(g[i - 1], t[i])
    BY <1>4 DEF IsHeard
  <1> HIDE DEF m, n, st
  <1>8. h[m] = f[m]
    <2> DEFINE T == { i \in 0..m : h[i] = f[i] }
    <2>1. 0 \in T
      BY <1>1, <1>5, <1>6
    <2>2. \A i \in 0..(m - 1) : i \in T => i + 1 \in T
      <3> SUFFICES ASSUME NEW i \in 0..(m - 1), i \in T PROVE i + 1 \in T
        OBVIOUS
      <3>1. i + 1 \in 0..m /\ i + 1 \in 1..m /\ i + 1 \in 1..(m + n) /\ (i + 1) - 1 = i
        BY <1>1
      <3>2. h[i + 1] = Hear(h[i], st[i + 1]) /\ f[i + 1] = Hear(f[i], s[i + 1]) /\ st[i + 1] = s[i + 1]
        BY <1>1, <1>5, <1>6, <3>1
      <3> QED BY <3>1, <3>2
    <2>3. m \in T
      <3> HIDE DEF T
      <3> QED BY <1>1, <2>1, <2>2, Induct
    <2> QED BY <2>3
  <1>9. h[m + n] = g[n]
    <2> DEFINE T == { i \in 0..n : h[m + i] = g[i] }
    <2>1. 0 \in T
      BY <1>1, <1>6, <1>7, <1>8
    <2>2. \A i \in 0..(n - 1) : i \in T => i + 1 \in T
      <3> SUFFICES ASSUME NEW i \in 0..(n - 1), i \in T PROVE i + 1 \in T
        OBVIOUS
      <3>1. /\ i + 1 \in 0..n /\ i + 1 \in 1..n /\ m + (i + 1) \in 1..(m + n)
            /\ (i + 1) - 1 = i /\ (m + (i + 1)) - 1 = m + i
        BY <1>1
      <3>2. /\ h[m + (i + 1)] = Hear(h[m + i], st[m + (i + 1)]) /\ g[i + 1] = Hear(g[i], t[i + 1])
            /\ st[m + (i + 1)] = t[i + 1]
        BY <1>1, <1>5, <1>7, <3>1
      <3> QED BY <3>1, <3>2
    <2>3. n \in T
      <3> HIDE DEF T
      <3> QED BY <1>1, <2>1, <2>2, Induct
    <2> QED BY <2>3
  <1> QED BY <1>5, <1>7, <1>9 DEF st

\* What a listener concludes from an event of each kind.
LEMMA HearTask ==
  ASSUME NEW v \in View, NEW x
  PROVE  /\ Hear(v, Event("TaskStarted", x)) = [v EXCEPT !.tasks = v.tasks \cup {x}]
         /\ Hear(v, Event("TaskStopped", x)) = [v EXCEPT !.tasks = v.tasks \ {x}]
  BY DEF Hear, Event

LEMMA HearResource ==
  ASSUME NEW v \in View, NEW x
  PROVE  /\ Hear(v, Event("ResourceOpened", x)) = [v EXCEPT !.opened = v.opened \cup {x}]
         /\ Hear(v, Event("ResourceClosed", x)) = [v EXCEPT !.opened = v.opened \ {x}]
  BY DEF Hear, Event

LEMMA HearUser ==
  ASSUME NEW v \in View, NEW x
  PROVE  /\ Hear(v, Event("LoggedIn", x)) = [v EXCEPT !.user = x]
         /\ Hear(v, Event("LoggedOut", x)) = [v EXCEPT !.user = NoUser]
         /\ Hear(v, Event("Uninitialized", x)) = [v EXCEPT !.user = NoUser]
  BY DEF Hear, Event

LEMMA HearOther ==
  ASSUME NEW v \in View, NEW x
  PROVE  /\ Hear(v, Event("ListenerUnregistered", x)) = [v EXCEPT !.gone = v.gone \cup {x}]
         /\ Hear(v, Event("Initialized", x)) = v
         /\ Hear(v, Event("ListenerRegistered", x)) = v
  BY DEF Hear, Event

\* A listener that heard of n tasks stopping believes in the rest.
LEMMA HeardStopped ==
  ASSUME NEW v \in View, NEW n \in Nat, NEW order, \A i \in 1..n : order[i] \in Tasks,
         NEW events, Len(events) = n, \A i \in 1..n : events[i] = Event("TaskStopped", order[i])
  PROVE  LET w == Heard(v, events)
         IN  /\ w = [v EXCEPT !.tasks = w.tasks] /\ w.tasks \subseteq v.tasks
             /\ \A x \in v.tasks : x \in w.tasks <=> \A i \in 1..n : order[i] # x
  <1> DEFINE Said(w, k) ==
                /\ w = [v EXCEPT !.tasks = w.tasks] /\ w.tasks \subseteq v.tasks
                /\ \A x \in v.tasks : x \in w.tasks <=> \A i \in 1..k : order[i] # x
  <1>2. PICK h : IsHeard(h, v, events)
    BY HeardSteps
  <1>3. /\ h[0] = v /\ Heard(v, events) = h[n]
        /\ \A i \in 1..n : h[i] = Hear(h[i - 1], Event("TaskStopped", order[i]))
    BY <1>2 DEF IsHeard
  <1> DEFINE T == { k \in 0..n : Said(h[k], k) }
  <1>4. 0 \in T
    <2>1. v = [v EXCEPT !.tasks = v.tasks]
      BY DEF View
    <2> QED BY <1>3, <2>1
  <1>5. \A k \in 0..(n - 1) : k \in T => k + 1 \in T
    <2> SUFFICES ASSUME NEW k \in 0..(n - 1), k \in T PROVE k + 1 \in T
      OBVIOUS
    <2> DEFINE w == h[k]
               u == h[k + 1]
               x == order[k + 1]
    <2>1. k + 1 \in 0..n /\ k + 1 \in 1..n /\ (k + 1) - 1 = k
      OBVIOUS
    <2>2. u = Hear(w, Event("TaskStopped", x)) /\ Said(w, k)
      BY <1>3, <2>1
    <2>3. \A i : i \in 1..(k + 1) <=> i \in 1..k \/ i = k + 1
      OBVIOUS
    <2> HIDE DEF w, u
    <2>4. w \in View
      BY <2>2 DEF View
    <2>5. u = [w EXCEPT !.tasks = w.tasks \ {x}]
      BY <2>2, <2>4, HearTask
    <2>6. u.tasks = w.tasks \ {x} /\ u = [v EXCEPT !.tasks = u.tasks]
      BY <2>2, <2>4, <2>5 DEF View
    <2>7. \A y \in v.tasks : y \in u.tasks <=> \A i \in 1..(k + 1) : order[i] # y
      BY <2>2, <2>3, <2>6
    <2>8. Said(u, k + 1)
      BY <2>2, <2>6, <2>7
    <2> QED BY <2>1, <2>8 DEF u
  <1>6. n \in T
    <2> HIDE DEF T
    <2> QED BY <1>4, <1>5, Induct
  <1> QED BY <1>3, <1>6

\* One that heard of n resources being opened believes in them as well.
LEMMA HeardOpened ==
  ASSUME NEW v \in View, NEW n \in Nat, NEW order, \A i \in 1..n : order[i] \in Positions,
         NEW events, Len(events) = n, \A i \in 1..n : events[i] = Event("ResourceOpened", order[i])
  PROVE  LET w == Heard(v, events)
         IN  /\ w = [v EXCEPT !.opened = w.opened] /\ w.opened \in SUBSET Positions
             /\ v.opened \subseteq w.opened /\ \A i \in 1..n : order[i] \in w.opened
  <1> DEFINE Said(w, k) ==
                /\ w = [v EXCEPT !.opened = w.opened] /\ w.opened \in SUBSET Positions
                /\ v.opened \subseteq w.opened /\ \A i \in 1..k : order[i] \in w.opened
  <1>2. PICK h : IsHeard(h, v, events)
    BY HeardSteps
  <1>3. /\ h[0] = v /\ Heard(v, events) = h[n]
        /\ \A i \in 1..n : h[i] = Hear(h[i - 1], Event("ResourceOpened", order[i]))
    BY <1>2 DEF IsHeard
  <1> DEFINE T == { k \in 0..n : Said(h[k], k) }
  <1>4. 0 \in T
    <2>1. v = [v EXCEPT !.opened = v.opened] /\ v.opened \in SUBSET Positions
      BY DEF View
    <2> QED BY <1>3, <2>1
  <1>5. \A k \in 0..(n - 1) : k \in T => k + 1 \in T
    <2> SUFFICES ASSUME NEW k \in 0..(n - 1), k \in T PROVE k + 1 \in T
      OBVIOUS
    <2> DEFINE w == h[k]
               u == h[k + 1]
               x == order[k + 1]
    <2>1. k + 1 \in 0..n /\ k + 1 \in 1..n /\ (k + 1) - 1 = k
      OBVIOUS
    <2>2. u = Hear(w, Event("ResourceOpened", x)) /\ Said(w, k) /\ x \in Positions
      BY <1>3, <2>1
    <2>3. \A i : i \in 1..(k + 1) <=> i \in 1..k \/ i = k + 1
      OBVIOUS
    <2> HIDE DEF w, u
    <2>4. w \in View
      BY <2>2 DEF View
    <2>5. u = [w EXCEPT !.opened = w.opened \cup {x}]
      BY <2>2, <2>4, HearResource
    <2>6. u.opened = w.opened \cup {x} /\ u = [v EXCEPT !.opened = u.opened]
      BY <2>2, <2>4, <2>5 DEF View
    <2>7. Said(u, k + 1)
      BY <2>2, <2>3, <2>6
    <2> QED BY <2>1, <2>7 DEF u
  <1>6. n \in T
    <2> HIDE DEF T
    <2> QED BY <1>4, <1>5, Induct
  <1> QED BY <1>3, <1>6

\* One that heard of n resources closing changes its mind about resources only.
LEMMA HeardClosed ==
  ASSUME NEW v \in View, NEW n \in Nat, NEW order,
         NEW events, Len(events) = n, \A i \in 1..n : events[i] = Event("ResourceClosed", order[i])
  PROVE  LET w == Heard(v, events)
         IN  w = [v EXCEPT !.opened = w.opened] /\ w.opened \in SUBSET Positions
  <1> DEFINE Said(w) == w = [v EXCEPT !.opened = w.opened] /\ w.opened \in SUBSET Positions
  <1>2. PICK h : IsHeard(h, v, events)
    BY HeardSteps
  <1>3. /\ h[0] = v /\ Heard(v, events) = h[n]
        /\ \A i \in 1..n : h[i] = Hear(h[i - 1], Event("ResourceClosed", order[i]))
    BY <1>2 DEF IsHeard
  <1> DEFINE T == { k \in 0..n : Said(h[k]) }
  <1>4. 0 \in T
    <2>1. v = [v EXCEPT !.opened = v.opened] /\ v.opened \in SUBSET Positions
      BY DEF View
    <2> QED BY <1>3, <2>1
  <1>5. \A k \in 0..(n - 1) : k \in T => k + 1 \in T
    <2> SUFFICES ASSUME NEW k \in 0..(n - 1), k \in T PROVE k + 1 \in T
      OBVIOUS
    <2> DEFINE w == h[k]
               u == h[k + 1]
               x == order[k + 1]
    <2>1. k + 1 \in 0..n /\ k + 1 \in 1..n /\ (k + 1) - 1 = k
      OBVIOUS
    <2>2. u = Hear(w, Event("ResourceClosed", x)) /\ Said(w)
      BY <1>3, <2>1
    <2> HIDE DEF w, u
    <2>4. w \in View
      BY <2>2 DEF View
    <2>5. u = [w EXCEPT !.opened = w.opened \ {x}]
      BY <2>2, <2>4, HearResource
    <2>6. u.opened = w.opened \ {x} /\ u = [v EXCEPT !.opened = u.opened]
      BY <2>2, <2>4, <2>5 DEF View
    <2>7. Said(u)
      BY <2>2, <2>6
    <2> QED BY <2>1, <2>7 DEF u
  <1>6. n \in T
    <2> HIDE DEF T
    <2> QED BY <1>4, <1>5, Induct
  <1> QED BY <1>3, <1>6

\* stop_task and stop_all_tasks leave a listener with the tasks that were not running.
LEMMA HeardStoppedEvents ==
  ASSUME NEW v \in View, NEW names, running \subseteq Tasks
  PROVE  /\ StoppedEvents(names) \in Seq(SomeEvent)
         /\ Heard(v, StoppedEvents(names)) = [v EXCEPT !.tasks = v.tasks \ (names \cap running)]
  <1> DEFINE S == names \cap running
             order == SetToSeq(S)
             n == Cardinality(S)
  <1>1. IsFiniteSet(S)
    <2>1. IsFiniteSet(LoginTasks)
      <3>1. LoginTasks = {"transport"} \cup {"sync"}
        BY DEF LoginTasks
      <3> QED BY <3>1, FS_Singleton, FS_Union
    <2>2. IsFiniteSet(Tasks)
      BY <2>1, SessionConstants, FS_Union DEF SessionConstants, Tasks
    <2> QED BY <2>2, FS_Subset
  <1>2. order \in [1..n -> S] /\ n \in Nat /\ \A x \in S : \E i \in 1..n : order[i] = x
    BY <1>1, SetToSeqLists
  <1>3. Len(order) = n /\ \A i \in 1..n : order[i] \in S /\ order[i] \in Tasks
    <2>1. S \subseteq Tasks
      OBVIOUS
    <2> HIDE DEF S, order, n
    <2> QED BY <1>2, <2>1
  <1>4. StoppedEvents(names) = [i \in 1..n |-> Event("TaskStopped", order[i])]
    BY <1>3 DEF StoppedEvents
  <1> HIDE DEF order, n
  <1>5. \A i \in 1..n : Event("TaskStopped", order[i]) \in SomeEvent
    <2>1. \A i \in 1..n : order[i] \in EventArg
      BY <1>3 DEF EventArg
    <2> QED BY <2>1 DEF SomeEvent, EventTypes
  <1>6. StoppedEvents(names) \in Seq(SomeEvent)
    BY <1>2, <1>4, <1>5
  <1> DEFINE w == Heard(v, StoppedEvents(names))
  <1>7. /\ w = [v EXCEPT !.tasks = w.tasks] /\ w.tasks \subseteq v.tasks
        /\ \A x \in v.tasks : x \in w.tasks <=> \A i \in 1..n : order[i] # x
    <2>1. Len(StoppedEvents(names)) = n /\ \A i \in 1..n : StoppedEvents(names)[i] = Event("TaskStopped", order[i])
      BY <1>2, <1>4
    <2> QED BY <1>2, <1>3, <2>1, HeardStopped
  <1> HIDE DEF w
  <1>8. w.tasks = v.tasks \ S
    BY <1>2, <1>3, <1>7
  <1> QED BY <1>6, <1>7, <1>8 DEF w

\* login tells of every resource the adapter returned.
LEMMA HeardOpenedEvents ==
  ASSUME NEW v \in View, NEW opened \in SUBSET Positions
  PROVE  LET w == Heard(v, OpenedEvents(opened))
         IN  /\ OpenedEvents(opened) \in Seq(SomeEvent)
             /\ w = [v EXCEPT !.opened = w.opened] /\ w.opened \in SUBSET Positions
             /\ opened \subseteq w.opened
  <1> DEFINE order == InOrder(opened)
             n == Cardinality(opened)
             w == Heard(v, OpenedEvents(opened))
  <1>1. opened \in SUBSET Nat /\ IsFiniteSet(opened)
    BY SessionConstants, FS_Subset DEF SessionConstants
  <1>2. order \in [1..n -> opened] /\ n \in Nat /\ \A x \in opened : \E i \in 1..n : order[i] = x
    BY <1>1, InOrderLists
  <1>3. Len(order) = n /\ \A i \in 1..n : order[i] \in Positions
    BY <1>2
  <1>4. OpenedEvents(opened) = [i \in 1..n |-> Event("ResourceOpened", order[i])]
    BY <1>3 DEF OpenedEvents
  <1> HIDE DEF order, n
  <1>5. \A i \in 1..n : Event("ResourceOpened", order[i]) \in SomeEvent
    <2>1. \A i \in 1..n : order[i] \in EventArg
      BY <1>3 DEF EventArg
    <2> QED BY <2>1 DEF SomeEvent, EventTypes
  <1>6. OpenedEvents(opened) \in Seq(SomeEvent)
    BY <1>2, <1>4, <1>5
  <1>7. /\ w = [v EXCEPT !.opened = w.opened] /\ w.opened \in SUBSET Positions
        /\ v.opened \subseteq w.opened /\ \A i \in 1..n : order[i] \in w.opened
    <2>1. /\ Len(OpenedEvents(opened)) = n
          /\ \A i \in 1..n : OpenedEvents(opened)[i] = Event("ResourceOpened", order[i])
      BY <1>2, <1>4
    <2> QED BY <1>2, <1>3, <2>1, HeardOpened
  <1> HIDE DEF w
  <1>8. opened \subseteq w.opened
    BY <1>2, <1>7
  <1> QED BY <1>6, <1>7, <1>8 DEF w

\* close_runtime_resources changes only what a listener believes of the resources.
LEMMA HeardClosedEvents ==
  ASSUME NEW v \in View, held \subseteq Resource
  PROVE  LET w == Heard(v, ClosedEvents(held))
         IN  /\ ClosedEvents(held) \in Seq(SomeEvent)
             /\ w = [v EXCEPT !.opened = w.opened] /\ w.opened \in SUBSET Positions
  <1> DEFINE places == { r.pos : r \in held }
             order == InOrder(places)
             n == Cardinality(places)
             back == [i \in 1..n |-> order[n + 1 - i]]
             w == Heard(v, ClosedEvents(held))
  <1>1. places \in SUBSET Positions
    BY DEF Resource
  <1>2. places \in SUBSET Nat /\ IsFiniteSet(places)
    <2> HIDE DEF places
    <2> QED BY <1>1, SessionConstants, FS_Subset DEF SessionConstants
  <1>3. order \in [1..n -> places] /\ n \in Nat
    <2> HIDE DEF places
    <2> QED BY <1>2, InOrderLists
  <1>4. Len(order) = n
    BY <1>3
  <1>5. ClosedEvents(held) = [i \in 1..n |-> Event("ResourceClosed", back[i])]
    BY <1>4 DEF ClosedEvents
  <1>6. \A i \in 1..n : back[i] \in Positions
    <2> SUFFICES ASSUME NEW i \in 1..n PROVE back[i] \in Positions
      OBVIOUS
    <2> HIDE DEF places, order, n
    <2>1. n + 1 - i \in 1..n
      BY <1>3
    <2>2. back[i] = order[n + 1 - i]
      OBVIOUS
    <2> HIDE DEF back
    <2> QED BY <1>1, <1>3, <2>1, <2>2
  <1> HIDE DEF back, order, n, places
  <1>7. \A i \in 1..n : Event("ResourceClosed", back[i]) \in SomeEvent
    <2>1. \A i \in 1..n : back[i] \in EventArg
      BY <1>6 DEF EventArg
    <2> QED BY <2>1 DEF SomeEvent, EventTypes
  <1>8. ClosedEvents(held) \in Seq(SomeEvent)
    BY <1>3, <1>5, <1>7
  <1>9. w = [v EXCEPT !.opened = w.opened] /\ w.opened \in SUBSET Positions
    <2>1. /\ Len(ClosedEvents(held)) = n
          /\ \A i \in 1..n : ClosedEvents(held)[i] = Event("ResourceClosed", back[i])
      BY <1>3, <1>5
    <2> QED BY <1>3, <2>1, HeardClosed
  <1> QED BY <1>8, <1>9 DEF w

\* start_task tells of a task only if it was not running.
LEMMA HeardStartEvents ==
  ASSUME NEW v \in View, NEW name \in Tasks
  PROVE  /\ StartEvents(name) \in Seq(SomeEvent)
         /\ Heard(v, StartEvents(name)) = [v EXCEPT !.tasks = v.tasks \cup ({name} \ running)]
  <1>1. CASE name \in running
    <2>1. StartEvents(name) = <<>> /\ v.tasks \cup ({name} \ running) = v.tasks
      BY <1>1 DEF StartEvents
    <2>2. v = [v EXCEPT !.tasks = v.tasks]
      BY DEF View
    <2>3. <<>> \in Seq(SomeEvent)
      OBVIOUS
    <2> QED BY <2>1, <2>2, <2>3, HeardNothing
  <1>2. CASE name \notin running
    <2>1. StartEvents(name) = <<Event("TaskStarted", name)>> /\ {name} \ running = {name}
      BY <1>2 DEF StartEvents
    <2>2. Event("TaskStarted", name) \in SomeEvent
      <3>1. name \in EventArg
        BY DEF EventArg
      <3> QED BY <3>1 DEF SomeEvent, EventTypes
    <2>3. Heard(v, <<Event("TaskStarted", name)>>) = [v EXCEPT !.tasks = v.tasks \cup {name}]
      BY HeardOne, HearTask
    <2> QED BY <2>1, <2>2, <2>3
  <1> QED BY <1>1, <1>2

\* The events of a logout or an uninit, heard by one listener.
LEMMA HeardCleanUp ==
  ASSUME NEW v \in View, CoreTypeOK, NEW type \in {"LoggedOut", "Uninitialized"},
         NEW x \in Users \cup {NoUser}
  PROVE  LET w == Heard(v, StoppedEvents(running) \o ClosedEvents(held) \o <<Event(type, x)>>)
         IN  w \in View /\ w.tasks = v.tasks \ running /\ w.user = NoUser /\ w.gone = v.gone
  <1> DEFINE stopped == StoppedEvents(running)
             closed == ClosedEvents(held)
             last == <<Event(type, x)>>
             v1 == Heard(v, stopped)
             v2 == Heard(v1, closed)
             w == Heard(v2, last)
  <1>0. running \subseteq Tasks /\ held \subseteq Resource
    BY DEF CoreTypeOK
  <1>1. stopped \in Seq(SomeEvent) /\ v1 = [v EXCEPT !.tasks = v.tasks \ running]
    BY <1>0, HeardStoppedEvents
  <1> HIDE DEF v1, stopped
  <1>2. v1 \in View /\ v1.tasks = v.tasks \ running /\ v1.gone = v.gone
    BY <1>1 DEF View
  <1>3. closed \in Seq(SomeEvent) /\ v2 = [v1 EXCEPT !.opened = v2.opened] /\ v2.opened \in SUBSET Positions
    BY <1>0, <1>2, HeardClosedEvents
  <1> HIDE DEF v2, closed
  <1>4. v2 \in View /\ v2.tasks = v1.tasks /\ v2.gone = v1.gone
    BY <1>2, <1>3 DEF View
  <1>5. last \in Seq(SomeEvent)
    <2>1. x \in EventArg
      BY DEF EventArg
    <2>2. Event(type, x) \in SomeEvent
      BY <2>1 DEF SomeEvent, EventTypes
    <2> QED BY <2>2
  <1>6. w = [v2 EXCEPT !.user = NoUser]
    BY <1>4, HeardOne, HearUser
  <1> HIDE DEF w
  <1>7. w \in View /\ w.tasks = v2.tasks /\ w.user = NoUser /\ w.gone = v2.gone
    BY <1>4, <1>6 DEF View
  <1>8. Heard(v, (stopped \o closed) \o last) = w
    <2>1. stopped \o closed \in Seq(SomeEvent)
      BY <1>1, <1>3
    <2>2. Heard(v, (stopped \o closed) \o last) = Heard(Heard(v, stopped \o closed), last)
      <3> HIDE DEF last
      <3> QED BY <1>5, <2>1, HeardConcat
    <2>3. Heard(v, stopped \o closed) = Heard(Heard(v, stopped), closed)
      BY <1>1, <1>3, HeardConcat
    <2>4. Heard(v, stopped \o closed) = v2
      BY <2>3 DEF v1, v2
    <2> QED BY <2>2, <2>4 DEF w
  <1> QED BY <1>2, <1>4, <1>7, <1>8 DEF stopped, closed

\* The events of a login, heard by one listener.
LEMMA HeardLogin ==
  ASSUME NEW v \in View, NEW user \in Users, NEW opened \in SUBSET Positions
  PROVE  LET w == Heard(v, StartEvents("transport") \o StartEvents("sync")
                              \o OpenedEvents(opened) \o <<Event("LoggedIn", user)>>)
         IN  /\ w \in View /\ w.tasks = v.tasks \cup (LoginTasks \ running)
             /\ w.user = user /\ w.gone = v.gone /\ opened \subseteq w.opened
  <1> DEFINE transport == StartEvents("transport")
             sync == StartEvents("sync")
             told == OpenedEvents(opened)
             last == <<Event("LoggedIn", user)>>
             v1 == Heard(v, transport)
             v2 == Heard(v1, sync)
             v3 == Heard(v2, told)
             w == Heard(v3, last)
  <1>0. "transport" \in Tasks /\ "sync" \in Tasks
    BY DEF Tasks, LoginTasks
  <1>1. transport \in Seq(SomeEvent) /\ v1 = [v EXCEPT !.tasks = v.tasks \cup ({"transport"} \ running)]
    BY <1>0, HeardStartEvents
  <1> HIDE DEF v1, transport
  <1>2. v1 \in View /\ v1.tasks = v.tasks \cup ({"transport"} \ running) /\ v1.gone = v.gone
    BY <1>0, <1>1 DEF View
  <1>3. sync \in Seq(SomeEvent) /\ v2 = [v1 EXCEPT !.tasks = v1.tasks \cup ({"sync"} \ running)]
    BY <1>0, <1>2, HeardStartEvents
  <1> HIDE DEF v2, sync
  <1>4. v2 \in View /\ v2.tasks = v1.tasks \cup ({"sync"} \ running) /\ v2.gone = v1.gone
    BY <1>0, <1>2, <1>3 DEF View
  <1>5. /\ told \in Seq(SomeEvent) /\ v3 = [v2 EXCEPT !.opened = v3.opened]
        /\ v3.opened \in SUBSET Positions /\ opened \subseteq v3.opened
    BY <1>4, HeardOpenedEvents
  <1> HIDE DEF v3, told
  <1>6. v3 \in View /\ v3.tasks = v2.tasks /\ v3.gone = v2.gone
    BY <1>4, <1>5 DEF View
  <1>7. last \in Seq(SomeEvent)
    <2>1. user \in EventArg
      BY DEF EventArg
    <2>2. Event("LoggedIn", user) \in SomeEvent
      BY <2>1 DEF SomeEvent, EventTypes
    <2> QED BY <2>2
  <1>8. w = [v3 EXCEPT !.user = user]
    BY <1>6, HeardOne, HearUser
  <1> HIDE DEF w
  <1>9. w \in View /\ w.tasks = v3.tasks /\ w.user = user /\ w.gone = v3.gone /\ w.opened = v3.opened
    BY <1>6, <1>8 DEF View
  <1>10. w.tasks = v.tasks \cup (LoginTasks \ running)
    BY <1>2, <1>4, <1>6, <1>9 DEF LoginTasks
  <1>11. Heard(v, ((transport \o sync) \o told) \o last) = w
    <2> HIDE DEF last
    <2>1. transport \o sync \in Seq(SomeEvent)
      BY <1>1, <1>3
    <2>2. (transport \o sync) \o told \in Seq(SomeEvent)
      BY <1>5, <2>1
    <2>3. Heard(v, transport \o sync) = Heard(Heard(v, transport), sync)
      BY <1>1, <1>3, HeardConcat
    <2>4. Heard(v, (transport \o sync) \o told) = Heard(Heard(v, transport \o sync), told)
      BY <1>5, <2>1, HeardConcat
    <2>5. /\ Heard(v, ((transport \o sync) \o told) \o last)
              = Heard(Heard(v, (transport \o sync) \o told), last)
      BY <1>7, <2>2, HeardConcat
    <2> QED BY <2>3, <2>4, <2>5 DEF v1, v2, v3, w
  <1> QED BY <1>2, <1>4, <1>5, <1>6, <1>9, <1>10, <1>11 DEF transport, sync, told

\* A listener that was never registered has heard nothing; the views of the others are what
\* ListenersInformed says of them.
ViewInv ==
    /\ view \in [ListenerIds -> View]
    /\ \A l \in ListenerIds : l > nextId => view[l] = EmptyView
    /\ ListenersInformed

\* What ViewInv says of one listener.
Informed(l) ==
    /\ view[l] \in View
    /\ l > nextId => view[l] = EmptyView
    /\ l \notin view[l].gone
    /\ l \in listeners =>
        /\ view[l].tasks \subseteq running
        /\ view[l].user \in {NoUser, loginUser}
        /\ l \in early => /\ view[l].tasks = running /\ view[l].user = loginUser
                          /\ {r.pos : r \in held} \subseteq view[l].opened

\* ViewInv is what Informed says of each listener.
LEMMA InformedOne ==
  ASSUME ViewInv, NEW l \in ListenerIds
  PROVE  Informed(l)
  BY DEF ViewInv, ListenersInformed, Informed

LEMMA InformedAll ==
  ASSUME view' = [l \in ListenerIds |-> view'[l]], listeners' \subseteq ListenerIds,
         \A l \in ListenerIds : Informed(l)'
  PROVE  ViewInv'
  <1>1. (view \in [ListenerIds -> View])'
    BY DEF Informed
  <1>2. ListenersInformed'
    BY DEF Informed, ListenersInformed
  <1> QED BY <1>1, <1>2 DEF ViewInv, Informed

LEMMA ListenersAreIds ==
  ASSUME ResourceInv
  PROVE  /\ listeners \subseteq 1..nextId /\ early \subseteq 1..nextId /\ nextId \in Nat
         /\ listeners \subseteq ListenerIds
  BY SessionConstants DEF SessionConstants, ResourceInv, CoreTypeOK, ListenerIds

LEMMA InitViewInv == Init => ViewInv
  <1> SUFFICES ASSUME Init PROVE ViewInv
    OBVIOUS
  <1>1. EmptyView \in View
    BY DEF EmptyView, View
  <1>2. view = [l \in ListenerIds |-> EmptyView] /\ listeners = {}
    BY DEF Init
  <1>3. \A l \in ListenerIds : l \notin EmptyView.gone
    BY DEF EmptyView
  <1> QED BY <1>1, <1>2, <1>3 DEF ViewInv, ListenersInformed

\* A step that tells nobody anything, and changes none of what they believe in.
LEMMA QuietViewInv ==
  ASSUME ViewInv, UNCHANGED <<loginUser, running, nextId, listeners, early, view>>, held' \subseteq held
  PROVE  ViewInv'
  BY DEF ViewInv, ListenersInformed

\* One event that says nothing about the tasks, the user and the resources.
LEMMA OtherViewInv ==
  ASSUME ResourceInv, ViewInv, NEW ids \in SUBSET ListenerIds, NEW x,
         NEW type \in {"Initialized", "ListenerRegistered"},
         EmitTo(ids, <<Event(type, x)>>)
  PROVE  view' = view
  <1>1. \A l \in ListenerIds : view[l] \in View
    BY DEF ViewInv
  <1>2. \A l \in ListenerIds : Heard(view[l], <<Event(type, x)>>) = view[l]
    BY <1>1, HeardOne, HearOther
  <1>3. view' = [l \in ListenerIds |-> view[l]]
    BY <1>2 DEF EmitTo
  <1> QED BY <1>3 DEF ViewInv

\* The tail of logout and uninit.
LEMMA CleanUpViewInv ==
  ASSUME ResourceInv, ViewInv, NEW next, NEW type \in {"LoggedOut", "Uninitialized"},
         NEW x \in Users \cup {NoUser}, CleanUp(next, Event(type, x))
  PROVE  ViewInv'
  <1> DEFINE events == StoppedEvents(running) \o ClosedEvents(held) \o <<Event(type, x)>>
  <1>1. /\ view' = [l \in ListenerIds |-> IF l \in listeners THEN Heard(view[l], events) ELSE view[l]]
        /\ running' = {} /\ loginUser' = NoUser /\ held' = {}
        /\ UNCHANGED <<nextId, listeners, early>>
    BY DEF CleanUp, Emit, EmitTo, CloseRuntimeResources, ForgetUser
  <1>2. CoreTypeOK /\ listeners \subseteq 1..nextId /\ nextId \in Nat /\ listeners \subseteq ListenerIds
    BY ListenersAreIds DEF ResourceInv
  <1>3. ASSUME NEW l \in ListenerIds PROVE Informed(l)'
    <2>1. Informed(l)
      BY InformedOne
    <2>2. CASE l \in listeners
      <3>1. view'[l] = Heard(view[l], events) /\ view[l] \in View
        BY <1>1, <2>1, <2>2 DEF Informed
      <3>2. view'[l] \in View /\ view'[l].tasks = view[l].tasks \ running
            /\ view'[l].user = NoUser /\ view'[l].gone = view[l].gone
        BY <1>2, <3>1, HeardCleanUp
      <3>3. ~(l > nextId)
        BY <1>2, <2>2
      <3> QED BY <1>1, <2>1, <2>2, <3>2, <3>3 DEF Informed
    <2>3. CASE l \notin listeners
      BY <1>1, <2>1, <2>3 DEF Informed
    <2> QED BY <2>2, <2>3
  <1>4. view' = [l \in ListenerIds |-> view'[l]]
    BY <1>1
  <1> QED BY <1>1, <1>2, <1>3, <1>4, InformedAll

LEMMA LoginViewInv ==
  ASSUME ResourceInv, ViewInv, NEW user \in Users, Login(user)
  PROVE  ViewInv'
  <1>1. PICK opened \in SUBSET Positions :
           /\ held' = {[login |-> logins + 1, pos |-> p] : p \in opened}
           /\ Emit(StartEvents("transport") \o StartEvents("sync")
                     \o OpenedEvents(opened) \o <<Event("LoggedIn", user)>>)
    BY DEF Login
  <1> DEFINE events == StartEvents("transport") \o StartEvents("sync")
                         \o OpenedEvents(opened) \o <<Event("LoggedIn", user)>>
  <1>2. /\ view' = [l \in ListenerIds |-> IF l \in listeners THEN Heard(view[l], events) ELSE view[l]]
        /\ running' = running \cup LoginTasks /\ loginUser' = user
        /\ UNCHANGED <<nextId, listeners, early>>
    BY <1>1 DEF Login, Emit, EmitTo
  <1>3. {r.pos : r \in held'} = opened
    <2>1. \A p \in opened : [login |-> logins + 1, pos |-> p].pos = p
      OBVIOUS
    <2>2. \A r \in held' : r.pos \in opened
      BY <1>1, <2>1
    <2>3. \A p \in opened : \E r \in held' : r.pos = p
      <3> SUFFICES ASSUME NEW p \in opened PROVE \E r \in held' : r.pos = p
        OBVIOUS
      <3>1. [login |-> logins + 1, pos |-> p] \in held'
        BY <1>1
      <3> QED BY <2>1, <3>1
    <2> QED BY <2>2, <2>3
  <1>4. listeners \subseteq 1..nextId /\ nextId \in Nat /\ listeners \subseteq ListenerIds
    BY ListenersAreIds
  <1>5. ASSUME NEW l \in ListenerIds PROVE Informed(l)'
    <2>1. Informed(l)
      BY InformedOne
    <2>2. CASE l \in listeners
      <3>1. view'[l] = Heard(view[l], events) /\ view[l] \in View
        BY <1>2, <2>1, <2>2 DEF Informed
      <3>2. view'[l] \in View /\ view'[l].tasks = view[l].tasks \cup (LoginTasks \ running)
            /\ view'[l].user = user /\ view'[l].gone = view[l].gone /\ opened \subseteq view'[l].opened
        BY <3>1, HeardLogin
      <3>3. ~(l > nextId)
        BY <1>4, <2>2
      <3> QED BY <1>2, <1>3, <2>1, <2>2, <3>2, <3>3 DEF Informed
    <2>3. CASE l \notin listeners
      BY <1>2, <2>1, <2>3 DEF Informed
    <2> QED BY <2>2, <2>3
  <1>6. view' = [l \in ListenerIds |-> view'[l]]
    BY <1>2
  <1> QED BY <1>2, <1>4, <1>5, <1>6, InformedAll

LEMMA RegisterViewInv ==
  ASSUME ResourceInv, ViewInv, RegisterListener
  PROVE  ViewInv'
  <1>1. /\ CoreTypeOK /\ nextId \in Nat /\ nextId + 1 \in ListenerIds
        /\ listeners \subseteq ListenerIds /\ listeners \subseteq 1..nextId /\ early \subseteq 1..nextId
    BY SessionConstants, ListenersAreIds
    DEF SessionConstants, ResourceInv, CoreTypeOK, RegisterListener, ListenerIds
  <1>2. view' = view
    BY <1>1, OtherViewInv DEF RegisterListener
  <1>3. view[nextId + 1] = EmptyView
    BY <1>1 DEF ViewInv
  <1>4. /\ nextId' = nextId + 1 /\ listeners' = listeners \cup {nextId + 1}
        /\ UNCHANGED <<loginUser, running, held>>
        /\ early' = IF state = "Created" /\ running = {} THEN early \cup {nextId + 1} ELSE early
    BY DEF RegisterListener
  <1>5. state = "Created" => loginUser = NoUser /\ held = {}
    BY DEF ResourceInv, SessionCoherent, CoreTypeOK
  <1>6. EmptyView.tasks = {} /\ EmptyView.user = NoUser
    BY DEF EmptyView
  <1>7. ListenersInformed'
    <2>1. \A l \in ListenerIds : l \notin view'[l].gone
      BY <1>2 DEF ViewInv, ListenersInformed
    <2>2. ASSUME NEW l \in listeners, l # nextId + 1
          PROVE  /\ view'[l].tasks \subseteq running' /\ view'[l].user \in {NoUser, loginUser'}
                 /\ l \in early' => /\ view'[l].tasks = running' /\ view'[l].user = loginUser'
                                    /\ {r.pos : r \in held'} \subseteq view'[l].opened
      BY <1>2, <1>4, <2>2 DEF ViewInv, ListenersInformed
    <2>3. nextId + 1 \notin early /\ nextId + 1 \notin listeners
      BY <1>1
    <2>4. /\ view'[nextId + 1].tasks \subseteq running' /\ view'[nextId + 1].user \in {NoUser, loginUser'}
          /\ nextId + 1 \in early' =>
                /\ view'[nextId + 1].tasks = running' /\ view'[nextId + 1].user = loginUser'
                /\ {r.pos : r \in held'} \subseteq view'[nextId + 1].opened
      BY <1>2, <1>3, <1>4, <1>5, <1>6, <2>3
    <2> QED BY <1>4, <2>1, <2>2, <2>3, <2>4 DEF ListenersInformed
  <1> QED BY <1>1, <1>2, <1>4, <1>7 DEF ViewInv, ListenerIds

LEMMA UnregisterViewInv ==
  ASSUME ResourceInv, ViewInv, NEW id \in ListenerIds, UnregisterListener(id), ~NoOp
  PROVE  ViewInv'
  <1>1. /\ view' = [l \in ListenerIds |-> IF l \in listeners'
                       THEN Heard(view[l], <<Event("ListenerUnregistered", id)>>) ELSE view[l]]
        /\ listeners' = listeners \ {id} /\ UNCHANGED <<loginUser, running, held, nextId, early>>
    BY DEF UnregisterListener, EmitTo
  <1>2. listeners \subseteq 1..nextId /\ nextId \in Nat /\ listeners \subseteq ListenerIds
    BY ListenersAreIds
  <1>4. ASSUME NEW l \in ListenerIds PROVE Informed(l)'
    <2>1. Informed(l)
      BY InformedOne
    <2>2. CASE l \in listeners'
      <3>1. view'[l] = Heard(view[l], <<Event("ListenerUnregistered", id)>>) /\ view[l] \in View /\ l # id
        BY <1>1, <2>1, <2>2 DEF Informed
      <3>2. view'[l] = [view[l] EXCEPT !.gone = view[l].gone \cup {id}]
        <4>1. view'[l] = Hear(view[l], Event("ListenerUnregistered", id))
          BY <3>1, HeardOne
        <4> QED BY <3>1, <4>1, HearOther
      <3>3. /\ view'[l] \in View /\ view'[l].tasks = view[l].tasks /\ view'[l].user = view[l].user
            /\ view'[l].gone = view[l].gone \cup {id} /\ view'[l].opened = view[l].opened
        BY <3>1, <3>2 DEF View
      <3>4. ~(l > nextId) /\ l \in listeners
        BY <1>1, <1>2, <2>2
      <3> QED BY <1>1, <2>1, <3>1, <3>3, <3>4 DEF Informed
    <2>3. CASE l \notin listeners'
      BY <1>1, <2>1, <2>3 DEF Informed
    <2> QED BY <2>2, <2>3
  <1>5. view' = [l \in ListenerIds |-> view'[l]]
    BY <1>1
  <1> QED BY <1>1, <1>2, <1>4, <1>5, InformedAll

\* start_task and stop_task, in terms of the tasks that start to run and those that stop.
LEMMA TaskViewInv ==
  ASSUME ResourceInv, ViewInv, NEW events, Emit(events), NEW gained, NEW lost,
         \A v \in View : Heard(v, events) = [v EXCEPT !.tasks = (v.tasks \cup gained) \ lost],
         running' = (running \cup gained) \ lost, gained \subseteq Tasks \ running,
         UNCHANGED <<loginUser, held, nextId, listeners, early>>
  PROVE  ViewInv'
  <1>1. view' = [l \in ListenerIds |-> IF l \in listeners THEN Heard(view[l], events) ELSE view[l]]
    BY DEF Emit, EmitTo
  <1>2. listeners \subseteq 1..nextId /\ nextId \in Nat /\ listeners \subseteq ListenerIds
    BY ListenersAreIds
  <1>3. ASSUME NEW l \in ListenerIds PROVE Informed(l)'
    <2>1. Informed(l)
      BY InformedOne
    <2>2. CASE l \in listeners
      <3>1. view'[l] = [view[l] EXCEPT !.tasks = (view[l].tasks \cup gained) \ lost] /\ view[l] \in View
        BY <1>1, <2>1, <2>2 DEF Informed
      <3>2. /\ view'[l] \in View /\ view'[l].tasks = (view[l].tasks \cup gained) \ lost
            /\ view'[l].user = view[l].user
            /\ view'[l].gone = view[l].gone /\ view'[l].opened = view[l].opened
        BY <3>1 DEF View
      <3>3. ~(l > nextId)
        BY <1>2, <2>2
      <3> QED BY <2>1, <2>2, <3>2, <3>3 DEF Informed
    <2>3. CASE l \notin listeners
      BY <1>1, <2>1, <2>3 DEF Informed
    <2> QED BY <2>2, <2>3
  <1>4. view' = [l \in ListenerIds |-> view'[l]]
    BY <1>1
  <1> QED BY <1>1, <1>2, <1>3, <1>4, InformedAll

LEMMA NextViewInv == ResourceInv /\ ViewInv /\ [Next]_vars => ViewInv'
  <1> SUFFICES ASSUME ResourceInv, ViewInv, [Next]_vars PROVE ViewInv'
    OBVIOUS
  <1>1. ASSUME Fail \/ NoOp \/ UNCHANGED vars PROVE ViewInv'
    <2>1. UNCHANGED <<loginUser, running, nextId, listeners, early, view>> /\ held' \subseteq held
      BY <1>1 DEF Fail, NoOp, vars
    <2> QED BY <2>1, QuietViewInv
  <1>2. ASSUME NEW failing \in CloseFailures, CloseFails(failing) PROVE ViewInv'
    <2>1. UNCHANGED <<loginUser, running, nextId, listeners, early, view>> /\ held' \subseteq held
      BY <1>2 DEF CloseFails, KeepRemaining, CloseFailures
    <2> QED BY <2>1, QuietViewInv
  <1>3. CASE InitSdk
    <2>1. CASE ~Fail
      <3>1. listeners \in SUBSET ListenerIds
        BY ListenersAreIds
      <3>2. view' = view
        BY <1>3, <2>1, <3>1, OtherViewInv DEF InitSdk, Emit
      <3>3. UNCHANGED <<loginUser, running, nextId, listeners, early, view>> /\ held' \subseteq held
        BY <1>3, <2>1, <3>2 DEF InitSdk
      <3> QED BY <3>3, QuietViewInv
    <2> QED BY <1>1, <2>1
  <1>4. CASE LoginMismatch
    <2>1. UNCHANGED <<loginUser, running, nextId, listeners, early, view>> /\ held' \subseteq held
      BY <1>4 DEF LoginMismatch
    <2> QED BY <2>1, QuietViewInv
  <1>5. ASSUME NEW user \in Users, Login(user) PROVE ViewInv'
    BY <1>5, LoginViewInv
  <1>6. CASE Logout
    <2>1. loginUser \in Users \cup {NoUser}
      BY DEF ResourceInv, CoreTypeOK
    <2>2. CASE CleanUp("LoggedOut", Event("LoggedOut", loginUser))
      BY <2>1, <2>2, CleanUpViewInv
    <2> QED BY <1>1, <1>2, <1>6, <2>2 DEF Logout
  <1>7. CASE Uninit
    <2>1. CASE CleanUp("Uninitialized", Event("Uninitialized", NoUser))
      BY <2>1, CleanUpViewInv
    <2> QED BY <1>1, <1>2, <1>7, <2>1 DEF Uninit
  <1>8. CASE RegisterListener
    BY <1>8, RegisterViewInv
  <1>9. ASSUME NEW id \in ListenerIds, UnregisterListener(id) PROVE ViewInv'
    <2>1. CASE ~NoOp
      BY <1>9, <2>1, UnregisterViewInv
    <2> QED BY <1>1, <2>1
  <1>10. ASSUME NEW name \in Tasks, StartTask(name) PROVE ViewInv'
    <2> DEFINE events == StartEvents(name)
               gained == {name} \ running
    <2>1. ASSUME NEW v \in View
          PROVE  Heard(v, events) = [v EXCEPT !.tasks = (v.tasks \cup gained) \ {}]
      <3>1. (v.tasks \cup gained) \ {} = v.tasks \cup gained
        OBVIOUS
      <3> HIDE DEF gained
      <3> QED BY <3>1, HeardStartEvents DEF gained
    <2>2. Emit(events) /\ UNCHANGED <<loginUser, held, nextId, listeners, early>>
      BY <1>10 DEF StartTask
    <2>3. running' = (running \cup gained) \ {} /\ gained \subseteq Tasks \ running
      BY <1>10 DEF StartTask
    <2> HIDE DEF events, gained
    <2> QED BY <2>1, <2>2, <2>3, TaskViewInv
  <1>11. ASSUME NEW name \in Tasks, StopTask(name) PROVE ViewInv'
    <2> DEFINE events == StoppedEvents({name})
               lost == {name} \cap running
    <2>1. ASSUME NEW v \in View
          PROVE  Heard(v, events) = [v EXCEPT !.tasks = (v.tasks \cup {}) \ lost]
      <3>1. (v.tasks \cup {}) \ lost = v.tasks \ lost
        OBVIOUS
      <3>2. running \subseteq Tasks
        BY DEF ResourceInv, CoreTypeOK
      <3> HIDE DEF lost
      <3> QED BY <3>1, <3>2, HeardStoppedEvents DEF lost
    <2>2. Emit(events) /\ UNCHANGED <<loginUser, held, nextId, listeners, early>>
      BY <1>11 DEF StopTask
    <2>3. running' = (running \cup {}) \ lost /\ {} \subseteq Tasks \ running
      BY <1>11 DEF StopTask
    <2> HIDE DEF events, lost
    <2> QED BY <2>1, <2>2, <2>3, TaskViewInv
  <1>12. CASE UseDomains
    <2>1. CASE ~Fail
      <3>1. UNCHANGED <<loginUser, running, nextId, listeners, early, view>> /\ held' \subseteq held
        BY <1>12, <2>1 DEF UseDomains
      <3> QED BY <3>1, QuietViewInv
    <2> QED BY <1>1, <2>1
  <1> QED BY <1>1, <1>3, <1>4, <1>5, <1>6, <1>7, <1>8, <1>9, <1>10, <1>11, <1>12
          DEF Next, InitAgain, LoginRefused, LogoutNobody

\* ViewInv holds in every reachable state of the session.
THEOREM ViewInvariance == Spec => []ViewInv
  BY InitViewInv, NextViewInv, ResourceInvariance, PTL DEF Spec

\* The events the session emits are enough to follow it: no registered listener believes in
\* a task that stopped or a user who left, and one that was there from the start knows the
\* tasks, the user and the resources exactly, however its calls and errors were ordered.
THEOREM ListenersFollow == Spec => []ListenersInformed
<1>1. ViewInv => ListenersInformed
  BY DEF ViewInv
<1> QED BY <1>1, ViewInvariance, PTL

\* Every variable of the session stays in its domain.
THEOREM SessionTypes == Spec => []TypeOK
<1>1. ResourceInv /\ ViewInv => TypeOK
  BY DEF ResourceInv, ViewInv, TypeOK
<1> QED BY <1>1, ResourceInvariance, ViewInvariance, PTL

-----------------------------------------------------------------------------
(* The two bindings *)

\* Nothing but the destruction of the handle drops a resource of a binding's session, whose
\* adapters always return the resources they were asked for.
HandleInv ==
    /\ binding \in {"ffi", "wasm"} /\ handle \in {"open", "destroyed"}
    /\ binding = "wasm" => handle = "open"
    /\ handle = "open" => ResourceInv /\ dropped = {}
    /\ handle = "destroyed" /\ state # "LoggedIn" => live = {} /\ dropped = {}

BindingsInv == HandleInv /\ LastErrorIsCurrent /\ LoggedInUserConfirmed

LEMMA InitBindingsInv == BindingsInit => BindingsInv
  <1> SUFFICES ASSUME BindingsInit PROVE BindingsInv
    OBVIOUS
  <1>1. ResourceInv /\ dropped = {} /\ state = "Created"
    BY InitResourceInv DEF BindingsInit, Init
  <1>2. binding \in {"ffi", "wasm"} /\ handle = "open" /\ code = "OK" /\ lastError = FALSE
    BY DEF BindingsInit
  <1> QED BY <1>1, <1>2 DEF BindingsInv, HandleInv, LastErrorIsCurrent, LoggedInUserConfirmed

\* A call of the C ABI and a method of the wasm binding run at most one operation of the
\* session, and none that drops resources.
LEMMA SessionOps ==
  ASSUME BindingsNext, ~SessionDestroy
  PROVE  [Next]_vars /\ dropped' = dropped /\ UNCHANGED <<binding, handle>>
  <1>1. \A e \in {"LoggedOut", "Uninitialized"} : \A x : CleanUp(e, x) => dropped' = dropped
    BY DEF CleanUp
  <1>2. \A failing : CloseFails(failing) => dropped' = dropped
    BY DEF CloseFails
  <1>3. (Fail => dropped' = dropped) /\ (NoOp => dropped' = dropped)
    BY DEF Fail, NoOp
  <1>4. /\ InitSdk => dropped' = dropped
        /\ InitAgain => dropped' = dropped
        /\ LoginRefused => dropped' = dropped
        /\ LogoutNobody => dropped' = dropped
        /\ Logout => dropped' = dropped
        /\ Uninit => dropped' = dropped
        /\ RegisterListener => dropped' = dropped
        /\ \A user \in Users : Login(user) => dropped' = dropped
        /\ \A id \in ListenerIds : UnregisterListener(id) => dropped' = dropped
    BY <1>1, <1>2, <1>3
    DEF InitSdk, InitAgain, LoginRefused, LogoutNobody, Logout, Uninit, RegisterListener, Login,
        UnregisterListener
  <1>5. CASE FfiNext
    <2>1. ASSUME NEW user \in Users, SessionLogin(user) \/ SessionLoginFails(user)
          PROVE  (Login(user) \/ LoginRefused) /\ UNCHANGED <<binding, handle>>
      BY <2>1 DEF SessionLogin, SessionLoginFails, RunSessionOp, ffiVars
    <2>2. ASSUME NEW id \in ListenerIds, SessionUnregisterListener(id)
          PROVE  (UnregisterListener(id) \/ UNCHANGED vars) /\ UNCHANGED <<binding, handle>>
      BY <2>2 DEF SessionUnregisterListener, SetHandleError, RunSessionOp, ffiVars
    <2>3. ASSUME \/ SessionInit \/ SessionLoginBadArgs \/ SessionLoginRefused \/ SessionLogout
                 \/ SessionUninit \/ SessionRegisterListener
          PROVE  /\ \/ InitSdk \/ InitAgain \/ UNCHANGED vars \/ LoginRefused \/ LogoutNobody
                    \/ Logout \/ Uninit \/ RegisterListener
                 /\ UNCHANGED <<binding, handle>>
      BY <2>3 DEF SessionInit, SessionLoginBadArgs, SessionLoginRefused, SessionLogout, SessionUninit,
         SessionRegisterListener, SetHandleError, RunSessionOp, ffiVars
    <2>4. UNCHANGED vars => dropped' = dropped
      BY DEF vars
    <2> QED BY <1>4, <1>5, <2>1, <2>2, <2>3, <2>4 DEF FfiNext, Next
  <1>6. CASE WasmNext
    <2>1. ASSUME NEW user \in Users, WasmLogin(user)
          PROVE  (Login(user) \/ LoginRefused) /\ UNCHANGED <<binding, handle>>
      BY <2>1 DEF WasmLogin, WasmOp, wasmVars
    <2>2. ASSUME AddListener \/ \E id \in ListenerIds : RemoveListener(id)
          PROVE  UNCHANGED vars /\ UNCHANGED <<binding, handle>> /\ dropped' = dropped
      BY <2>2 DEF AddListener, RemoveListener, wasmVars, vars
    <2>3. ASSUME WasmInit \/ WasmLogout \/ WasmUninit
          PROVE  /\ InitSdk \/ InitAgain \/ LogoutNobody \/ Logout \/ Uninit
                 /\ UNCHANGED <<binding, handle>>
      BY <2>3 DEF WasmInit, WasmLogout, WasmUninit, WasmOp, wasmVars
    <2> QED BY <1>4, <1>6, <2>1, <2>2, <2>3 DEF WasmNext, Next
  <1> QED BY <1>5, <1>6 DEF BindingsNext

\* The binding and its handle.
LEMMA HandleStep == HandleInv /\ [BindingsNext]_allVars => HandleInv'
  <1> SUFFICES ASSUME HandleInv, [BindingsNext]_allVars PROVE HandleInv'
    OBVIOUS
  <1>1. CASE SessionDestroy
    <2>1. /\ handle' = "destroyed" /\ dropped' = dropped \cup held /\ live' = live /\ state' = state
          /\ ResourceInv /\ dropped = {} /\ binding = "ffi" /\ binding' = binding
      BY <1>1 DEF SessionDestroy, HandleInv, ffiVars
    <2>2. state # "LoggedIn" => held = {} /\ live = {}
      BY <2>1 DEF ResourceInv, CoreTypeOK, SessionCoherent, NoResourceEscapes
    <2> QED BY <2>1, <2>2 DEF HandleInv
  <1>2. CASE BindingsNext /\ ~SessionDestroy
    <2>1. handle = "open"
      BY <1>2 DEF BindingsNext, FfiNext, WasmNext, SessionInit, SessionLoginBadArgs, SessionLoginRefused,
         SessionLogin, SessionLoginFails, SessionLogout, SessionUninit, SessionRegisterListener,
         SessionUnregisterListener, RunSessionOp, SetHandleError, WasmInit, WasmLogin, WasmLogout,
         WasmUninit, AddListener, RemoveListener, WasmOp, HandleInv
    <2> QED BY <1>2, <2>1, SessionOps, NextResourceInv DEF HandleInv
  <1>3. CASE UNCHANGED allVars
    <2>1. UNCHANGED vars /\ UNCHANGED <<binding, handle>>
      BY <1>3 DEF allVars, bindingVars
    <2>2. UNCHANGED <<state, live, dropped>>
      BY <2>1 DEF vars
    <2> QED BY <2>1, <2>2, NextResourceInv DEF HandleInv
  <1> QED BY <1>1, <1>2, <1>3

\* What the last call left in code and lastError.
LEMMA LastErrorStep ==
  HandleInv /\ HandleInv' /\ LastErrorIsCurrent /\ [BindingsNext]_allVars => LastErrorIsCurrent'
  <1> SUFFICES ASSUME HandleInv', LastErrorIsCurrent, [BindingsNext]_allVars, handle' = "open"
               PROVE  lastError' <=> code' # "OK"
    BY DEF LastErrorIsCurrent
  <1> DEFINE Reported == lastError' = (result' = "Err") /\ code' = IF result' = "Ok" THEN "OK" ELSE "ERROR"
             Refused == lastError' = TRUE /\ code' # "OK"
             Same == UNCHANGED <<lastError, code, handle>>
  <1>1. result' \in {"Ok", "Err"}
    BY DEF HandleInv, ResourceInv, CoreTypeOK
  <1>2. Reported => (lastError' <=> code' # "OK")
    BY <1>1
  <1>3. Same => (lastError' <=> code' # "OK")
    BY DEF LastErrorIsCurrent
  <1>4. FfiNext => Reported \/ Refused
    <2>1. ~SessionDestroy
      BY DEF SessionDestroy
    <2>2. \A c \in CStrErrors : c # "OK"
      BY DEF CStrErrors
    <2>3. SessionLoginBadArgs => Refused
      BY <2>2 DEF SessionLoginBadArgs, SetHandleError
    <2>4. SessionInit \/ SessionLoginRefused \/ SessionLogout \/ SessionUninit => Reported
      BY DEF SessionInit, SessionLoginRefused, SessionLogout, SessionUninit, RunSessionOp
    <2>5. \A user \in Users : SessionLogin(user) \/ SessionLoginFails(user) => Reported
      BY DEF SessionLogin, SessionLoginFails, RunSessionOp
    <2>6. SessionRegisterListener \/ (\E id \in ListenerIds : SessionUnregisterListener(id))
             => Reported \/ Refused
      BY DEF SessionRegisterListener, SessionUnregisterListener, RunSessionOp, SetHandleError
    <2> HIDE DEF Reported, Refused
    <2> QED BY <2>1, <2>3, <2>4, <2>5, <2>6 DEF FfiNext
  <1>5. WasmNext => Same
    BY DEF WasmNext, WasmInit, WasmLogin, WasmLogout, WasmUninit, AddListener, RemoveListener, WasmOp,
           wasmVars
  <1>6. UNCHANGED allVars => Same
    BY DEF allVars, bindingVars
  <1> HIDE DEF Reported, Same
  <1> QED BY <1>2, <1>3, <1>4, <1>5, <1>6 DEF BindingsNext

\* Every operation but login leaves the login user alone, or nobody logged in.
LEMMA OnlyLoginLogsIn ==
  ASSUME \/ InitSdk \/ InitAgain \/ LoginRefused \/ LogoutNobody \/ Logout \/ Uninit \/ RegisterListener
         \/ (\E id \in ListenerIds : UnregisterListener(id)) \/ UNCHANGED vars
  PROVE  state' = "LoggedIn" => state = "LoggedIn" /\ loginUser' = loginUser
  <1>1. Fail \/ NoOp \/ UNCHANGED vars \/ (\E failing \in CloseFailures : CloseFails(failing))
        => UNCHANGED <<state, loginUser>>
    BY DEF Fail, NoOp, vars, CloseFails
  <1>2. \A e \in {"LoggedOut", "Uninitialized"} : \A x : CleanUp(e, x) => state' = e
    BY DEF CleanUp
  <1>3. CASE Logout \/ Uninit
    BY <1>1, <1>2, <1>3 DEF Logout, Uninit
  <1> QED BY <1>1, <1>3 DEF InitSdk, InitAgain, LoginRefused, LogoutNobody, RegisterListener,
        UnregisterListener

LEMMA ConfirmedStep ==
  HandleInv /\ LoggedInUserConfirmed /\ [BindingsNext]_allVars => LoggedInUserConfirmed'
  <1> SUFFICES ASSUME HandleInv, LoggedInUserConfirmed, [BindingsNext]_allVars,
                      binding' = "ffi", state' = "LoggedIn"
               PROVE  confirmed' = loginUser'
    BY DEF LoggedInUserConfirmed
  <1>1. ASSUME binding = "ffi", confirmed' = confirmed, state = "LoggedIn" /\ loginUser' = loginUser
        PROVE  confirmed' = loginUser'
    BY <1>1 DEF LoggedInUserConfirmed
  <1>2. ASSUME NEW user \in Users, SessionLogin(user)
        PROVE  confirmed' = loginUser'
    BY <1>2 DEF SessionLogin, HttpLoginValid, RunSessionOp, Login
  <1>3. ASSUME NEW user \in Users, SessionLoginFails(user)
        PROVE  FALSE
    BY <1>3 DEF SessionLoginFails, RunSessionOp, LoginRefused, Fail
  <1>4. ASSUME NEW id \in ListenerIds, SessionUnregisterListener(id)
        PROVE  /\ UnregisterListener(id) \/ UNCHANGED vars
               /\ confirmed' = confirmed /\ binding = "ffi"
    BY <1>4 DEF SessionUnregisterListener, SetHandleError, RunSessionOp
  <1>5. ASSUME \/ SessionInit \/ SessionLoginBadArgs \/ SessionLoginRefused \/ SessionLogout
               \/ SessionUninit \/ SessionRegisterListener
        PROVE  /\ \/ InitSdk \/ InitAgain \/ UNCHANGED vars \/ LoginRefused \/ LogoutNobody
                  \/ Logout \/ Uninit \/ RegisterListener
               /\ confirmed' = confirmed /\ binding = "ffi"
    BY <1>5 DEF SessionInit, SessionLoginBadArgs, SessionLoginRefused, SessionLogout, SessionUninit,
       SessionRegisterListener, SetHandleError, RunSessionOp
  <1>6. SessionDestroy \/ UNCHANGED allVars
        => UNCHANGED <<state, loginUser, confirmed, binding>>
    BY DEF SessionDestroy, allVars, bindingVars, vars, ffiVars
  <1>7. ~WasmNext
    BY DEF WasmNext, WasmInit, WasmLogin, WasmLogout, WasmUninit, AddListener, RemoveListener, WasmOp,
           wasmVars
  <1> QED BY <1>1, <1>2, <1>3, <1>4, <1>5, <1>6, <1>7, OnlyLoginLogsIn DEF BindingsNext, FfiNext

\* What the bindings keep, whichever of the two the application uses.
THEOREM BindingsInvariance == BindingsSpec => []BindingsInv
  <1>1. BindingsInv /\ [BindingsNext]_allVars => BindingsInv'
    BY HandleStep, LastErrorStep, ConfirmedStep DEF BindingsInv
  <1> QED BY <1>1, InitBindingsInv, PTL DEF BindingsSpec

\* The C functions' error text is empty exactly when the last call returned OK.
THEOREM LastErrorCurrent == BindingsSpec => []LastErrorIsCurrent
  <1>1. BindingsInv => LastErrorIsCurrent
    BY DEF BindingsInv
  <1> QED BY <1>1, BindingsInvariance, PTL

\* Through the C ABI only a user whose token the server has confirmed is logged in.
THEOREM OnlyConfirmedUsers == BindingsSpec => []LoggedInUserConfirmed
  <1>1. BindingsInv => LoggedInUserConfirmed
    BY DEF BindingsInv
  <1> QED BY <1>1, BindingsInvariance, PTL

\* A handle destroyed outside a login leaves nothing open.
THEOREM CleanDestruction == BindingsSpec => []DestroyedHandlesAreClean
  <1>1. BindingsInv => DestroyedHandlesAreClean
    BY DEF BindingsInv, HandleInv, DestroyedHandlesAreClean
  <1> QED BY <1>1, BindingsInvariance, PTL

\* The JavaScript callbacks.  In the wasm binding the tasks run exactly during a login, the
\* login is the only source of tasks, and a callback never added has heard nothing.
JsInv ==
    /\ jsNext \in 0..MaxListeners
    /\ jsListeners \subseteq 1..jsNext /\ jsEarly \subseteq 1..jsNext
    /\ jsView \in [ListenerIds -> View]
    /\ \A l \in ListenerIds : l > jsNext => jsView[l] = EmptyView
    /\ binding = "ffi" => jsListeners = {}
    /\ binding = "wasm" => running = IF loginUser = NoUser THEN {} ELSE LoginTasks
    /\ JsListenersInformed

\* A callback that believed v before the step and believes w after it was told enough.
Follows(v, w) ==
    /\ w \in View /\ w.tasks \subseteq running' /\ w.user \in {NoUser, loginUser'}
    /\ v.tasks = running /\ v.user = loginUser => w.tasks = running' /\ w.user = loginUser'

LEMMA InitJsInv == BindingsInit => JsInv
  <1> SUFFICES ASSUME BindingsInit PROVE JsInv
    OBVIOUS
  <1>1. EmptyView \in View
    BY DEF EmptyView, View
  <1>2. /\ jsView = [l \in ListenerIds |-> EmptyView] /\ jsListeners = {} /\ jsEarly = {} /\ jsNext = 0
        /\ running = {} /\ loginUser = NoUser
    BY DEF BindingsInit, Init
  <1>3. jsNext \in 0..MaxListeners
    BY <1>2, SessionConstants DEF SessionConstants
  <1> QED BY <1>1, <1>2, <1>3 DEF JsInv, JsListenersInformed

\* A method of the wasm binding that emits these events.
LEMMA JsStep ==
  ASSUME JsInv, NEW events, EmitWasm(jsListeners, events),
         UNCHANGED <<binding, jsNext, jsListeners, jsEarly>>,
         running' = IF loginUser' = NoUser THEN {} ELSE LoginTasks,
         \A v \in View : v.tasks \subseteq running /\ v.user \in {NoUser, loginUser}
                            => Follows(v, Heard(v, events))
  PROVE  JsInv'
  <1>1. jsView' = [l \in ListenerIds |-> IF l \in jsListeners THEN Heard(jsView[l], events) ELSE jsView[l]]
    BY DEF EmitWasm
  <1>2. jsListeners \subseteq ListenerIds /\ jsNext \in Nat /\ \A l \in jsListeners : ~(l > jsNext)
    BY SessionConstants DEF SessionConstants, JsInv, ListenerIds
  <1>3. ASSUME NEW l \in jsListeners PROVE Follows(jsView[l], jsView'[l])
    <2>1. jsView[l] \in View /\ jsView[l].tasks \subseteq running /\ jsView[l].user \in {NoUser, loginUser}
      BY <1>2 DEF JsInv, JsListenersInformed
    <2>2. jsView'[l] = Heard(jsView[l], events)
      BY <1>1, <1>2
    <2> QED BY <2>1, <2>2
  <1>4. \A l \in ListenerIds : l \notin jsListeners => jsView'[l] = jsView[l]
    BY <1>1
  <1>5. (jsView \in [ListenerIds -> View])'
    <2>1. \A l \in ListenerIds : jsView'[l] \in View
      BY <1>3, <1>4 DEF JsInv, Follows
    <2>2. jsView' = [l \in ListenerIds |-> jsView'[l]]
      BY <1>1
    <2> QED BY <2>1, <2>2
  <1>6. JsListenersInformed'
    BY <1>3 DEF JsInv, JsListenersInformed, Follows
  <1>7. \A l \in ListenerIds : l > jsNext' => jsView'[l] = EmptyView
    BY <1>2, <1>4 DEF JsInv
  <1> QED BY <1>5, <1>6, <1>7 DEF JsInv

\* The events of a method, heard by one callback.
LEMMA HeardTaskEvents ==
  ASSUME NEW v \in View, NEW type \in {"LoggedIn", "LoggedOut", "Uninitialized"},
         NEW x \in Users \cup {NoUser}
  PROVE  /\ Heard(v, TaskEvents("TaskStarted") \o <<Event(type, x)>>)
              = Hear([v EXCEPT !.tasks = v.tasks \cup LoginTasks], Event(type, x))
         /\ Heard(v, TaskEvents("TaskStopped") \o <<Event(type, x)>>)
              = Hear([v EXCEPT !.tasks = v.tasks \ LoginTasks], Event(type, x))
  <1>0. "transport" \in Tasks /\ "sync" \in Tasks
    BY DEF Tasks, LoginTasks
  <1>1. <<Event(type, x)>> \in Seq(SomeEvent)
    <2>1. x \in EventArg
      BY DEF EventArg
    <2>2. Event(type, x) \in SomeEvent
      BY <2>1 DEF SomeEvent, EventTypes
    <2> QED BY <2>2
  <1>2. ASSUME NEW kind \in {"TaskStarted", "TaskStopped"}, NEW a \in LoginTasks, NEW b \in LoginTasks
        PROVE  /\ <<Event(kind, a), Event(kind, b)>> \in Seq(SomeEvent)
               /\ Heard(v, <<Event(kind, a), Event(kind, b)>>) = Hear(Hear(v, Event(kind, a)), Event(kind, b))
    <2>1. a \in EventArg /\ b \in EventArg
      BY DEF EventArg, Tasks
    <2>2. Event(kind, a) \in SomeEvent /\ Event(kind, b) \in SomeEvent
      BY <2>1 DEF SomeEvent, EventTypes
    <2>3. <<Event(kind, a)>> \in Seq(SomeEvent) /\ <<Event(kind, b)>> \in Seq(SomeEvent)
      BY <2>2
    <2>4. <<Event(kind, a), Event(kind, b)>> = <<Event(kind, a)>> \o <<Event(kind, b)>>
      OBVIOUS
    <2>5. Heard(v, <<Event(kind, a)>> \o <<Event(kind, b)>>)
            = Heard(Heard(v, <<Event(kind, a)>>), <<Event(kind, b)>>)
      BY <2>3, HeardConcat
    <2>6. Heard(v, <<Event(kind, a)>>) = Hear(v, Event(kind, a))
      BY HeardOne
    <2>7. Heard(Hear(v, Event(kind, a)), <<Event(kind, b)>>) = Hear(Hear(v, Event(kind, a)), Event(kind, b))
      BY HeardOne
    <2>8. <<Event(kind, a), Event(kind, b)>> \in Seq(SomeEvent)
      BY <2>2
    <2> QED BY <2>4, <2>5, <2>6, <2>7, <2>8
  <1>3. ASSUME NEW kind \in {"TaskStarted", "TaskStopped"}
        PROVE  Heard(v, TaskEvents(kind) \o <<Event(type, x)>>) = Hear(Heard(v, TaskEvents(kind)), Event(type, x))
    <2>1. TaskEvents(kind) \in Seq(SomeEvent)
      BY <1>2 DEF TaskEvents, LoginTasks
    <2>2. Heard(v, TaskEvents(kind) \o <<Event(type, x)>>) = Heard(Heard(v, TaskEvents(kind)), <<Event(type, x)>>)
      BY <1>1, <2>1, HeardConcat
    <2>3. Heard(Heard(v, TaskEvents(kind)), <<Event(type, x)>>) = Hear(Heard(v, TaskEvents(kind)), Event(type, x))
      BY HeardOne
    <2> QED BY <2>2, <2>3
  <1>4. Heard(v, TaskEvents("TaskStarted")) = [v EXCEPT !.tasks = v.tasks \cup LoginTasks]
    <2>1. Heard(v, TaskEvents("TaskStarted"))
            = Hear(Hear(v, Event("TaskStarted", "transport")), Event("TaskStarted", "sync"))
      BY <1>2 DEF TaskEvents, LoginTasks
    <2> DEFINE u == [v EXCEPT !.tasks = v.tasks \cup {"transport"}]
    <2>2. Hear(v, Event("TaskStarted", "transport")) = u
      BY HearTask
    <2>3. u \in View /\ u.tasks = v.tasks \cup {"transport"}
      BY <1>0 DEF View
    <2>4. [u EXCEPT !.tasks = u.tasks \cup {"sync"}] = [v EXCEPT !.tasks = u.tasks \cup {"sync"}]
      BY DEF View
    <2> HIDE DEF u
    <2>5. Hear(u, Event("TaskStarted", "sync")) = [u EXCEPT !.tasks = u.tasks \cup {"sync"}]
      BY <2>3, HearTask
    <2>6. u.tasks \cup {"sync"} = v.tasks \cup LoginTasks
      BY <2>3 DEF LoginTasks
    <2> QED BY <2>1, <2>2, <2>4, <2>5, <2>6
  <1>5. Heard(v, TaskEvents("TaskStopped")) = [v EXCEPT !.tasks = v.tasks \ LoginTasks]
    <2>1. Heard(v, TaskEvents("TaskStopped"))
            = Hear(Hear(v, Event("TaskStopped", "sync")), Event("TaskStopped", "transport"))
      BY <1>2 DEF TaskEvents, LoginTasks
    <2> DEFINE u == [v EXCEPT !.tasks = v.tasks \ {"sync"}]
    <2>2. Hear(v, Event("TaskStopped", "sync")) = u
      BY HearTask
    <2>3. u \in View /\ u.tasks = v.tasks \ {"sync"}
      BY <1>0 DEF View
    <2>4. [u EXCEPT !.tasks = u.tasks \ {"transport"}] = [v EXCEPT !.tasks = u.tasks \ {"transport"}]
      BY DEF View
    <2> HIDE DEF u
    <2>5. Hear(u, Event("TaskStopped", "transport")) = [u EXCEPT !.tasks = u.tasks \ {"transport"}]
      BY <2>3, HearTask
    <2>6. u.tasks \ {"transport"} = v.tasks \ LoginTasks
      BY <2>3 DEF LoginTasks
    <2> QED BY <2>1, <2>2, <2>4, <2>5, <2>6
  <1> QED BY <1>3, <1>4, <1>5

\* Methods that leave the tasks and the user alone.
LEMMA JsIdle ==
  ASSUME JsInv, NEW events, EmitWasm(jsListeners, events), binding = "wasm",
         UNCHANGED <<binding, jsNext, jsListeners, jsEarly, running, loginUser>>,
         events = <<>> \/ events = <<Event("Initialized", NoUser)>>
  PROVE  JsInv'
  <1>1. ASSUME NEW v \in View PROVE Heard(v, events) = v
    BY HeardNothing, HeardOne, HearOther
  <1>2. \A v \in View : v.tasks \subseteq running /\ v.user \in {NoUser, loginUser}
                            => Follows(v, Heard(v, events))
    BY <1>1 DEF Follows
  <1>3. running' = IF loginUser' = NoUser THEN {} ELSE LoginTasks
    BY DEF JsInv
  <1> QED BY <1>2, <1>3, JsStep

LEMMA JsLogin ==
  ASSUME BindingsInv, JsInv, NEW user \in Users, WasmLogin(user)
  PROVE  JsInv'
  <1> DEFINE events == TaskEvents("TaskStarted") \o <<Event("LoggedIn", user)>>
  <1>1. /\ binding = "wasm" /\ UNCHANGED <<binding, jsNext, jsListeners, jsEarly>>
        /\ EmitWasm(jsListeners, IF result' = "Ok" THEN events ELSE <<>>)
        /\ LoginRefused \/ Login(user)
    BY DEF WasmLogin, WasmOp, wasmVars
  <1>2. CASE LoginRefused
    <2>1. result' = "Err" /\ UNCHANGED <<running, loginUser>>
      BY <1>2 DEF LoginRefused, Fail
    <2>2. EmitWasm(jsListeners, <<>>)
      BY <1>1, <2>1
    <2> QED BY <1>1, <2>1, <2>2, JsIdle
  <1>3. CASE Login(user)
    <2>1. loginUser = NoUser
      BY <1>1, <1>3 DEF Login, BindingsInv, HandleInv, ResourceInv, SessionCoherent
    <2>2. running = {} /\ running' = LoginTasks /\ loginUser' = user /\ user # NoUser /\ result' = "Ok"
      BY <1>1, <1>3, <2>1, SessionConstants DEF JsInv, Login, SessionConstants
    <2>3. EmitWasm(jsListeners, events)
      BY <1>1, <2>2
    <2>4. ASSUME NEW v \in View, v.tasks \subseteq running, v.user \in {NoUser, loginUser}
          PROVE  Follows(v, Heard(v, events))
      <3> DEFINE u == [v EXCEPT !.tasks = v.tasks \cup LoginTasks]
                 w == Heard(v, events)
      <3>1. w = Hear(u, Event("LoggedIn", user))
        BY HeardTaskEvents
      <3>2. u \in View /\ u.tasks = LoginTasks
        BY <2>2, <2>4 DEF View, Tasks
      <3> HIDE DEF u
      <3>3. w = [u EXCEPT !.user = user]
        BY <3>1, <3>2, HearUser
      <3> HIDE DEF w
      <3>4. w \in View /\ w.tasks = LoginTasks /\ w.user = user
        BY <3>2, <3>3 DEF View
      <3>5. Follows(v, w)
        BY <2>2, <3>4 DEF Follows
      <3> QED BY <3>5 DEF w
    <2> HIDE DEF events
    <2> QED BY <1>1, <2>2, <2>3, <2>4, JsStep
  <1> QED BY <1>1, <1>2, <1>3

\* WasmLogout and WasmUninit.
LEMMA JsCleanUp ==
  ASSUME JsInv, NEW next, NEW type \in {"LoggedOut", "Uninitialized"}, NEW x \in Users \cup {NoUser}, NEW e,
         CleanUp(next, e), binding = "wasm", UNCHANGED <<binding, jsNext, jsListeners, jsEarly>>,
         EmitWasm(jsListeners, (IF loginUser = NoUser THEN <<>> ELSE TaskEvents("TaskStopped"))
                               \o <<Event(type, x)>>)
  PROVE  JsInv'
  <1> DEFINE before == IF loginUser = NoUser THEN <<>> ELSE TaskEvents("TaskStopped")
             events == before \o <<Event(type, x)>>
  <1>1. running' = {} /\ loginUser' = NoUser
    BY DEF CleanUp, ForgetUser
  <1>2. running = IF loginUser = NoUser THEN {} ELSE LoginTasks
    BY DEF JsInv
  <1>3. ASSUME NEW v \in View, v.tasks \subseteq running, v.user \in {NoUser, loginUser}
        PROVE  Follows(v, Heard(v, events))
    <2> DEFINE w == Heard(v, events)
    <2>1. PICK u \in View : u.tasks = {} /\ w = Hear(u, Event(type, x))
      <3>1. CASE loginUser = NoUser
        <4>1. events = <<Event(type, x)>>
          BY <3>1
        <4>2. w = Hear(v, Event(type, x))
          BY <4>1, HeardOne
        <4>3. v.tasks = {}
          BY <1>2, <1>3, <3>1
        <4> QED BY <4>2, <4>3
      <3>2. CASE loginUser # NoUser
        <4> DEFINE u == [v EXCEPT !.tasks = v.tasks \ LoginTasks]
        <4>1. events = TaskEvents("TaskStopped") \o <<Event(type, x)>>
          BY <3>2
        <4>2. w = Hear(u, Event(type, x))
          <5>1. Heard(v, TaskEvents("TaskStopped") \o <<Event(type, x)>>) = Hear(u, Event(type, x))
            BY HeardTaskEvents
          <5> HIDE DEF events, u
          <5> QED BY <4>1, <5>1
        <4>3. u \in View /\ u.tasks = {}
          BY <1>2, <1>3, <3>2 DEF View
        <4> HIDE DEF u, w
        <4> QED BY <4>2, <4>3
      <3> QED BY <3>1, <3>2
    <2>2. w = [u EXCEPT !.user = NoUser]
      BY <2>1, HearUser
    <2> HIDE DEF w
    <2>3. w \in View /\ w.tasks = {} /\ w.user = NoUser
      BY <2>1, <2>2 DEF View
    <2>4. Follows(v, w)
      BY <1>1, <2>3 DEF Follows
    <2> QED BY <2>4 DEF w
  <1>4. EmitWasm(jsListeners, events)
    OBVIOUS
  <1> HIDE DEF events
  <1> QED BY <1>1, <1>3, <1>4, JsStep

LEMMA JsAdd ==
  ASSUME BindingsInv, JsInv, AddListener
  PROVE  JsInv'
  <1> DEFINE new == jsNext + 1
             events == <<Event("ListenerRegistered", new)>>
  <1>1. /\ jsNext' = new /\ jsListeners' = jsListeners \cup {new} /\ binding = "wasm" /\ jsNext < MaxListeners
        /\ jsEarly' = IF state = "Created" THEN jsEarly \cup {new} ELSE jsEarly
        /\ jsView' = [l \in ListenerIds |-> IF l \in jsListeners' THEN Heard(jsView[l], events) ELSE jsView[l]]
        /\ UNCHANGED <<binding, state, running, loginUser>>
    BY DEF AddListener, EmitWasm, vars, wasmVars
  <1>2. /\ jsNext \in Nat /\ new \in ListenerIds /\ jsListeners \subseteq 1..jsNext /\ jsEarly \subseteq 1..jsNext
        /\ jsNext' \in 0..MaxListeners
    BY <1>1, SessionConstants DEF SessionConstants, JsInv, ListenerIds
  <1>3. jsView' = jsView
    <2>1. ASSUME NEW v \in View PROVE Heard(v, events) = v
      <3>1. Heard(v, events) = Hear(v, Event("ListenerRegistered", new))
        BY HeardOne
      <3> QED BY <3>1, HearOther
    <2>2. jsView \in [ListenerIds -> View]
      BY DEF JsInv
    <2> HIDE DEF events
    <2> QED BY <1>1, <2>1, <2>2
  <1>4. jsView[new] = EmptyView /\ EmptyView.tasks = {} /\ EmptyView.user = NoUser
    <2>1. EmptyView.tasks = {} /\ EmptyView.user = NoUser
      BY DEF EmptyView
    <2>2. new > jsNext
      BY <1>2
    <2> QED BY <1>2, <2>1, <2>2 DEF JsInv
  <1>5. state = "Created" => loginUser = NoUser
    BY <1>1 DEF BindingsInv, HandleInv, ResourceInv, SessionCoherent
  <1>6. running = IF loginUser = NoUser THEN {} ELSE LoginTasks
    BY <1>1 DEF JsInv
  <1>7. new \notin jsEarly /\ new \notin jsListeners
    BY <1>2
  <1> HIDE DEF new
  <1>8. JsListenersInformed'
    <2>1. ASSUME NEW l \in jsListeners
          PROVE  /\ jsView'[l].tasks \subseteq running' /\ jsView'[l].user \in {NoUser, loginUser'}
                 /\ l \in jsEarly' => jsView'[l].tasks = running' /\ jsView'[l].user = loginUser'
      BY <1>1, <1>3, <1>7 DEF JsInv, JsListenersInformed
    <2>2. /\ jsView'[new].tasks \subseteq running' /\ jsView'[new].user \in {NoUser, loginUser'}
          /\ new \in jsEarly' => jsView'[new].tasks = running' /\ jsView'[new].user = loginUser'
      BY <1>1, <1>3, <1>4, <1>5, <1>6, <1>7
    <2> QED BY <1>1, <2>1, <2>2 DEF JsListenersInformed
  <1>9. jsListeners' \subseteq 1..jsNext' /\ jsEarly' \subseteq 1..jsNext'
    BY <1>1, <1>2 DEF new
  <1>10. \A l \in ListenerIds : l > jsNext' => jsView'[l] = EmptyView
    BY <1>1, <1>2, <1>3 DEF JsInv, ListenerIds, new
  <1> QED BY <1>1, <1>2, <1>3, <1>6, <1>8, <1>9, <1>10 DEF JsInv

LEMMA JsRemove ==
  ASSUME JsInv, NEW id \in ListenerIds, RemoveListener(id)
  PROVE  JsInv'
  <1> DEFINE events == <<Event("ListenerUnregistered", id)>>
  <1>1. /\ jsListeners' = jsListeners \ {id}
        /\ jsView' = [l \in ListenerIds |-> IF l \in jsListeners' THEN Heard(jsView[l], events) ELSE jsView[l]]
        /\ UNCHANGED <<binding, running, loginUser, jsNext, jsEarly>>
    BY DEF RemoveListener, EmitWasm, vars, wasmVars
  <1>2. ASSUME NEW v \in View
        PROVE  LET w == Heard(v, events) IN w \in View /\ w.tasks = v.tasks /\ w.user = v.user
    <2> DEFINE w == Heard(v, events)
    <2>1. w = Hear(v, Event("ListenerUnregistered", id))
      BY HeardOne
    <2>2. w = [v EXCEPT !.gone = v.gone \cup {id}]
      BY <2>1, HearOther
    <2> HIDE DEF w
    <2>3. w \in View /\ w.tasks = v.tasks /\ w.user = v.user
      BY <2>2 DEF View
    <2> QED BY <2>3 DEF w
  <1> HIDE DEF events
  <1>3. jsView \in [ListenerIds -> View] /\ jsListeners \subseteq 1..jsNext /\ jsNext \in Nat
    BY SessionConstants DEF SessionConstants, JsInv
  <1>4. \A l \in ListenerIds : /\ jsView'[l] \in View
                               /\ jsView'[l].tasks = jsView[l].tasks /\ jsView'[l].user = jsView[l].user
                               /\ l \notin jsListeners => jsView'[l] = jsView[l]
    BY <1>1, <1>2, <1>3
  <1>5. jsListeners \subseteq ListenerIds
    BY <1>3, SessionConstants DEF SessionConstants, JsInv, ListenerIds
  <1>6. JsListenersInformed'
    BY <1>1, <1>4, <1>5 DEF JsInv, JsListenersInformed
  <1>7. \A l \in ListenerIds : l > jsNext' => jsView'[l] = EmptyView
    <2>1. \A l \in jsListeners : ~(l > jsNext)
      BY <1>3
    <2> QED BY <1>1, <1>4, <2>1 DEF JsInv
  <1>8. (jsView \in [ListenerIds -> View])'
    BY <1>1, <1>4
  <1> QED BY <1>1, <1>6, <1>7, <1>8 DEF JsInv

LEMMA JsInvStep == BindingsInv /\ JsInv /\ [BindingsNext]_allVars => JsInv'
  <1> SUFFICES ASSUME BindingsInv, JsInv, [BindingsNext]_allVars PROVE JsInv'
    OBVIOUS
  <1>1. CASE WasmInit
    <2> DEFINE events == IF state \in {"Created", "Uninitialized"} THEN <<Event("Initialized", NoUser)>> ELSE <<>>
               told == IF result' = "Ok" THEN events ELSE <<>>
    <2>1. /\ binding = "wasm" /\ UNCHANGED <<binding, jsNext, jsListeners, jsEarly, running, loginUser>>
          /\ EmitWasm(jsListeners, told)
      BY <1>1 DEF WasmInit, WasmOp, InitSdk, InitAgain, Fail, NoOp, wasmVars
    <2>2. told = <<>> \/ told = <<Event("Initialized", NoUser)>>
      OBVIOUS
    <2> HIDE DEF told
    <2> QED BY <2>1, <2>2, JsIdle
  <1>2. ASSUME NEW user \in Users, WasmLogin(user) PROVE JsInv'
    BY <1>2, JsLogin
  <1>3. CASE WasmLogout
    <2> DEFINE events == IF loginUser = NoUser THEN <<>> ELSE TaskEvents("TaskStopped") \o <<Event("LoggedOut", loginUser)>>
    <2>1. /\ binding = "wasm" /\ UNCHANGED <<binding, jsNext, jsListeners, jsEarly>>
          /\ EmitWasm(jsListeners, IF result' = "Ok" THEN events ELSE <<>>)
          /\ LogoutNobody \/ (Logout /\ result' = "Ok")
      BY <1>3 DEF WasmLogout, WasmOp, wasmVars
    <2>2. CASE LogoutNobody
      <3>1. loginUser = NoUser /\ UNCHANGED <<running, loginUser>> /\ result' = "Ok"
        BY <2>2 DEF LogoutNobody, NoOp
      <3>2. EmitWasm(jsListeners, <<>>)
        BY <2>1, <3>1
      <3> QED BY <2>1, <3>1, <3>2, JsIdle
    <2>3. CASE Logout /\ result' = "Ok"
      <3>1. CleanUp("LoggedOut", Event("LoggedOut", loginUser)) /\ loginUser # NoUser
        BY <2>3 DEF Logout, Fail, CloseFails
      <3>2. loginUser \in Users \cup {NoUser}
        BY <2>1 DEF BindingsInv, HandleInv, ResourceInv, CoreTypeOK
      <3>3. EmitWasm(jsListeners, (IF loginUser = NoUser THEN <<>> ELSE TaskEvents("TaskStopped"))
                                  \o <<Event("LoggedOut", loginUser)>>)
        BY <2>1, <2>3, <3>1
      <3> QED BY <2>1, <3>1, <3>2, <3>3, JsCleanUp
    <2> QED BY <2>1, <2>2, <2>3
  <1>4. CASE WasmUninit
    <2>1. /\ binding = "wasm" /\ UNCHANGED <<binding, jsNext, jsListeners, jsEarly>>
          /\ EmitWasm(jsListeners, (IF loginUser = NoUser THEN <<>> ELSE TaskEvents("TaskStopped"))
                                   \o <<Event("Uninitialized", NoUser)>>)
          /\ CleanUp("Uninitialized", Event("Uninitialized", NoUser))
      BY <1>4 DEF WasmUninit, WasmOp, wasmVars, Uninit, Fail, CloseFails
    <2>2. NoUser \in Users \cup {NoUser}
      OBVIOUS
    <2> QED BY <2>1, <2>2, JsCleanUp
  <1>5. CASE AddListener
    BY <1>5, JsAdd
  <1>6. ASSUME NEW id \in ListenerIds, RemoveListener(id) PROVE JsInv'
    BY <1>6, JsRemove
  <1>7. CASE FfiNext \/ UNCHANGED allVars
    <2>1. CASE UNCHANGED allVars
      BY <2>1 DEF allVars, vars, bindingVars, JsInv, JsListenersInformed
    <2>2. CASE FfiNext
      <3>1. binding = "ffi" /\ UNCHANGED <<binding, jsNext, jsListeners, jsEarly, jsView>>
        BY <2>2 DEF FfiNext, SessionInit, SessionLoginBadArgs, SessionLoginRefused, SessionLogin, SessionLoginFails,
           SessionLogout, SessionUninit, SessionDestroy, SessionRegisterListener,
           SessionUnregisterListener, RunSessionOp, SetHandleError, ffiVars
      <3> QED BY <3>1 DEF JsInv, JsListenersInformed
    <2> QED BY <1>7, <2>1, <2>2
  <1> QED BY <1>1, <1>2, <1>3, <1>4, <1>5, <1>6, <1>7 DEF BindingsNext, WasmNext

\* The events the wasm binding composes by hand tell a JavaScript callback as much about
\* tasks and users as the session's own events tell a native listener.
THEOREM JsListenersFollow == BindingsSpec => []JsListenersInformed
  <1>1. JsInv => JsListenersInformed
    BY DEF JsInv
  <1> QED BY <1>1, InitJsInv, JsInvStep, BindingsInvariance, PTL DEF BindingsSpec

=============================================================================
