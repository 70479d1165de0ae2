---------------------------- MODULE DirectoryProofs ----------------------------
(***************************************************************************)
(* Theorems about the lists kept for the server, for any number of ids and *)
(* lists of any length: what a sync leaves in the map, what its summary    *)
(* counts, and which calls touch which rows.                               *)
(***************************************************************************)
EXTENDS Directory, FiniteSetTheorems, FunctionTheorems, SequenceTheorems, WellFoundedInduction, TLAPS

-----------------------------------------------------------------------------
(* Numbers *)

LEMMA LeastNumber ==
  ASSUME NEW T \in SUBSET Nat, T # {}
  PROVE  \E n \in T : \A m \in T : n <= m
  <1> DEFINE R == OpToRel(<, Nat)
  <1>1. IsWellFoundedOn(R, Nat)
    BY NatLessThanWellFounded
  <1>2. ASSUME NEW m \in Nat, NEW n \in Nat, m < n PROVE <<m, n>> \in R
    BY <1>2 DEF OpToRel
  <1> HIDE DEF R
  <1>3. PICK n \in T : \A m \in T : <<m, n>> \notin R
    BY <1>1, WFMin
  <1>4. ASSUME NEW m \in T PROVE n <= m
    <2>1. ~(m < n)
      BY <1>2, <1>3
    <2> QED BY <2>1
  <1> QED BY <1>4

\* Induction up to n, on the set of the numbers a statement holds for.
LEMMA Induct ==
  ASSUME NEW n \in Nat, NEW T, 0 \in T, \A i \in 0..(n - 1) : i \in T => i + 1 \in T
  PROVE  n \in T
  <1> DEFINE Bad == { i \in 0..n : i \notin T }
  <1> SUFFICES ASSUME n \notin T PROVE FALSE
    OBVIOUS
  <1>0. n \in Bad
    OBVIOUS
  <1>1. PICK m \in Bad : \A i \in Bad : m <= i
    <2>1. Bad \in SUBSET Nat
      OBVIOUS
    <2> HIDE DEF Bad
    <2> QED BY <1>0, <2>1, LeastNumber
  <1>2. m # 0 /\ m - 1 \in 0..(n - 1) /\ m - 1 \notin Bad
    BY <1>1
  <1>3. m - 1 \in T /\ (m - 1) + 1 = m
    BY <1>2
  <1> QED BY <1>1, <1>2, <1>3

\* A set of numbers below a bound has a largest one.
LEMMA LargestNumber ==
  ASSUME NEW n \in Nat, NEW T \in SUBSET (1..n), T # {}
  PROVE  Max(T) \in T /\ \A m \in T : m <= Max(T)
  <1> DEFINE D == { n - m : m \in T }
  <1>1. PICK d \in D : \A e \in D : d <= e
    <2>1. \A m \in T : n - m \in Nat /\ n - m \in D
      OBVIOUS
    <2>2. D \in SUBSET Nat /\ D # {}
      BY <2>1
    <2> HIDE DEF D
    <2> QED BY <2>2, LeastNumber
  <1>2. PICK x \in T : d = n - x
    BY <1>1
  <1>3. \A m \in T : x >= m
    <2> SUFFICES ASSUME NEW m \in T PROVE x >= m
      OBVIOUS
    <2>1. n - x <= n - m
      BY <1>1, <1>2
    <2> QED BY <2>1
  <1>4. Max(T) \in T /\ \A m \in T : Max(T) >= m
    BY <1>3 DEF Max
  <1> QED BY <1>4

\* A finite set of numbers has its ascending enumeration.
LEMMA AscendingExists ==
  ASSUME NEW n \in Nat
  PROVE  \A S \in SUBSET Nat : IsFiniteSet(S) /\ Cardinality(S) = n =>
            \E order \in [1..n -> S] : \A i, j \in 1..n : i < j => order[i] < order[j]
  <1> DEFINE Ordered(S, k) == \E order \in [1..k -> S] : \A i, j \in 1..k : i < j => order[i] < order[j]
             T == { k \in Nat : \A S \in SUBSET Nat : IsFiniteSet(S) /\ Cardinality(S) = k => Ordered(S, k) }
  <1>1. 0 \in T
    <2> SUFFICES ASSUME NEW S \in SUBSET Nat PROVE Ordered(S, 0)
      OBVIOUS
    <2>1. <<>> \in [1..0 -> S] /\ 1..0 = {}
      OBVIOUS
    <2>2. \A i, j \in 1..0 : i < j => <<>>[i] < <<>>[j]
      BY <2>1
    <2> QED BY <2>1, <2>2
  <1>2. ASSUME NEW k \in 0..(n - 1), k \in T PROVE k + 1 \in T
    <2> SUFFICES ASSUME NEW S \in SUBSET Nat, IsFiniteSet(S), Cardinality(S) = k + 1
                 PROVE  Ordered(S, k + 1)
      OBVIOUS
    <2>1. PICK first \in S : \A x \in S : first <= x
      <3>1. S # {}
        BY FS_EmptySet
      <3> QED BY <3>1, LeastNumber
    <2> DEFINE rest == S \ {first}
    <2>2. rest \in SUBSET Nat /\ IsFiniteSet(rest) /\ Cardinality(rest) = k
      BY FS_RemoveElement
    <2>3. PICK order \in [1..k -> rest] : \A i, j \in 1..k : i < j => order[i] < order[j]
      BY <1>2, <2>2
    <2> DEFINE longer == [i \in 1..(k + 1) |-> IF i = 1 THEN first ELSE order[i - 1]]
    <2>4. longer \in [1..(k + 1) -> S]
      BY <2>3
    <2>5. ASSUME NEW i \in 1..(k + 1), NEW j \in 1..(k + 1), i < j
          PROVE  longer[i] < longer[j]
      <3>1. j - 1 \in 1..k /\ longer[j] = order[j - 1] /\ order[j - 1] \in rest
        BY <2>3, <2>5
      <3>2. CASE i = 1
        <4>1. order[j - 1] \in Nat /\ first \in Nat /\ order[j - 1] # first /\ first <= order[j - 1]
          BY <2>1, <3>1
        <4>2. first < order[j - 1]
          BY <4>1
        <4> QED BY <3>1, <3>2, <4>2
      <3>3. CASE i # 1
        <4>1. i - 1 \in 1..k /\ i - 1 < j - 1 /\ longer[i] = order[i - 1]
          BY <2>5, <3>3
        <4> QED BY <2>3, <3>1, <4>1
      <3> QED BY <3>2, <3>3
    <2> HIDE DEF longer
    <2> QED BY <2>4, <2>5
  <1>3. n \in T
    <2> HIDE DEF T
    <2> QED BY <1>1, <1>2, Induct
  <1> QED BY <1>3

LEMMA AscendingOrder ==
  ASSUME NEW S \in SUBSET Nat, IsFiniteSet(S), NEW n, n = Cardinality(S), NEW order, order = Ascending(S)
  PROVE  /\ n \in Nat /\ order \in [1..n -> S]
         /\ \A i, j \in 1..n : order[i] = order[j] => i = j
         /\ \A x \in S : \E i \in 1..n : order[i] = x
  <1> DEFINE Up(o) == \A i, j \in DOMAIN o : i < j => o[i] < o[j]
  <1>1. n \in Nat
    BY FS_CardinalityType
  <1>2. \E o \in [1..n -> S] : Up(o)
    BY <1>1, AscendingExists
  <1>3. order = CHOOSE o \in [1..n -> S] : Up(o)
    BY DEF Ascending
  <1>4. order \in [1..n -> S] /\ Up(order)
    <2> HIDE DEF Up
    <2> QED BY <1>2, <1>3
  <1>5. ASSUME NEW i \in 1..n, NEW j \in 1..n, order[i] = order[j] PROVE i = j
    <2>1. order[i] \in Nat /\ i \in Nat /\ j \in Nat /\ DOMAIN order = 1..n
      <3>1. order \in [1..n -> S]
        BY <1>4
      <3>2. order[i] \in S
        BY <3>1
      <3>3. order[i] \in Nat
        BY <3>2
      <3>4. i \in Nat /\ j \in Nat
        BY <1>1
      <3> QED BY <3>1, <3>3, <3>4
    <2>2. ~(order[i] < order[i])
      BY <2>1
    <2>3. ~(i < j) /\ ~(j < i)
      BY <1>4, <1>5, <2>1, <2>2
    <2> QED BY <2>1, <2>3
  <1>6. order \in Injection(1..n, S)
    <2> HIDE DEF Up
    <2> QED BY <1>4, <1>5 DEF Injection, IsInjective
  <1>7. IsFiniteSet(1..n) /\ Cardinality(1..n) = n
    BY <1>1, FS_Interval
  <1>8. order \in Surjection(1..n, S)
    BY <1>6, <1>7, FS_Injection
  <1> QED BY <1>1, <1>4, <1>5, <1>8 DEF Surjection

LEMMA NumbersUpTo ==
  ASSUME NEW n \in Nat
  PROVE  IsFiniteSet(1..n) /\ Cardinality(1..n) = n
  <1>1. 1 \in Int /\ n \in Int /\ (IF 1 > n THEN 0 ELSE n - 1 + 1) = n
    OBVIOUS
  <1> QED BY <1>1, FS_Interval

LEMMA SomeUpTo ==
  ASSUME NEW n \in Nat, NEW S, S \subseteq 1..n
  PROVE  IsFiniteSet(S) /\ Cardinality(S) \in Nat
  <1>1. IsFiniteSet(S)
    BY NumbersUpTo, FS_Subset
  <1> QED BY <1>1, FS_CardinalityType

LEMMA FiniteIds == IsFiniteSet(Ids) /\ Ids \subseteq Nat
  BY DirectoryConstants, NumbersUpTo DEF DirectoryConstants, Ids

-----------------------------------------------------------------------------
(* Lists and plans *)

Items(scope) == [scope : {scope}, id : Ids, val : Val]
Maps(scopes) == [scopes \X Ids -> Val \cup {None}]

\* Some items, each key once: the local side of a plan.
Local(map, scope, local) ==
    LET ids == {id \in Ids : map[<<scope, id>>] # None}
    IN  /\ local \in Seq(Items(scope)) /\ Len(local) = Cardinality(ids)
        /\ \A i \in 1..Len(local) : local[i].id \in ids /\ local[i].val = map[<<scope, local[i].id>>]
        /\ \A i, j \in 1..Len(local) : local[i].id = local[j].id => i = j
        /\ \A id \in ids : \E i \in 1..Len(local) : local[i].id = id

\* all_friends and its like: every row of the scope, once.
LEMMA ItemsOfScope ==
  ASSUME NEW scopes, NEW map \in Maps(scopes), NEW scope \in scopes, NEW local, local = ItemsOf(map, scope)
  PROVE  Local(map, scope, local)
  <1> DEFINE ids == {id \in Ids : map[<<scope, id>>] # None}
             sorted == Ascending(ids)
             n == Cardinality(ids)
  <1>1. {k[2] : k \in {k \in DOMAIN map : k[1] = scope /\ map[k] # None}} = ids
    <2>1. DOMAIN map = scopes \X Ids
      BY DEF Maps
    <2>2. ASSUME NEW x \in ids PROVE x \in {k[2] : k \in {k \in DOMAIN map : k[1] = scope /\ map[k] # None}}
      <3>1. <<scope, x>> \in {k \in DOMAIN map : k[1] = scope /\ map[k] # None} /\ <<scope, x>>[2] = x
        BY <2>1
      <3> QED BY <3>1
    <2>3. ASSUME NEW k \in DOMAIN map, k[1] = scope, map[k] # None PROVE k[2] \in ids
      <3>1. k = <<scope, k[2]>> /\ k[2] \in Ids
        BY <2>1, <2>3
      <3> QED BY <2>3, <3>1
    <2> HIDE DEF ids
    <2> QED BY <2>2, <2>3
  <1>2. local = [i \in DOMAIN sorted |-> [scope |-> scope, id |-> sorted[i], val |-> map[<<scope, sorted[i]>>]]]
    BY <1>1 DEF ItemsOf
  <1>3. ids \in SUBSET Nat /\ IsFiniteSet(ids)
    <2>1. IsFiniteSet(Ids) /\ Ids \subseteq Nat
      BY DirectoryConstants, FS_Interval DEF DirectoryConstants, Ids
    <2> QED BY <2>1, FS_Subset
  <1>4. /\ n \in Nat /\ sorted \in [1..n -> ids]
        /\ \A i, j \in 1..n : sorted[i] = sorted[j] => i = j
        /\ \A x \in ids : \E i \in 1..n : sorted[i] = x
    <2> HIDE DEF ids, sorted, n
    <2>1. sorted = Ascending(ids) /\ n = Cardinality(ids)
      BY DEF sorted, n
    <2> QED BY <1>3, <2>1, AscendingOrder
  <1>5. \A id \in ids : id \in Ids /\ map[<<scope, id>>] \in Val
    BY DEF Maps
  <1> HIDE DEF sorted, n
  <1>6. ASSUME NEW i \in 1..n
        PROVE  local[i] \in Items(scope) /\ local[i].id = sorted[i] /\ local[i].val = map[<<scope, sorted[i]>>]
    <2>1. local[i] = [scope |-> scope, id |-> sorted[i], val |-> map[<<scope, sorted[i]>>]] /\ sorted[i] \in ids
      BY <1>2, <1>4
    <2> QED BY <1>5, <2>1 DEF Items
  <1>7. local \in Seq(Items(scope)) /\ Len(local) = n
    <2> DEFINE items == Items(scope)
    <2>1. DOMAIN local = 1..n /\ local = [i \in 1..n |-> local[i]]
      BY <1>2, <1>4
    <2>2. \A i \in 1..n : local[i] \in items
      BY <1>6
    <2> HIDE DEF items
    <2>3. local \in [1..n -> items]
      BY <2>1, <2>2
    <2>4. local \in Seq(items) /\ Len(local) = n
      BY <1>4, <2>3
    <2> QED BY <2>4 DEF items
  <1>8. \A i \in 1..n : sorted[i] \in ids
    BY <1>4
  <1>9. \A i \in 1..n : local[i].id \in ids /\ local[i].val = map[<<scope, local[i].id>>]
    <2> HIDE DEF ids
    <2> QED BY <1>6, <1>8
  <1>10. \A i, j \in 1..n : local[i].id = local[j].id => i = j
    <2>1. \A i \in 1..n : local[i].id = sorted[i]
      BY <1>6
    <2> QED BY <1>4, <2>1
  <1>11. \A id \in ids : \E i \in 1..n : local[i].id = id
    <2>1. \A i \in 1..n : local[i].id = sorted[i]
      BY <1>6
    <2> HIDE DEF ids
    <2> QED BY <1>4, <2>1
  <1> HIDE DEF ids
  <1> QED BY <1>7, <1>9, <1>10, <1>11 DEF Local, ids, n

LEMMA ConcatShape ==
  ASSUME NEW A, NEW a \in Seq(A), NEW b \in Seq(A), NEW n, n = Len(a), NEW d, d = Len(b)
  PROVE  /\ DOMAIN (a \o b) = 1..Len(a \o b) /\ Len(a \o b) = n + d
         /\ \A i \in 1..n : (a \o b)[i] = a[i]
         /\ \A i \in (n + 1)..(n + d) : (a \o b)[i] = b[i - n]
  OBVIOUS

\* What diff_by plans: an action for every item of the server, then a deletion for every local
\* item the server does not name.
Plans(list, local, plan) ==
    LET known == {local[i].id : i \in 1..Len(local)}
        named == {list[i].id : i \in 1..Len(list)}
        gone == {j \in 1..Len(local) : local[j].id \notin named}
    IN  /\ DOMAIN plan = 1..Len(plan) /\ Len(plan) = Len(list) + Cardinality(gone)
        /\ \A i \in 1..Len(list) :
              /\ plan[i].item = list[i] /\ plan[i].state \in {"Insert", "Update", "Unchanged"}
              /\ plan[i].state = "Insert" <=> list[i].id \notin known
              /\ plan[i].state = "Unchanged" => \E j \in 1..Len(local) : local[j] = list[i]
        /\ \A i \in (Len(list) + 1)..Len(plan) :
              /\ plan[i].state = "Delete"
              /\ \E j \in gone : plan[i].item = local[j]
        /\ \A j \in gone : \E i \in (Len(list) + 1)..Len(plan) : plan[i].item = local[j]

LEMMA DiffPlans ==
  ASSUME NEW scope, NEW map, NEW list \in Seq(Items(scope)), NEW local, Local(map, scope, local),
         NEW plan, plan = DiffBy(list, local, DefaultOptions)
  PROVE  Plans(list, local, plan)
  <1> DEFINE n == Len(list)
             m == Len(local)
             known == {local[i].id : i \in 1..m}
             named == {list[i].id : i \in 1..n}
             gone == {j \in 1..m : local[j].id \notin named}
             index(id) == Max({i \in 1..m : local[i].id = id})
             state(item) == IF item.id \notin known THEN "Insert"
                            ELSE IF item = local[index(item.id)] THEN "Unchanged"
                            ELSE "Update"
             matched == [i \in 1..n |-> [state |-> state(list[i]), item |-> list[i]]]
             unmatched == [i \in 1..m |-> [state |-> "Delete", item |-> local[i]]]
             order == Ascending(gone)
             deleted == [i \in 1..Cardinality(gone) |-> unmatched[order[i]]]
  <1>1. n \in Nat /\ m \in Nat /\ DOMAIN list = 1..n /\ DOMAIN local = 1..m
    BY DEF Local
  <1>2. {j \in 1..m : local[j].id \notin (named \cap known)} = gone
    OBVIOUS
  <1>3. plan = matched \o deleted
    <2>1. plan = matched \o Kept(unmatched, {j \in 1..m : local[j].id \notin (named \cap known)})
      BY <1>1 DEF DiffBy, DefaultOptions
    <2> HIDE DEF named, known, matched, unmatched
    <2> QED BY <1>2, <2>1 DEF Kept
  <1>4. /\ Cardinality(gone) \in Nat /\ order \in [1..Cardinality(gone) -> gone]
        /\ \A j \in gone : \E i \in 1..Cardinality(gone) : order[i] = j
    <2>1. gone \in SUBSET Nat /\ IsFiniteSet(gone)
      <3>1. IsFiniteSet(1..m) /\ gone \in SUBSET (1..m)
        BY <1>1, FS_Interval
      <3> QED BY <3>1, FS_Subset
    <2> HIDE DEF gone, order
    <2>2. order = Ascending(gone)
      BY DEF order
    <2> QED BY <2>1, <2>2, AscendingOrder
  <1> DEFINE d == Cardinality(gone)
  <1>5. d \in Nat
    BY <1>4
  <1>6. /\ DOMAIN plan = 1..Len(plan) /\ Len(plan) = n + d
        /\ \A i \in 1..n : plan[i] = matched[i]
        /\ \A i \in (n + 1)..(n + d) : plan[i] = deleted[i - n]
    <2> DEFINE Act == {matched[i] : i \in 1..n} \cup {deleted[i] : i \in 1..d}
    <2>1. matched \in [1..n -> Act] /\ deleted \in [1..d -> Act]
      OBVIOUS
    <2> HIDE DEF matched, deleted, n, d, Act
    <2>2. matched \in Seq(Act) /\ Len(matched) = n /\ deleted \in Seq(Act) /\ Len(deleted) = d
      BY <1>1, <1>5, <2>1
    <2>3. /\ DOMAIN (matched \o deleted) = 1..Len(matched \o deleted)
          /\ Len(matched \o deleted) = n + d
          /\ \A i \in 1..n : (matched \o deleted)[i] = matched[i]
          /\ \A i \in (n + 1)..(n + d) : (matched \o deleted)[i] = deleted[i - n]
      BY <2>2, ConcatShape
    <2> QED BY <1>3, <2>3
  <1>7. ASSUME NEW i \in 1..n
        PROVE  /\ plan[i].item = list[i] /\ plan[i].state \in {"Insert", "Update", "Unchanged"}
               /\ plan[i].state = "Insert" <=> list[i].id \notin known
               /\ plan[i].state = "Unchanged" => \E j \in 1..m : local[j] = list[i]
    <2>1. plan[i].item = list[i] /\ plan[i].state = state(list[i])
      <3>1. plan[i] = matched[i]
        <4> HIDE DEF matched
        <4> QED BY <1>6
      <3> HIDE DEF state
      <3> QED BY <3>1
    <2>2. ASSUME list[i].id \in known PROVE index(list[i].id) \in 1..m
      <3> DEFINE at == {k \in 1..m : local[k].id = list[i].id}
      <3>1. at \in SUBSET (1..m) /\ at # {}
        BY <2>2
      <3>2. Max(at) \in at
        <4> HIDE DEF at
        <4> QED BY <1>1, <3>1, LargestNumber
      <3> QED BY <3>2
    <2> HIDE DEF index, known
    <2> QED BY <2>1, <2>2
  <1>8. ASSUME NEW i \in (n + 1)..(n + d)
        PROVE  plan[i].state = "Delete" /\ plan[i].item = local[order[i - n]] /\ order[i - n] \in gone
    <2>1. i - n \in 1..d
      <3> HIDE DEF n, d
      <3> QED BY <1>1, <1>5
    <2>2. plan[i] = deleted[i - n] /\ order[i - n] \in gone
      <3> HIDE DEF gone, deleted, order
      <3> QED BY <1>4, <1>6, <2>1
    <2>3. deleted[i - n] = unmatched[order[i - n]]
      <3> HIDE DEF unmatched, order, gone
      <3> QED BY <2>1
    <2>4. order[i - n] \in 1..m
      BY <2>2
    <2>5. unmatched[order[i - n]] = [state |-> "Delete", item |-> local[order[i - n]]]
      <3> HIDE DEF order
      <3> QED BY <2>4
    <2> HIDE DEF unmatched, order, gone, deleted
    <2> QED BY <2>2, <2>3, <2>5
  <1>9. ASSUME NEW j \in gone PROVE \E i \in (n + 1)..(n + d) : plan[i].item = local[j]
    <2>1. PICK k \in 1..d : order[k] = j
      BY <1>4
    <2>2. n + k \in (n + 1)..(n + d) /\ (n + k) - n = k
      BY <1>1, <1>5
    <2> HIDE DEF order, gone, n, d
    <2> QED BY <1>8, <2>1, <2>2
  <1>10. \A i \in (n + 1)..(n + d) : plan[i].state = "Delete" /\ \E j \in gone : plan[i].item = local[j]
    <2> HIDE DEF gone, order, n, d
    <2> QED BY <1>8
  <1> HIDE DEF order, matched, unmatched, deleted
  <1>11. Plans(list, local, plan) <=>
           /\ DOMAIN plan = 1..Len(plan) /\ Len(plan) = n + d
           /\ \A i \in 1..n :
                 /\ plan[i].item = list[i] /\ plan[i].state \in {"Insert", "Update", "Unchanged"}
                 /\ plan[i].state = "Insert" <=> list[i].id \notin known
                 /\ plan[i].state = "Unchanged" => \E j \in 1..m : local[j] = list[i]
           /\ \A i \in (n + 1)..Len(plan) :
                 /\ plan[i].state = "Delete"
                 /\ \E j \in gone : plan[i].item = local[j]
           /\ \A j \in gone : \E i \in (n + 1)..Len(plan) : plan[i].item = local[j]
    BY DEF Plans
  <1> HIDE DEF n, m, d, known, gone
  <1> QED BY <1>6, <1>7, <1>9, <1>10, <1>11

\* The ids of the scope are those of the list, each with a value listed for it.
Mirrors(map, scope, list) ==
    \A id \in Ids :
        LET listed == {list[i].val : i \in {j \in DOMAIN list : list[j].id = id}}
        IN  IF listed = {} THEN map[<<scope, id>>] = None ELSE map[<<scope, id>>] \in listed

\* A sync leaves the scope with the server's list and every other scope alone.
LEMMA SyncedScope ==
  ASSUME NEW scopes, NEW map \in Maps(scopes), NEW scope \in scopes, NEW list \in Seq(Items(scope)),
         NEW plan, plan = DiffBy(list, ItemsOf(map, scope), DefaultOptions),
         NEW after, after = ApplyPlan(map, plan)
  PROVE  /\ after \in Maps(scopes)
         /\ \A k \in scopes \X Ids : k[1] # scope => after[k] = map[k]
         /\ Mirrors(after, scope, list)
  <1> DEFINE n == Len(list)
             named == {list[i].id : i \in 1..n}
             at(k) == {i \in 1..Len(plan) : plan[i].state # "Unchanged" /\ Key(plan[i].item) = k}
  <1>1. PICK local : Local(map, scope, local) /\ local = ItemsOf(map, scope)
    BY ItemsOfScope
  <1>2. Plans(list, local, plan)
    BY <1>1, DiffPlans
  <1>3. /\ n \in Nat /\ Len(plan) \in Nat /\ n <= Len(plan) /\ DOMAIN plan = 1..Len(plan)
        /\ \A i \in 1..n : list[i] \in Items(scope)
        /\ \A j \in 1..Len(local) : local[j] \in Items(scope)
    <2> DEFINE lost == {j \in 1..Len(local) : local[j].id \notin named}
    <2>1. lost \in SUBSET (1..Len(local)) /\ Len(local) \in Nat /\ n \in Nat
      BY <1>1 DEF Local
    <2>2. Len(plan) = n + Cardinality(lost) /\ DOMAIN plan = 1..Len(plan)
      BY <1>2 DEF Plans
    <2>3. \A j \in 1..Len(local) : local[j] \in Items(scope)
      BY <1>1 DEF Local
    <2>4. \A i \in 1..n : list[i] \in Items(scope)
      OBVIOUS
    <2> HIDE DEF lost, n
    <2>6. Cardinality(lost) \in Nat
      BY <2>1, SomeUpTo
    <2> QED BY <2>1, <2>2, <2>3, <2>4, <2>6
  <1>4. ASSUME NEW i \in 1..Len(plan)
        PROVE  /\ Key(plan[i].item) = <<scope, plan[i].item.id>> /\ plan[i].item \in Items(scope)
               /\ i \in 1..n => plan[i].item = list[i] /\ plan[i].state # "Delete"
               /\ i \notin 1..n => plan[i].item.id \notin named /\ plan[i].state = "Delete"
    <2>1. CASE i \in 1..n
      <3>1. plan[i].item = list[i] /\ plan[i].state # "Delete"
        BY <1>2, <2>1 DEF Plans
      <3> QED BY <1>3, <2>1, <3>1 DEF Key, Items
    <2>2. CASE i \notin 1..n
      <3>1. i \in (n + 1)..Len(plan)
        BY <1>3, <2>2
      <3>2. plan[i].state = "Delete"
            /\ \E j \in {j \in 1..Len(local) : local[j].id \notin named} : plan[i].item = local[j]
        BY <1>2, <3>1 DEF Plans
      <3> QED BY <1>3, <2>2, <3>2 DEF Key, Items
    <2> QED BY <2>1, <2>2
  <1>5. /\ DOMAIN after = scopes \X Ids
        /\ \A k \in scopes \X Ids : after[k] = IF at(k) = {} THEN map[k]
                                             ELSE IF plan[Max(at(k))].state = "Delete" THEN None
                                             ELSE plan[Max(at(k))].item.val
    <2>1. DOMAIN map = scopes \X Ids
      BY DEF Maps
    <2> QED BY <1>3, <2>1 DEF ApplyPlan
  <1>6. ASSUME NEW k, at(k) # {} PROVE Max(at(k)) \in at(k)
    <2>1. at(k) \in SUBSET (1..Len(plan))
      OBVIOUS
    <2> HIDE DEF at
    <2> QED BY <1>3, <1>6, <2>1, LargestNumber
  <1>7. ASSUME NEW k \in scopes \X Ids, k[1] # scope PROVE after[k] = map[k]
    <2>1. at(k) = {}
      BY <1>4, <1>7
    <2> HIDE DEF at
    <2> QED BY <1>5, <2>1
  <1>8. ASSUME NEW id \in Ids, NEW listed, listed = {list[i].val : i \in {j \in 1..n : list[j].id = id}}
        PROVE  IF listed = {} THEN after[<<scope, id>>] = None ELSE after[<<scope, id>>] \in listed
    <2> DEFINE k == <<scope, id>>
    <2>1. k \in scopes \X Ids
      OBVIOUS
    <2>2. listed = {} <=> id \notin named
      BY <1>8
    <2>3. CASE at(k) # {}
      <3> DEFINE i == Max(at(k))
      <3>1. i \in 1..Len(plan) /\ plan[i].state # "Unchanged" /\ Key(plan[i].item) = k
        BY <1>6, <2>3
      <3>2. after[k] = IF plan[i].state = "Delete" THEN None ELSE plan[i].item.val
        <4> HIDE DEF at, k
        <4> QED BY <1>5, <2>1, <2>3
      <3> HIDE DEF i
      <3>3. plan[i].item.id = id
        BY <1>4, <3>1
      <3>4. CASE i \in 1..n
        <4>1. plan[i].item = list[i] /\ plan[i].state # "Delete"
          BY <1>4, <3>1, <3>4
        <4>2. list[i].id = id /\ after[k] = list[i].val
          BY <3>2, <3>3, <4>1
        <4>3. list[i].val \in listed
          BY <1>8, <3>4, <4>2
        <4> QED BY <4>2, <4>3
      <3>5. CASE i \notin 1..n
        <4>1. plan[i].item.id \notin named /\ plan[i].state = "Delete"
          BY <1>4, <3>1, <3>5
        <4> QED BY <2>2, <3>2, <3>3, <4>1
      <3> QED BY <3>4, <3>5
    <2>4. CASE at(k) = {}
      <3>1. after[k] = map[k]
        <4> HIDE DEF at, k
        <4> QED BY <1>5, <2>1, <2>4
      <3>2. ASSUME NEW i \in 1..n, list[i].id = id PROVE plan[i].state = "Unchanged" /\ map[k] = list[i].val
        <4>1. i \in 1..Len(plan)
          BY <1>3
        <4>2. plan[i].item = list[i]
          BY <1>4, <4>1
        <4>3. Key(plan[i].item) = k
          BY <1>4, <3>2, <4>1, <4>2
        <4>4. plan[i].state = "Unchanged"
          BY <2>4, <4>1, <4>3
        <4>5. PICK j \in 1..Len(local) : local[j] = list[i]
          BY <1>2, <4>4 DEF Plans
        <4>6. local[j].val = map[<<scope, local[j].id>>]
          BY <1>1 DEF Local
        <4> QED BY <3>2, <4>4, <4>5, <4>6
      <3>3. CASE id \in named
        <4>1. PICK i \in 1..n : list[i].id = id
          BY <3>3
        <4>2. list[i].val \in listed
          BY <1>8, <4>1
        <4> QED BY <2>2, <3>1, <3>2, <3>3, <4>1, <4>2
      <3>4. CASE id \notin named
        <4>1. ASSUME map[k] # None PROVE FALSE
          <5>1. PICK j \in 1..Len(local) : local[j].id = id
            BY <1>1, <4>1 DEF Local
          <5>2. PICK i \in (n + 1)..Len(plan) : plan[i].item = local[j]
            BY <1>2, <3>4, <5>1 DEF Plans
          <5>3. i \in 1..Len(plan) /\ i \notin 1..n
            BY <1>3
          <5>4. i \in at(k)
            BY <1>4, <5>1, <5>2, <5>3
          <5> QED BY <2>4, <5>4
        <4> QED BY <2>2, <3>1, <3>4, <4>1
      <3> QED BY <3>3, <3>4
    <2> QED BY <2>3, <2>4
  <1>9. after \in Maps(scopes)
    <2>1. ASSUME NEW k \in scopes \X Ids PROVE after[k] \in Val \cup {None}
      <3>1. CASE at(k) = {}
        <4>1. map[k] \in Val \cup {None}
          BY DEF Maps
        <4> HIDE DEF at
        <4> QED BY <1>5, <3>1, <4>1
      <3>2. CASE at(k) # {}
        <4>1. plan[Max(at(k))].item \in Items(scope)
          BY <1>4, <1>6, <3>2
        <4>2. plan[Max(at(k))].item.val \in Val
          <5> HIDE DEF at
          <5> QED BY <4>1 DEF Items
        <4> HIDE DEF at
        <4> QED BY <1>5, <3>2, <4>2
      <3> QED BY <3>1, <3>2
    <2>2. after = [k \in scopes \X Ids |-> after[k]]
      BY <1>5 DEF ApplyPlan
    <2> HIDE DEF at
    <2> QED BY <2>1, <2>2 DEF Maps
  <1>10. Mirrors(after, scope, list)
    <2>1. DOMAIN list = 1..n
      OBVIOUS
    <2> HIDE DEF n
    <2> QED BY <1>8, <2>1 DEF Mirrors
  <1> HIDE DEF at
  <1> QED BY <1>7, <1>9, <1>10

LEMMA DisjointUnion ==
  ASSUME NEW S, IsFiniteSet(S), NEW T, IsFiniteSet(T), S \cap T = {}
  PROVE  IsFiniteSet(S \cup T) /\ Cardinality(S \cup T) = Cardinality(S) + Cardinality(T)
  <1>1. /\ IsFiniteSet(S \cup T)
        /\ Cardinality(S \cup T) = Cardinality(S) + Cardinality(T) - Cardinality(S \cap T)
    BY FS_Union
  <1>2. Cardinality(S \cap T) = 0
    BY FS_EmptySet
  <1>3. Cardinality(S) \in Nat /\ Cardinality(T) \in Nat
    BY FS_CardinalityType
  <1> QED BY <1>1, <1>2, <1>3

LEMMA OneToOne ==
  ASSUME NEW S, IsFiniteSet(S), NEW T, NEW f \in [S -> T],
         \A x, y \in S : f[x] = f[y] => x = y, \A t \in T : \E x \in S : f[x] = t
  PROVE  IsFiniteSet(T) /\ Cardinality(T) = Cardinality(S)
  <1>1. f \in Bijection(S, T)
    BY DEF Bijection, Injection, Surjection, IsInjective
  <1> QED BY <1>1, FS_Bijection DEF ExistsBijection

\* The summary of a sync accounts for the list, where the list names no id twice.
LEMMA SyncCounts ==
  ASSUME NEW scopes, NEW map \in Maps(scopes), NEW scope \in scopes, NEW list \in Seq(Items(scope)),
         \A i, j \in 1..Len(list) : list[i].id = list[j].id => i = j,
         NEW plan, plan = DiffBy(list, ItemsOf(map, scope), DefaultOptions),
         NEW after, after = ApplyPlan(map, plan), NEW count, count = Summarize(plan)
  PROVE  /\ Len(ItemsOf(after, scope)) = count["Insert"] + count["Update"] + count["Unchanged"]
         /\ Len(ItemsOf(after, scope)) = Len(ItemsOf(map, scope)) + count["Insert"] - count["Delete"]
  <1> DEFINE n == Len(list)
             known == {id \in Ids : map[<<scope, id>>] # None}
             named == {list[i].id : i \in 1..n}
             kept == {id \in Ids : after[<<scope, id>>] # None}
             of(s) == {i \in 1..Len(plan) : plan[i].state = s}
  <1>1. PICK local : Local(map, scope, local) /\ local = ItemsOf(map, scope)
    BY ItemsOfScope
  <1> DEFINE m == Len(local)
             gone == {j \in 1..m : local[j].id \notin named}
             g == Cardinality(gone)
  <1>2. Plans(list, local, plan)
    BY <1>1, DiffPlans
  <1>3. n \in Nat /\ m \in Nat /\ \A i \in 1..n : list[i].id \in Ids /\ list[i].val \in Val
    <2>1. n \in Nat /\ \A i \in 1..n : list[i] \in Items(scope)
      OBVIOUS
    <2>2. local \in Seq(Items(scope))
      BY <1>1 DEF Local
    <2>3. m \in Nat
      BY <2>2
    <2> QED BY <2>1, <2>3 DEF Items
  <1>4. IsFiniteSet(Ids) /\ IsFiniteSet(known) /\ IsFiniteSet(named) /\ IsFiniteSet(gone)
    <2>1. known \subseteq Ids /\ named \subseteq Ids /\ gone \subseteq 1..m
      BY <1>3
    <2> HIDE DEF known, named, gone, m
    <2>2. IsFiniteSet(gone)
      BY <1>3, <2>1, SomeUpTo
    <2> QED BY <2>1, <2>2, FiniteIds, FS_Subset
  <1>5. {local[i].id : i \in 1..m} = known
    <2>1. \A i \in 1..m : local[i].id \in known
      BY <1>1 DEF Local
    <2>2. \A id \in known : \E i \in 1..m : local[i].id = id
      BY <1>1 DEF Local
    <2> HIDE DEF known, m
    <2> QED BY <2>1, <2>2
  <1>6. Cardinality(named) = n
    <2> DEFINE f == [i \in 1..n |-> list[i].id]
    <2>1. f \in [1..n -> named]
      OBVIOUS
    <2>2. \A i, j \in 1..n : f[i] = f[j] => i = j
      OBVIOUS
    <2>3. \A t \in named : \E i \in 1..n : f[i] = t
      OBVIOUS
    <2> HIDE DEF f, named, n
    <2>4. IsFiniteSet(1..n) /\ Cardinality(1..n) = n
      BY <1>3, NumbersUpTo
    <2>5. Cardinality(named) = Cardinality(1..n)
      BY <2>1, <2>2, <2>3, <2>4, OneToOne
    <2> QED BY <2>4, <2>5
  <1>7. kept = named
    <2> SUFFICES ASSUME NEW id \in Ids PROVE id \in named <=> after[<<scope, id>>] # None
      BY <1>3
    <2> DEFINE listed == {list[i].val : i \in {j \in DOMAIN list : list[j].id = id}}
    <2>1. listed \subseteq Val /\ (listed = {} <=> id \notin named)
      <3>1. DOMAIN list = 1..n
        OBVIOUS
      <3>2. listed = {list[i].val : i \in {j \in 1..n : list[j].id = id}}
        <4> HIDE DEF n
        <4> QED BY <3>1
      <3> HIDE DEF listed
      <3> QED BY <1>3, <3>2
    <2>2. Mirrors(after, scope, list)
      BY SyncedScope
    <2>3. IF listed = {} THEN after[<<scope, id>>] = None ELSE after[<<scope, id>>] \in listed
      BY <2>2 DEF Mirrors
    <2> HIDE DEF listed, named
    <2> QED BY <2>1, <2>3, NoneIsNoVal DEF NoneIsNoVal
  <1>8. Len(ItemsOf(after, scope)) = n /\ Len(ItemsOf(map, scope)) = Cardinality(known)
    <2>1. after \in Maps(scopes)
      BY SyncedScope
    <2>2. Len(ItemsOf(after, scope)) = Cardinality(kept) /\ Len(ItemsOf(map, scope)) = Cardinality(known)
      BY <2>1, ItemsOfScope DEF Local
    <2> QED BY <1>6, <1>7, <2>2
  <1>9. /\ DOMAIN plan = 1..Len(plan) /\ Len(plan) = n + g /\ g \in Nat
        /\ \A i \in 1..n : /\ plan[i].item = list[i]
                           /\ plan[i].state \in {"Insert", "Update", "Unchanged"}
                           /\ plan[i].state = "Insert" <=> list[i].id \notin known
        /\ \A i \in (n + 1)..(n + g) : plan[i].state = "Delete"
    <2>1. g \in Nat
      BY <1>4, FS_CardinalityType
    <2>2. /\ DOMAIN plan = 1..Len(plan) /\ Len(plan) = n + g
          /\ \A i \in (n + 1)..Len(plan) : plan[i].state = "Delete"
      BY <1>2 DEF Plans
    <2>3. \A i \in 1..n : /\ plan[i].item = list[i]
                          /\ plan[i].state \in {"Insert", "Update", "Unchanged"}
                          /\ plan[i].state = "Insert" <=> list[i].id \notin {local[j].id : j \in 1..m}
      BY <1>2 DEF Plans
    <2> HIDE DEF g, known
    <2> QED BY <1>5, <2>1, <2>2, <2>3
  <1>10. \A s \in {"Insert", "Update", "Delete", "Unchanged"} : count[s] = Cardinality(of(s))
    BY <1>9 DEF Summarize
  <1>11. /\ of("Insert") = {i \in 1..n : list[i].id \notin known}
         /\ of("Delete") = (n + 1)..(n + g)
         /\ of("Insert") \cup of("Update") \cup of("Unchanged") = 1..n
    <2> HIDE DEF n, g, known
    <2>1. 1..Len(plan) = (1..n) \cup ((n + 1)..(n + g))
      BY <1>3, <1>9
    <2> QED BY <1>9, <2>1
  <1>12. count["Insert"] + count["Update"] + count["Unchanged"] = n
    <2> DEFINE I == of("Insert")
               U == of("Update")
               N == of("Unchanged")
    <2>1. Cardinality(1..n) = n
      BY <1>3, NumbersUpTo
    <2>2. I \cap U = {} /\ (I \cup U) \cap N = {}
      OBVIOUS
    <2>3. (I \cup U) \cup N = 1..n
      BY <1>11
    <2> HIDE DEF I, U, N, n
    <2>4. I \subseteq 1..n /\ U \subseteq 1..n /\ N \subseteq 1..n
      BY <2>3
    <2>5. /\ IsFiniteSet(I) /\ Cardinality(I) \in Nat
          /\ IsFiniteSet(U) /\ Cardinality(U) \in Nat
          /\ IsFiniteSet(N) /\ Cardinality(N) \in Nat
      BY <1>3, <2>4, SomeUpTo
    <2>6. IsFiniteSet(I \cup U) /\ Cardinality(I \cup U) = Cardinality(I) + Cardinality(U)
      BY <2>2, <2>5, DisjointUnion
    <2>7. Cardinality((I \cup U) \cup N) = Cardinality(I \cup U) + Cardinality(N)
      BY <2>2, <2>5, <2>6, DisjointUnion
    <2>8. Cardinality(I) + Cardinality(U) + Cardinality(N) = n
      BY <2>1, <2>3, <2>5, <2>6, <2>7
    <2>9. count["Insert"] = Cardinality(I) /\ count["Update"] = Cardinality(U) /\ count["Unchanged"] = Cardinality(N)
      BY <1>10 DEF I, U, N
    <2> QED BY <2>8, <2>9
  <1>13. count["Delete"] = Cardinality(known \ named)
    <2> DEFINE f == [j \in gone |-> local[j].id]
    <2>1. Cardinality((n + 1)..(n + g)) = g
      <3> HIDE DEF n, g
      <3>1. n + 1 \in Int /\ n + g \in Int /\ (IF n + 1 > n + g THEN 0 ELSE (n + g) - (n + 1) + 1) = g
        BY <1>3, <1>9
      <3> QED BY <3>1, FS_Interval
    <2>2. f \in [gone -> known \ named]
      BY <1>5
    <2>3. \A i, j \in gone : f[i] = f[j] => i = j
      BY <1>1 DEF Local
    <2>4. \A t \in known \ named : \E j \in gone : f[j] = t
      BY <1>5
    <2> HIDE DEF f, gone, known, named
    <2>5. Cardinality(known \ named) = Cardinality(gone)
      BY <1>4, <2>2, <2>3, <2>4, OneToOne
    <2> QED BY <1>10, <1>11, <2>1, <2>5
  <1>14. count["Insert"] = Cardinality(named \ known)
    <2> DEFINE new == {i \in 1..n : list[i].id \notin known}
               f == [i \in new |-> list[i].id]
    <2>1. f \in [new -> named \ known]
      OBVIOUS
    <2>2. \A i, j \in new : f[i] = f[j] => i = j
      OBVIOUS
    <2>3. \A t \in named \ known : \E j \in new : f[j] = t
      OBVIOUS
    <2>4. IsFiniteSet(new)
      <3>1. new \subseteq 1..n
        OBVIOUS
      <3> HIDE DEF new, n
      <3> QED BY <1>3, <3>1, SomeUpTo
    <2>5. count["Insert"] = Cardinality(new)
      BY <1>10, <1>11
    <2> HIDE DEF f, new, known, named
    <2> QED BY <2>1, <2>2, <2>3, <2>4, <2>5, OneToOne
  <1>15. n = Cardinality(known) + count["Insert"] - count["Delete"]
    <2> HIDE DEF known, named, n
    <2>1. Cardinality(named \ known) = Cardinality(named) - Cardinality(named \cap known)
      BY <1>4, FS_Difference
    <2>2. Cardinality(known \ named) = Cardinality(known) - Cardinality(known \cap named)
      BY <1>4, FS_Difference
    <2>3. named \cap known = known \cap named /\ IsFiniteSet(known \cap named)
      BY <1>4, FS_Intersection
    <2>4. Cardinality(named) \in Nat /\ Cardinality(known) \in Nat /\ Cardinality(known \cap named) \in Nat
      BY <1>4, <2>3, FS_CardinalityType
    <2> DEFINE a == Cardinality(named)
               b == Cardinality(known)
               c == Cardinality(known \cap named)
    <2>5. count["Insert"] = a - c /\ count["Delete"] = b - c /\ n = a
      BY <1>6, <1>13, <1>14, <2>1, <2>2, <2>3
    <2>6. a \in Nat /\ b \in Nat /\ c \in Nat
      BY <2>4
    <2> HIDE DEF a, b, c
    <2>7. n = b + count["Insert"] - count["Delete"]
      BY <2>5, <2>6
    <2> QED BY <2>7 DEF b
  <1> HIDE DEF known, n
  <1> QED BY <1>8, <1>12, <1>15

-----------------------------------------------------------------------------
(* Lists from the server *)

LEMMA OneValIsOne == OneVal \in Val /\ ServerVals \subseteq Val
  <1>1. [pinned |-> FALSE, draft |-> FALSE, time |-> 1] \in ServerVals
    BY DEF ServerVals
  <1>2. OneVal \in ServerVals
    BY <1>1 DEF OneVal
  <1>3. ServerVals \subseteq Val
    <2> SUFFICES ASSUME NEW t \in {1, 2} PROVE [pinned |-> FALSE, draft |-> FALSE, time |-> t] \in Val
      BY DEF ServerVals
    <2> QED BY DEF Val
  <1> QED BY <1>2, <1>3

\* What a list of the server holds: items of the scope, or of another one, or without an id.
LEMMA ListedItems ==
  ASSUME NEW s, s # 0, NEW list \in Lists(s)
  PROVE  /\ Len(list) \in Nat /\ DOMAIN list = 1..Len(list)
         /\ \A i \in 1..Len(list) :
               /\ list[i] = [scope |-> list[i].scope, id |-> list[i].id, val |-> list[i].val]
               /\ list[i].id # 0 => list[i].id \in Ids
               /\ list[i].val \in Val
  <1> DEFINE Some == OwnItems(s) \cup BadItems(s)
  <1>1. PICK n \in 0..MaxList : list \in [1..n -> Some]
    BY DEF Lists
  <1>2. n \in Nat /\ DOMAIN list = 1..n
    BY <1>1, DirectoryConstants DEF DirectoryConstants
  <1>3. ASSUME NEW item \in Some
        PROVE  /\ item = [scope |-> item.scope, id |-> item.id, val |-> item.val]
               /\ item.id # 0 => item.id \in Ids
               /\ item.val \in Val
    <2>1. CASE item \in OwnItems(s)
      BY <2>1, OneValIsOne DEF OwnItems
    <2>2. CASE item \in BadItems(s)
      <3> DEFINE other == (s % MaxId) + 1
      <3>1. item \in [scope : {other}, id : {1}, val : {OneVal}] \cup [scope : {s}, id : {0}, val : {OneVal}]
        BY <2>2 DEF BadItems
      <3>2. 1 \in Ids
        BY DirectoryConstants DEF DirectoryConstants, Ids
      <3> HIDE DEF other
      <3> QED BY <3>1, <3>2, OneValIsOne
    <2> QED BY <2>1, <2>2
  <1>4. \A i \in 1..n : list[i] \in Some
    BY <1>1
  <1>5. Len(list) = n
    <2> HIDE DEF Some
    <2> QED BY <1>1, <1>2
  <1> HIDE DEF Some
  <1> QED BY <1>2, <1>3, <1>4, <1>5

LEMMA FunctionList ==
  ASSUME NEW S, NEW n \in Nat, NEW t \in [1..n -> S]
  PROVE  t \in Seq(S) /\ Len(t) = n
  OBVIOUS

\* ensure_pair lets nothing through but items of the scope.
LEMMA AcceptedLists ==
  ASSUME NEW s \in 0..MaxId, NEW list \in Lists(s), Acceptable(s, list)
  PROVE  s \in Ids /\ list \in Seq(Items(s))
  <1>1. s # 0 /\ s \in Ids
    BY DirectoryConstants DEF DirectoryConstants, Acceptable, Ids
  <1>2. Len(list) \in Nat /\ DOMAIN list = 1..Len(list)
    BY <1>1, ListedItems
  <1>3. ASSUME NEW i \in 1..Len(list) PROVE list[i] \in Items(s)
    <2>1. list[i].scope = s /\ list[i].id # 0
      BY <1>2 DEF Acceptable
    <2>2. /\ list[i] = [scope |-> list[i].scope, id |-> list[i].id, val |-> list[i].val]
          /\ list[i].id # 0 => list[i].id \in Ids
          /\ list[i].val \in Val
      BY <1>1, ListedItems
    <2> QED BY <2>1, <2>2 DEF Items
  <1>4. list = [i \in DOMAIN list |-> list[i]]
    <2>1. PICK n \in 0..MaxList : list \in [1..n -> OwnItems(s) \cup BadItems(s)]
      BY <1>1 DEF Lists
    <2> QED BY <2>1
  <1> DEFINE n == Len(list)
             Own == Items(s)
  <1>5. list = [i \in 1..n |-> list[i]] /\ n \in Nat /\ \A i \in 1..n : list[i] \in Own
    BY <1>2, <1>3, <1>4
  <1>6. list \in Seq(Own)
    <2> HIDE DEF n, Own
    <2>1. list \in [1..n -> Own]
      BY <1>5
    <2> QED BY <1>5, <2>1, FunctionList
  <1> QED BY <1>1, <1>6

LEMMA GroupLists ==
  ASSUME NEW list \in Lists(1), ~ \E i \in DOMAIN list : list[i].id = 0
  PROVE  AsGroups(list) \in Seq(Items(1))
  <1> DEFINE t == AsGroups(list)
  <1>1. Len(list) \in Nat /\ DOMAIN list = 1..Len(list)
    BY ListedItems
  <1>2. t = [i \in DOMAIN list |-> t[i]]
    BY DEF AsGroups
  <1>3. ASSUME NEW i \in 1..Len(list) PROVE t[i] \in Items(1)
    <2>1. list[i].id # 0 /\ t[i] = [list[i] EXCEPT !.scope = 1]
      BY <1>1 DEF AsGroups
    <2>2. /\ list[i] = [scope |-> list[i].scope, id |-> list[i].id, val |-> list[i].val]
          /\ list[i].id # 0 => list[i].id \in Ids
          /\ list[i].val \in Val
      BY ListedItems
    <2> DEFINE item == list[i]
    <2> HIDE DEF t, item
    <2>3. t[i] = [scope |-> 1, id |-> item.id, val |-> item.val]
      BY <2>1, <2>2 DEF item
    <2> QED BY <2>1, <2>2, <2>3 DEF Items, item
  <1> DEFINE n == Len(list)
             Own == Items(1)
  <1>4. t = [i \in 1..n |-> t[i]] /\ n \in Nat /\ \A i \in 1..n : t[i] \in Own
    BY <1>1, <1>2, <1>3
  <1> HIDE DEF t, n, Own
  <1>5. t \in [1..n -> Own]
    BY <1>4
  <1>6. t \in Seq(Own)
    BY <1>4, <1>5, FunctionList
  <1> QED BY <1>6 DEF t, Own

-----------------------------------------------------------------------------
(* Sorting *)

\* R is a strict total order of S.
Orders(R, S) ==
    /\ \A x \in S : <<x, x>> \notin R
    /\ \A x, y \in S : x = y \/ <<x, y>> \in R \/ <<y, x>> \in R
    /\ \A x, y, z \in S : <<x, y>> \in R /\ <<y, z>> \in R => <<x, z>> \in R

\* q lists S in the order R.
InOrder(q, S, R) ==
    /\ q \in [1..Cardinality(S) -> S]
    /\ \A i, j \in 1..Cardinality(S) : i < j => <<q[i], q[j]>> \in R

UpTo(R, S, x) == { y \in S : y = x \/ <<y, x>> \in R }

\* An element's rank is the number of elements up to it.
LEMMA Ranks ==
  ASSUME NEW S, IsFiniteSet(S), NEW R, Orders(R, S)
  PROVE  /\ Cardinality(S) \in Nat
         /\ \A x \in S : Cardinality(UpTo(R, S, x)) \in 1..Cardinality(S)
         /\ \A x, y \in S : <<x, y>> \in R => Cardinality(UpTo(R, S, x)) < Cardinality(UpTo(R, S, y))
         /\ \A x, y \in S : Cardinality(UpTo(R, S, x)) = Cardinality(UpTo(R, S, y)) => x = y
  <1>1. \A x \in S : UpTo(R, S, x) \in SUBSET S /\ x \in UpTo(R, S, x)
    BY DEF UpTo
  <1>2. /\ Cardinality(S) \in Nat
        /\ \A x \in S : /\ IsFiniteSet(UpTo(R, S, x)) /\ Cardinality(UpTo(R, S, x)) \in Nat
                        /\ Cardinality(UpTo(R, S, x)) <= Cardinality(S)
    BY <1>1, FS_Subset, FS_CardinalityType
  <1>3. \A x \in S : Cardinality(UpTo(R, S, x)) # 0
    BY <1>1, <1>2, FS_EmptySet
  <1>4. ASSUME NEW x \in S, NEW y \in S, <<x, y>> \in R
        PROVE  Cardinality(UpTo(R, S, x)) < Cardinality(UpTo(R, S, y))
    <2>1. UpTo(R, S, x) \in SUBSET UpTo(R, S, y)
      BY <1>4 DEF UpTo, Orders
    <2>2. y \in UpTo(R, S, y) /\ y \notin UpTo(R, S, x)
      BY <1>4 DEF UpTo, Orders
    <2>3. /\ Cardinality(UpTo(R, S, x)) <= Cardinality(UpTo(R, S, y))
          /\ Cardinality(UpTo(R, S, x)) # Cardinality(UpTo(R, S, y))
      BY <1>2, <2>1, <2>2, FS_Subset
    <2> QED BY <1>2, <2>3
  <1>5. ASSUME NEW x \in S, NEW y \in S, Cardinality(UpTo(R, S, x)) = Cardinality(UpTo(R, S, y))
        PROVE  x = y
    <2>1. <<x, y>> \notin R /\ <<y, x>> \notin R
      BY <1>2, <1>4, <1>5
    <2> QED BY <2>1 DEF Orders
  <1> QED BY <1>2, <1>3, <1>4, <1>5

\* A finite set in a strict total order can be listed in it.
LEMMA ListExists ==
  ASSUME NEW S, IsFiniteSet(S), NEW R, Orders(R, S)
  PROVE  \E q : InOrder(q, S, R)
  <1> DEFINE rank == [x \in S |-> Cardinality(UpTo(R, S, x))]
             n == Cardinality(S)
  <1>1. n \in Nat /\ rank \in [S -> 1..n] /\ \A x, y \in S : rank[x] = rank[y] => x = y
    BY Ranks
  <1>2. rank \in Injection(S, 1..n)
    BY <1>1, Fun_IsInj
  <1>3. IsFiniteSet(1..n) /\ Cardinality(1..n) = n
    BY <1>1, FS_Interval
  <1>4. rank \in Surjection(S, 1..n)
    BY <1>2, <1>3, FS_Injection
  <1>5. \A i \in 1..n : \E x \in S : rank[x] = i
    <2> HIDE DEF rank, n
    <2> QED BY <1>4, Fun_SurjectionProperties
  <1> DEFINE q == [i \in 1..n |-> CHOOSE x \in S : rank[x] = i]
  <1>6. \A i \in 1..n : q[i] \in S /\ rank[q[i]] = i
    BY <1>5
  <1>7. ASSUME NEW i \in 1..n, NEW j \in 1..n, i < j PROVE <<q[i], q[j]>> \in R
    <2>1. q[i] \in S /\ q[j] \in S /\ rank[q[i]] = i /\ rank[q[j]] = j
      BY <1>6
    <2>2. q[i] # q[j]
      BY <1>1, <1>7, <2>1
    <2>3. <<q[j], q[i]>> \in R => rank[q[j]] < rank[q[i]]
      <3> HIDE DEF q
      <3> QED BY <2>1, Ranks
    <2>4. <<q[j], q[i]>> \notin R
      BY <1>1, <1>7, <2>1, <2>3
    <2> HIDE DEF q, rank
    <2> QED BY <2>1, <2>2, <2>4 DEF Orders
  <1>8. q \in [1..n -> S]
    BY <1>6
  <1> HIDE DEF q
  <1> QED BY <1>7, <1>8 DEF InOrder

\* A sort returns the list of the set in the order.
LEMMA SortedIsList ==
  ASSUME NEW S, IsFiniteSet(S), NEW R, Orders(R, S)
  PROVE  InOrder(Sorted(S, R), S, R)
  <1>1. PICK q : InOrder(q, S, R)
    BY ListExists
  <1>2. q \in [1..Cardinality(S) -> S] /\ \A i, j \in 1..Cardinality(S) : i < j => <<q[i], q[j]>> \in R
    BY <1>1 DEF InOrder
  <1> QED BY <1>2 DEF Sorted, InOrder

\* A list of a set in an order holds each element once.
LEMMA ListIsComplete ==
  ASSUME NEW S, IsFiniteSet(S), NEW R, Orders(R, S), NEW q, InOrder(q, S, R)
  PROVE  /\ \A j, k \in 1..Cardinality(S) : q[j] = q[k] => j = k
         /\ \A x \in S : \E k \in 1..Cardinality(S) : q[k] = x
  <1> DEFINE n == Cardinality(S)
  <1>1. n \in Nat /\ IsFiniteSet(1..n) /\ Cardinality(1..n) = n /\ q \in [1..n -> S]
        /\ \A j, k \in 1..n : j < k => <<q[j], q[k]>> \in R
    <2>1. n \in Nat
      BY FS_CardinalityType
    <2>2. IsFiniteSet(1..n) /\ Cardinality(1..n) = n
      BY <2>1, FS_Interval
    <2> QED BY <2>1, <2>2 DEF InOrder
  <1> HIDE DEF n
  <1>2. \A j, k \in 1..n : q[j] = q[k] => j = k
    <2>1. \A j, k \in 1..n : j < k => q[j] # q[k]
      BY <1>1 DEF Orders
    <2>2. \A j, k \in 1..n : j < k \/ k < j \/ j = k
      BY <1>1
    <2> QED BY <2>1, <2>2
  <1>3. q \in Injection(1..n, S)
    BY <1>1, <1>2, Fun_IsInj
  <1>4. \A x \in S : \E k \in 1..n : q[k] = x
    BY <1>1, <1>3, FS_Injection, Fun_SurjectionProperties DEF n
  <1> QED BY <1>2, <1>4 DEF n

\* The element in place i is the one of rank i.
LEMMA PlaceIsRank ==
  ASSUME NEW S, IsFiniteSet(S), NEW R, Orders(R, S), NEW q, InOrder(q, S, R),
         NEW i \in 1..Cardinality(S)
  PROVE  Cardinality(UpTo(R, S, q[i])) = i
  <1> DEFINE n == Cardinality(S)
  <1>1. n \in Nat /\ q \in [1..n -> S] /\ i \in 1..n
        /\ \A j, k \in 1..n : j < k => <<q[j], q[k]>> \in R
    BY FS_CardinalityType DEF InOrder
  <1>2. /\ \A j, k \in 1..n : q[j] = q[k] => j = k
        /\ \A x \in S : \E k \in 1..n : q[k] = x
    BY ListIsComplete
  <1> HIDE DEF n
  <1>3. UpTo(R, S, q[i]) = { q[k] : k \in 1..i }
    <2>1. ASSUME NEW k \in 1..n PROVE q[k] \in UpTo(R, S, q[i]) <=> k <= i
      <3>1. k < i => <<q[k], q[i]>> \in R
        BY <1>1
      <3>2. i < k => <<q[i], q[k]>> \in R /\ q[i] # q[k]
        BY <1>1, <1>2
      <3>3. i < k => <<q[k], q[i]>> \notin R
        BY <1>1, <3>2 DEF Orders
      <3> QED BY <1>1, <3>1, <3>2, <3>3 DEF UpTo
    <2>2. 1..i \subseteq 1..n /\ \A k \in 1..n : k \in 1..i <=> k <= i
      BY <1>1
    <2> QED BY <1>1, <1>2, <2>1, <2>2 DEF UpTo
  <1>4. ExistsBijection(1..i, { q[k] : k \in 1..i })
    <2> DEFINE f == [k \in 1..i |-> q[k]]
    <2>1. f \in [1..i -> { q[k] : k \in 1..i }]
      OBVIOUS
    <2>2. \A j, k \in 1..i : f[j] = f[k] => j = k
      BY <1>1, <1>2
    <2>3. \A x \in { q[k] : k \in 1..i } : \E k \in 1..i : f[k] = x
      OBVIOUS
    <2> HIDE DEF f
    <2>4. f \in Bijection(1..i, { q[k] : k \in 1..i })
      BY <2>1, <2>2, <2>3, Fun_IsBij
    <2> QED BY <2>4, Fun_ExistsBij
  <1>5. IsFiniteSet(1..i) /\ Cardinality(1..i) = i
    BY <1>1, FS_Interval
  <1> QED BY <1>3, <1>4, <1>5, FS_Bijection

\* There is one list of a finite set in an order.
LEMMA ListIsUnique ==
  ASSUME NEW S, IsFiniteSet(S), NEW R, Orders(R, S), NEW p, NEW q, InOrder(p, S, R), InOrder(q, S, R)
  PROVE  p = q
  <1>1. p \in [1..Cardinality(S) -> S] /\ q \in [1..Cardinality(S) -> S]
    BY DEF InOrder
  <1>2. ASSUME NEW i \in 1..Cardinality(S) PROVE p[i] = q[i]
    <2>1. Cardinality(UpTo(R, S, p[i])) = Cardinality(UpTo(R, S, q[i]))
      BY PlaceIsRank
    <2> QED BY <1>1, <2>1, Ranks
  <1>3. p = [i \in 1..Cardinality(S) |-> p[i]] /\ q = [i \in 1..Cardinality(S) |-> q[i]]
    BY <1>1
  <1> QED BY <1>2, <1>3

-----------------------------------------------------------------------------
(* Pages *)

LEMMA MinOfTwo ==
  ASSUME NEW a \in Int, NEW b \in Int
  PROVE  Min({a, b}) = IF a <= b THEN a ELSE b
  <1> DEFINE m == IF a <= b THEN a ELSE b
  <1>1. m \in {a, b} /\ \A y \in {a, b} : m <= y
    OBVIOUS
  <1>2. Min({a, b}) \in {a, b} /\ \A y \in {a, b} : Min({a, b}) <= y
    BY <1>1 DEF Min
  <1> QED BY <1>2

\* Two neighbouring cuts make one.
LEMMA CutsJoin ==
  ASSUME NEW S, NEW q \in Seq(S), NEW a \in Nat, NEW b \in Nat, a <= b, b <= Len(q)
  PROVE  SubSeq(q, 1, a) \o SubSeq(q, a + 1, b) = SubSeq(q, 1, b)
  <1>1. /\ \A i \in 1..b : q[i] \in S
        /\ \A i \in 1..a : q[i] \in S
        /\ \A i \in (a + 1)..b : q[i] \in S
    OBVIOUS
  <1> DEFINE u == SubSeq(q, 1, a)
             v == SubSeq(q, a + 1, b)
             w == SubSeq(q, 1, b)
  <1>2. u \in Seq(S) /\ Len(u) = a /\ \A i \in 1..a : u[i] = q[i]
    <2>1. /\ u \in Seq(S) /\ Len(u) = IF 1 <= a THEN a - 1 + 1 ELSE 0
          /\ \A i \in 1..(a - 1 + 1) : u[i] = q[1 + i - 1]
      BY <1>1, SubSeqProperties
    <2> HIDE DEF u
    <2> QED BY <2>1
  <1>3. w \in Seq(S) /\ Len(w) = b /\ \A i \in 1..b : w[i] = q[i]
    <2>1. /\ w \in Seq(S) /\ Len(w) = IF 1 <= b THEN b - 1 + 1 ELSE 0
          /\ \A i \in 1..(b - 1 + 1) : w[i] = q[1 + i - 1]
      BY <1>1, SubSeqProperties
    <2> HIDE DEF w
    <2> QED BY <2>1
  <1>4. v \in Seq(S) /\ Len(v) = b - a /\ \A i \in 1..(b - a) : v[i] = q[a + i]
    <2>1. /\ v \in Seq(S) /\ Len(v) = IF a + 1 <= b THEN b - (a + 1) + 1 ELSE 0
          /\ \A i \in 1..(b - (a + 1) + 1) : v[i] = q[(a + 1) + i - 1]
      BY <1>1, SubSeqProperties
    <2>2. b - (a + 1) + 1 = b - a /\ \A i \in 1..(b - a) : (a + 1) + i - 1 = a + i
      OBVIOUS
    <2> HIDE DEF v
    <2> QED BY <2>1, <2>2
  <1> HIDE DEF u, v, w
  <1>5. /\ u \o v \in Seq(S) /\ Len(u \o v) = b
        /\ \A i \in 1..a : (u \o v)[i] = u[i]
        /\ \A i \in (a + 1)..b : (u \o v)[i] = v[i - a]
    <2>1. u \o v \in Seq(S)
      BY <1>2, <1>4
    <2>2. a + (b - a) = b
      OBVIOUS
    <2> DEFINE d == b - a
    <2>3. d = Len(v) /\ a = Len(u) /\ a + d = b
      BY <1>2, <1>4, <2>2
    <2> HIDE DEF d
    <2>4. /\ Len(u \o v) = a + d
          /\ \A i \in 1..a : (u \o v)[i] = u[i]
          /\ \A i \in (a + 1)..(a + d) : (u \o v)[i] = v[i - a]
      <3>1. u \in Seq(S) /\ v \in Seq(S)
        BY <1>2, <1>4
      <3> QED BY <2>3, <3>1, ConcatShape
    <2> QED BY <2>1, <2>3, <2>4
  <1>6. ASSUME NEW i \in 1..b PROVE (u \o v)[i] = w[i]
    <2>1. CASE i \in 1..a
      BY <1>2, <1>3, <1>5, <2>1
    <2>2. CASE i \in (a + 1)..b
      <3>1. i - a \in 1..(b - a) /\ a + (i - a) = i
        BY <2>2
      <3> QED BY <1>3, <1>4, <1>5, <2>2, <3>1
    <2>3. i \in 1..a \/ i \in (a + 1)..b
      OBVIOUS
    <2> QED BY <2>1, <2>2, <2>3
  <1> DEFINE uv == u \o v
  <1>7. uv = w
    <2>1. uv \in Seq(S) /\ Len(uv) = b /\ \A i \in 1..b : uv[i] = w[i]
      BY <1>5, <1>6
    <2> HIDE DEF uv
    <2> QED BY <1>3, <2>1
  <1> QED BY <1>7 DEF u, v, w

\* The pages of a list, as many as it has items or more, make the list, whatever their size.
LEMMA PagesTile ==
  ASSUME NEW S, NEW q \in Seq(S), NEW n \in Nat, Len(q) <= n, NEW show \in Int
  PROVE  FlattenSeq([p \in 1..n |-> Paginate(q, p - 1, show)]) = q
  <1> DEFINE w == IF show <= 0 THEN 200 ELSE show
             len == Len(q)
             end(i) == IF i * w <= len THEN i * w ELSE len
             pages == [p \in 1..n |-> Paginate(q, p - 1, show)]
             g == [i \in 1..n |-> SubSeq(q, 1, end(i))]
             Def(f) == f = [i \in 1..n |-> IF i = 1 THEN pages[i] ELSE f[i - 1] \o pages[i]]
  <1>1. w \in Nat /\ w >= 1 /\ len \in Nat /\ len <= n /\ SubSeq(q, 1, len) = q
    <2>1. SubSeq(q, 1, len) = q
      BY SubSeqFull
    <2> QED BY <2>1
  <1>2. ASSUME NEW p \in 1..n
        PROVE  pages[p] = SubSeq(q, (p - 1) * w + 1, IF (p - 1) * w + w <= len THEN (p - 1) * w + w ELSE len)
    <2>1. p - 1 \in Nat /\ Normalized(p - 1, show) = [page |-> p - 1, show |-> w]
      BY DEF Normalized
    <2>2. (p - 1) * w + w \in Int
      BY <1>1, <2>1
    <2> HIDE DEF w, len
    <2>3. Min({(p - 1) * w + w, len}) = IF (p - 1) * w + w <= len THEN (p - 1) * w + w ELSE len
      BY <1>1, <2>2, MinOfTwo
    <2>4. pages[p] = Paginate(q, p - 1, show)
      OBVIOUS
    <2> DEFINE m == Normalized(p - 1, show)
    <2>5. Paginate(q, p - 1, show)
            = SubSeq(q, m.page * m.show + 1, Min({m.page * m.show + m.show, Len(q)}))
      BY Zenon DEF Paginate
    <2>6. m.page = p - 1 /\ m.show = w
      BY <2>1
    <2> HIDE DEF pages, m
    <2> QED BY <2>3, <2>4, <2>5, <2>6 DEF len
  <1> HIDE DEF w, len, pages
  <1>3. \A i \in Nat : i * w \in Nat /\ i <= i * w /\ (i + 1) * w = i * w + w
    BY <1>1
  <1>4. \A i \in Nat : end(i) \in Nat /\ end(i) <= len
    BY <1>1, <1>3
  <1>5. \A i \in 1..n : SubSeq(q, 1, end(i)) \in Seq(S)
    <2> SUFFICES ASSUME NEW i \in 1..n PROVE SubSeq(q, 1, end(i)) \in Seq(S)
      OBVIOUS
    <2>1. end(i) \in Nat /\ end(i) <= Len(q)
      BY <1>4 DEF len
    <2> HIDE DEF end
    <2>2. \A k \in 1..end(i) : q[k] \in S
      BY <2>1
    <2> QED BY <2>1, <2>2, SubSeqProperties
  \* Up to the end of each page.
  <1>6. ASSUME NEW i \in 1..n
        PROVE  g[i] = IF i = 1 THEN pages[i] ELSE g[i - 1] \o pages[i]
    <2> DEFINE a == (i - 1) * w
    <2>1. i - 1 \in Nat /\ a \in Nat /\ (i - 1) + 1 = i /\ i * w = a + w
      <3>1. i - 1 \in Nat /\ (i - 1) + 1 = i
        OBVIOUS
      <3>2. (i - 1) * w \in Nat /\ ((i - 1) + 1) * w = (i - 1) * w + w
        BY <1>3, <3>1
      <3> QED BY <3>1, <3>2
    <2>2. pages[i] = SubSeq(q, a + 1, IF a + w <= len THEN a + w ELSE len)
      BY <1>2
    <2>3. end(i) = IF a + w <= len THEN a + w ELSE len
      BY <2>1
    <2>4. pages[i] = SubSeq(q, a + 1, end(i)) /\ end(i) \in Nat /\ end(i) <= len
      <3>1. i \in Nat
        OBVIOUS
      <3> QED BY <1>4, <2>2, <2>3, <3>1
    <2>5. CASE i = 1
      <3>1. a = 0
        BY <1>1, <2>5
      <3> QED BY <2>4, <2>5, <3>1
    <2>6. CASE i # 1
      <3>1. i - 1 \in 1..n /\ g[i - 1] = SubSeq(q, 1, end(i - 1))
        <4>1. i - 1 \in 1..n
          BY <2>6
        <4> HIDE DEF end
        <4> QED BY <4>1
      <3>2. CASE a <= len
        <4>1. end(i - 1) = a /\ a <= end(i)
          BY <1>1, <2>1, <2>3, <3>2
        <4>2. SubSeq(q, 1, a) \o SubSeq(q, a + 1, end(i)) = SubSeq(q, 1, end(i))
          <5> HIDE DEF a, end
          <5> QED BY <2>1, <2>4, <4>1, CutsJoin DEF len
        <4> QED BY <2>4, <2>6, <3>1, <4>1, <4>2
      <3>3. CASE a > len
        <4>1. end(i - 1) = len /\ end(i) = len
          BY <1>1, <2>1, <2>3, <3>3
        <4>2. pages[i] = <<>>
          <5>1. a + 1 \in Int /\ len \in Int /\ len < a + 1
            BY <1>1, <2>1, <3>3
          <5> HIDE DEF a
          <5> QED BY <2>4, <4>1, <5>1, SubSeqEmpty
        <4>3. q \o <<>> = q
          OBVIOUS
        <4>4. g[i - 1] = q /\ g[i] = q
          BY <1>1, <3>1, <4>1
        <4> QED BY <2>6, <4>2, <4>3, <4>4
      <3>4. a <= len \/ a > len
        BY <1>1, <2>1
      <3> QED BY <3>2, <3>3, <3>4
    <2> QED BY <2>5, <2>6
  <1>7. CASE n = 0
    <2>1. Len(pages) = 0 /\ pages = <<>> /\ q = <<>>
      BY <1>1, <1>7 DEF pages, len
    <2> QED BY <2>1 DEF FlattenSeq, pages
  <1>8. CASE n # 0
    <2>1. Def(g)
      BY <1>6
    <2>2. \A i \in 1..n : g[i] = SubSeq(q, 1, end(i))
      OBVIOUS
    <2> DEFINE flat == CHOOSE f : Def(f)
    <2>3. Def(flat)
      <3> HIDE DEF g
      <3> QED BY <2>1
    <2>4. DOMAIN pages = 1..n /\ Len(pages) = n
      BY DEF pages
    <2>5. FlattenSeq(pages) = flat[n]
      BY <1>8, <2>4 DEF FlattenSeq
    <2> HIDE DEF flat, g
    <2>6. \A i \in 1..n : flat[i] = IF i = 1 THEN pages[i] ELSE flat[i - 1] \o pages[i]
      BY <2>3
    <2> DEFINE T == { i \in 0..n : i # 0 => flat[i] = g[i] }
    <2>7. 0 \in T
      OBVIOUS
    <2>8. \A i \in 0..(n - 1) : i \in T => i + 1 \in T
      <3> SUFFICES ASSUME NEW i \in 0..(n - 1), i \in T PROVE i + 1 \in T
        OBVIOUS
      <3>1. i + 1 \in 1..n /\ i + 1 \in 0..n /\ (i + 1) - 1 = i
        OBVIOUS
      <3>2. /\ flat[i + 1] = IF i + 1 = 1 THEN pages[i + 1] ELSE flat[(i + 1) - 1] \o pages[i + 1]
            /\ g[i + 1] = IF i + 1 = 1 THEN pages[i + 1] ELSE g[(i + 1) - 1] \o pages[i + 1]
        BY <1>6, <2>6, <3>1
      <3>3. i # 0 => flat[i] = g[i]
        OBVIOUS
      <3> QED BY <3>1, <3>2, <3>3
    <2>9. n \in T
      <3> HIDE DEF T
      <3> QED BY <2>7, <2>8, Induct
    <2>10. end(n) = len
      <3>1. n * w \in Nat /\ n <= n * w
        BY <1>3
      <3> QED BY <1>1, <3>1
    <2>11. n \in 1..n
      BY <1>8
    <2>12. flat[n] = q
      BY <1>1, <1>8, <2>2, <2>9, <2>10, <2>11
    <2> QED BY <2>5, <2>12 DEF pages
  <1> QED BY <1>7, <1>8

-----------------------------------------------------------------------------
(* The conversation list *)

\* Where P comes before everything else, it is the first places of the list.
LEMMA FirstPlaces ==
  ASSUME NEW S, IsFiniteSet(S), NEW R, Orders(R, S), NEW q, InOrder(q, S, R),
         NEW P \in SUBSET S, \A x \in P, y \in S \ P : <<x, y>> \in R,
         NEW i \in 1..Cardinality(S)
  PROVE  q[i] \in P <=> i <= Cardinality(P)
  <1>1. q[i] \in S /\ i \in Nat
    BY FS_CardinalityType DEF InOrder
  <1> DEFINE U == UpTo(R, S, q[i])
  <1>2. IsFiniteSet(U) /\ Cardinality(U) = i /\ IsFiniteSet(P) /\ Cardinality(P) \in Nat
    <2>1. U \in SUBSET S
      BY DEF UpTo
    <2>2. Cardinality(U) = i
      BY PlaceIsRank
    <2> HIDE DEF U
    <2> QED BY <2>1, <2>2, FS_Subset, FS_CardinalityType
  <1>3. CASE q[i] \in P
    <2>1. U \in SUBSET P
      BY <1>1, <1>3 DEF UpTo, Orders
    <2> HIDE DEF U
    <2>2. Cardinality(U) <= Cardinality(P)
      BY <1>2, <2>1, FS_Subset
    <2> QED BY <1>2, <1>3, <2>2
  <1>4. CASE q[i] \notin P
    <2>1. P \in SUBSET U /\ P # U
      BY <1>1, <1>4 DEF UpTo
    <2> HIDE DEF U
    <2>2. Cardinality(P) <= Cardinality(U) /\ Cardinality(P) # Cardinality(U)
      BY <1>2, <2>1, FS_Subset
    <2>3. ~(i <= Cardinality(P))
      BY <1>1, <1>2, <2>2
    <2> QED BY <1>4, <2>3
  <1> QED BY <1>3, <1>4

\* The orders of the service and of the stores, as relations.
Shown(S) == { p \in S \X S : ConversationOrder(p[1], p[2]) }
Stored(S) == { p \in S \X S : StoreConversationOrder(p[1], p[2]) }

LEMMA ConversationsOrdered ==
  ASSUME NEW o \in Ids, NEW S \in SUBSET Items(o), \A x, y \in S : x.id = y.id => x = y
  PROVE  Orders(Shown(S), S) /\ Orders(Stored(S), S)
  <1>1. \A x \in S : /\ x.id \in Nat /\ x.val.pinned \in BOOLEAN /\ x.val.time \in Nat
                     /\ ConversationTime(x) \in Nat
    BY DirectoryConstants DEF DirectoryConstants, Items, Ids, Val, ConversationTime
  <1>2. \A x, y \in S : /\ <<x, y>> \in Shown(S) <=> ConversationOrder(x, y)
                        /\ <<x, y>> \in Stored(S) <=> StoreConversationOrder(x, y)
    BY DEF Shown, Stored
  <1>3. Orders(Shown(S), S)
    <2>1. \A x \in S : ~ConversationOrder(x, x)
      BY <1>1 DEF ConversationOrder
    <2>2. \A x, y, z \in S : ConversationOrder(x, y) /\ ConversationOrder(y, z) => ConversationOrder(x, z)
      BY <1>1 DEF ConversationOrder
    <2>3. \A x, y \in S : x.id = y.id \/ ConversationOrder(x, y) \/ ConversationOrder(y, x)
      BY <1>1 DEF ConversationOrder
    <2> QED BY <1>2, <2>1, <2>2, <2>3 DEF Orders
  <1>4. Orders(Stored(S), S)
    <2>1. \A x \in S : ~StoreConversationOrder(x, x)
      BY <1>1 DEF StoreConversationOrder
    <2>2. \A x, y, z \in S : StoreConversationOrder(x, y) /\ StoreConversationOrder(y, z)
                                => StoreConversationOrder(x, z)
      BY <1>1 DEF StoreConversationOrder
    <2>3. \A x, y \in S : x.id = y.id \/ StoreConversationOrder(x, y) \/ StoreConversationOrder(y, x)
      BY <1>1 DEF StoreConversationOrder
    <2> QED BY <1>2, <2>1, <2>2, <2>3 DEF Orders
  <1> QED BY <1>3, <1>4

\* The conversations of an owner are finitely many items, one for an id.
LEMMA OwnersConversations ==
  ASSUME TypeOK, NEW o \in Ids
  PROVE  /\ ConversationsOf(o) \in SUBSET Items(o) /\ IsFiniteSet(ConversationsOf(o))
         /\ \A x, y \in ConversationsOf(o) : x.id = y.id => x = y
         /\ Cardinality(ConversationsOf(o)) \in Nat
  <1> DEFINE held == { c \in Ids : rows[<<o, c>>] # None }
             item == [c \in held |-> [scope |-> o, id |-> c, val |-> rows[<<o, c>>]]]
  <1>1. \A c \in held : <<o, c>> \in Keys /\ rows[<<o, c>>] \in Val /\ c \in Ids
    BY DEF TypeOK, Keys
  <1>2. ConversationsOf(o) = { item[c] : c \in held }
    BY DEF ConversationsOf
  <1>3. \A c \in held : item[c] \in Items(o) /\ item[c].id = c
    BY <1>1 DEF Items
  <1>4. IsFiniteSet(held)
    <2>1. held \in SUBSET Ids
      OBVIOUS
    <2> HIDE DEF held
    <2> QED BY <2>1, FiniteIds, FS_Subset
  <1>5. item \in [held -> { item[c] : c \in held }]
        /\ \A t \in { item[c] : c \in held } : \E c \in held : item[c] = t
    OBVIOUS
  <1>6. \A c, d \in held : item[c] = item[d] => c = d
    BY <1>3
  <1> HIDE DEF item, held
  <1>7. IsFiniteSet({ item[c] : c \in held })
    BY <1>4, <1>5, <1>6, OneToOne
  <1>8. Cardinality({ item[c] : c \in held }) \in Nat
    BY <1>7, FS_CardinalityType
  <1> QED BY <1>2, <1>3, <1>7, <1>8

\* What the service and the stores list.
LEMMA ConversationsListed ==
  ASSUME TypeOK, NEW o \in Ids
  PROVE  /\ InOrder(AllConversations(o), ConversationsOf(o), Shown(ConversationsOf(o)))
         /\ InOrder(StoredConversations(o), ConversationsOf(o), Stored(ConversationsOf(o)))
  <1>1. /\ AllConversations(o) = Sorted(ConversationsOf(o), Shown(ConversationsOf(o)))
        /\ StoredConversations(o) = Sorted(ConversationsOf(o), Stored(ConversationsOf(o)))
    BY DEF AllConversations, StoredConversations, Shown, Stored
  <1> QED BY <1>1, OwnersConversations, ConversationsOrdered, SortedIsList

\* What is kept of a list is a list, and no longer.
LEMMA KeptIsShorter ==
  ASSUME NEW S, NEW q \in Seq(S), NEW at \in SUBSET DOMAIN q
  PROVE  Kept(q, at) \in Seq(S) /\ Len(Kept(q, at)) <= Len(q)
  <1> DEFINE n == Cardinality(at)
             order == Ascending(at)
  <1>1. /\ Len(q) \in Nat /\ DOMAIN q = 1..Len(q) /\ IsFiniteSet(1..Len(q)) /\ Cardinality(1..Len(q)) = Len(q)
        /\ \A i \in 1..Len(q) : q[i] \in S
    <2>1. Len(q) \in Nat
      OBVIOUS
    <2> QED BY <2>1, NumbersUpTo
  <1>2. IsFiniteSet(at) /\ n \in Nat /\ n <= Len(q)
    BY <1>1, FS_Subset, FS_CardinalityType
  <1>3. order \in [1..n -> at]
    <2>1. at \in SUBSET Nat
      BY <1>1
    <2> QED BY <1>2, <2>1, AscendingOrder
  <1>4. Kept(q, at) = [i \in 1..n |-> q[order[i]]]
    BY DEF Kept
  <1> HIDE DEF n, order
  <1>5. \A i \in 1..n : q[order[i]] \in S
    BY <1>1, <1>3
  <1>6. Kept(q, at) \in [1..n -> S]
    BY <1>4, <1>5
  <1> QED BY <1>2, <1>6

\* Every size of page, for the list and for any search in it.
LEMMA PagesOfConversations ==
  ASSUME TypeOK, NEW o \in Ids, NEW show \in Int
  PROVE  PagesAreTheList(o, show)
  <1> DEFINE all == AllConversations(o)
             at == {i \in DOMAIN all : ConversationMatches(all[i], {1})}
             found == Kept(all, at)
             S == ConversationsOf(o)
  <1>1. all \in Seq(S) /\ Len(all) \in Nat
    <2>1. all \in [1..Cardinality(S) -> S] /\ Cardinality(S) \in Nat
      BY OwnersConversations, ConversationsListed DEF InOrder
    <2> HIDE DEF all, S
    <2> QED BY <2>1
  <1>2. found \in Seq(S) /\ Len(found) <= Len(all)
    <2>1. at \in SUBSET DOMAIN all
      OBVIOUS
    <2> HIDE DEF all, at, S
    <2> QED BY <1>1, <2>1, KeptIsShorter
  <1> DEFINE n == Len(all)
  <1>3. FlattenSeq([p \in 1..n |-> Paginate(all, p - 1, show)]) = all
    <2>1. n \in Nat /\ Len(all) <= n
      BY <1>1
    <2> HIDE DEF all, S, n
    <2> QED BY <1>1, <2>1, PagesTile
  <1>4. FlattenSeq([p \in 1..n |-> Paginate(found, p - 1, show)]) = found
    <2>1. n \in Nat /\ Len(found) <= n
      BY <1>1, <1>2
    <2> HIDE DEF all, found, S, n
    <2> QED BY <1>2, <2>1, PagesTile
  <1>5. \A p : SearchConversations(o, {1}, p, show) = Paginate(found, p, show)
    BY DEF SearchConversations
  <1>6. at = {i \in DOMAIN all : all[i].id = 1 \/ all[i].val.draft}
    BY DEF ConversationMatches
  <1>7. Paginate(all, -1, show) = Paginate(all, 0, show)
    BY DEF Paginate, Normalized
  <1> HIDE DEF all, at
  <1>8. FlattenSeq([p \in 1..Len(all) |-> SearchConversations(o, {1}, p - 1, show)]) = found
    <2> HIDE DEF found
    <2> QED BY <1>4, <1>5
  <1> QED BY <1>3, <1>6, <1>7, <1>8 DEF PagesAreTheList, all

LEMMA StoresOrder ==
  ASSUME TypeOK, NEW o \in Ids
  PROVE  StoresKeepTheOrder(o)
  <1> DEFINE all == AllConversations(o)
             stored == StoredConversations(o)
             S == ConversationsOf(o)
             n == Cardinality(S)
             P == { x \in S : x.val.pinned }
  <1>1. /\ IsFiniteSet(S) /\ n \in Nat /\ S \in SUBSET Items(o)
        /\ Orders(Shown(S), S) /\ Orders(Stored(S), S)
    BY OwnersConversations, ConversationsOrdered
  <1>2. InOrder(all, S, Shown(S)) /\ InOrder(stored, S, Stored(S))
    BY ConversationsListed
  <1> HIDE DEF all, stored, S
  <1>3. /\ all \in [1..n -> S] /\ stored \in [1..n -> S]
        /\ \A i, j \in 1..n : i < j => <<all[i], all[j]>> \in Shown(S)
    BY <1>2 DEF InOrder
  <1>4. ASSUME \A i \in DOMAIN all : ~all[i].val.draft PROVE all = stored
    <2>1. \A x \in S : ~x.val.draft
      BY <1>1, <1>2, <1>3, <1>4, ListIsComplete
    <2>2. \A x, y \in S : ConversationOrder(x, y) => StoreConversationOrder(x, y)
      <3>1. \A x \in S : x.id \in Nat /\ x.val.time \in Nat /\ x.val.pinned \in BOOLEAN
                         /\ ConversationTime(x) = x.val.time
        BY <1>1, <2>1, DirectoryConstants DEF DirectoryConstants, Items, Ids, Val, ConversationTime
      <3> QED BY <3>1 DEF ConversationOrder, StoreConversationOrder
    <2>3. Shown(S) \subseteq Stored(S)
      BY <2>2 DEF Shown, Stored
    <2>4. InOrder(all, S, Stored(S))
      BY <1>3, <2>3 DEF InOrder
    <2> QED BY <1>1, <1>2, <2>4, ListIsUnique
  <1>5. \A i \in DOMAIN all : all[i].val.pinned = stored[i].val.pinned
    <2> SUFFICES ASSUME NEW i \in 1..n PROVE all[i].val.pinned = stored[i].val.pinned
      BY <1>3
    <2>1. \A x \in S : x.val.pinned \in BOOLEAN
      BY <1>1 DEF Items, Val
    <2>2. \A x \in P, y \in S \ P : <<x, y>> \in Shown(S) /\ <<x, y>> \in Stored(S)
      BY <2>1 DEF Shown, Stored, ConversationOrder, StoreConversationOrder
    <2>3. P \in SUBSET S
      OBVIOUS
    <2> HIDE DEF P
    <2>4. all[i] \in P <=> i <= Cardinality(P)
      BY <1>1, <1>2, <2>2, <2>3, FirstPlaces
    <2>5. stored[i] \in P <=> i <= Cardinality(P)
      BY <1>1, <1>2, <2>2, <2>3, FirstPlaces
    <2>6. all[i] \in S /\ stored[i] \in S
      BY <1>3
    <2>7. all[i].val.pinned <=> stored[i].val.pinned
      BY <2>4, <2>5, <2>6 DEF P
    <2> QED BY <2>1, <2>6, <2>7
  <1> QED BY <1>4, <1>5 DEF StoresKeepTheOrder, all, stored

-----------------------------------------------------------------------------
(* The invariant, and what every call says of itself *)

DirInv == TypeOK /\ NoResurrectedMembers /\ SyncMirrorsServer

\* CallsChangeWhatTheySay, for one step.
Honest ==
    /\ ~last'.ok => UNCHANGED <<groups, rows>>
    /\ \A k \in Keys : rows'[k] # rows[k] =>
          \/ k[1] = last'.scope
          \/ last'.call = "sync_groups" /\ groups'[k[1]] = None
    /\ (Synced' /\ NoRepeats(last'.list)) => SummaryAccounts

\* A failed call, or an edit of rows, claims nothing of a sync.
LEMMA NoSyncClaimed ==
  ASSUME last'.call \notin SyncCalls \/ ~last'.ok
  PROVE  SyncMirrorsServer' /\ ~Synced'
  BY DEF SyncMirrorsServer, Synced

LEMMA FailsStep ==
  ASSUME DirInv, Fails
  PROVE  DirInv' /\ Honest
  <1>1. last'.ok = FALSE /\ UNCHANGED <<service, groups, rows, joined>>
    BY DEF Fails, Returns
  <1>2. SyncMirrorsServer' /\ ~Synced'
    BY <1>1, NoSyncClaimed
  <1>3. TypeOK' /\ NoResurrectedMembers'
    BY <1>1 DEF DirInv, TypeOK, NoResurrectedMembers
  <1>4. Honest
    BY <1>1, <1>2 DEF Honest
  <1> QED BY <1>2, <1>3, <1>4 DEF DirInv

LEMMA EditClaims ==
  ASSUME NEW s, Returns("edit", s, <<>>, TRUE, NoSummary)
  PROVE  last'.ok = TRUE /\ last'.scope = s /\ SyncMirrorsServer' /\ ~Synced'
  <1>1. last'.ok = TRUE /\ last'.scope = s /\ last'.call = "edit"
    BY DEF Returns
  <1>2. last'.call \notin SyncCalls
    BY <1>1 DEF SyncCalls
  <1> QED BY <1>1, <1>2, NoSyncClaimed

LEMMA InRange ==
  ASSUME NEW s \in 0..MaxId, s # 0
  PROVE  s \in Ids
  BY DirectoryConstants DEF DirectoryConstants, Ids

LEMMA PutStep ==
  ASSUME DirInv, NEW s \in 0..MaxId, NEW u \in 0..MaxId, NEW val \in Val \cup {None}, Put(s, u, val)
  PROVE  DirInv' /\ Honest
  <1>1. CASE s = 0 \/ u = 0
    BY <1>1, FailsStep DEF Put
  <1>2. CASE ~(s = 0 \/ u = 0)
    <2> DEFINE key == <<s, u>>
    <2>1. key \in Keys /\ key[1] = s
      BY <1>2, InRange DEF Keys
    <2>2. /\ rows' = [rows EXCEPT ![key] = val]
          /\ joined' = IF val = None THEN joined \ {key} ELSE joined \cup {key}
          /\ Returns("edit", s, <<>>, TRUE, NoSummary)
          /\ UNCHANGED <<service, groups>>
      BY <1>2 DEF Put
    <2>3. last'.ok = TRUE /\ last'.scope = s /\ SyncMirrorsServer' /\ ~Synced'
      BY <2>2, EditClaims
    <2> HIDE DEF key
    <2>4. /\ rows \in [Keys -> Val \cup {None}] /\ joined \subseteq Keys
          /\ service = "groups" => \A k \in Keys : rows[k] # None => k \in joined
      BY DEF DirInv, TypeOK, NoResurrectedMembers
    <2>5. TypeOK'
      <3>1. rows' \in [Keys -> Val \cup {None}] /\ joined' \subseteq Keys
        BY <2>1, <2>2, <2>4
      <3> QED BY <2>2, <2>3, <3>1 DEF DirInv, TypeOK
    <2>6. NoResurrectedMembers'
      <3> SUFFICES ASSUME service = "groups", NEW k \in Keys, rows'[k] # None PROVE k \in joined'
        BY <2>2 DEF NoResurrectedMembers
      <3>1. CASE k = key
        <4>1. rows'[k] = val
          BY <2>1, <2>2, <2>4, <3>1
        <4> QED BY <2>2, <3>1, <4>1
      <3>2. CASE k # key
        <4>1. rows'[k] = rows[k]
          BY <2>1, <2>2, <2>4, <3>2
        <4> QED BY <2>2, <2>4, <3>2, <4>1
      <3> QED BY <3>1, <3>2
    <2>7. Honest
      <3>1. \A k \in Keys : rows'[k] # rows[k] => k = key
        BY <2>2, <2>4
      <3>2. \A k \in Keys : rows'[k] # rows[k] => k[1] = last'.scope
        BY <2>1, <2>3, <3>1
      <3> QED BY <2>3, <3>2 DEF Honest
    <2> QED BY <2>3, <2>5, <2>6, <2>7 DEF DirInv
  <1> QED BY <1>1, <1>2

LEMMA EditStep ==
  ASSUME DirInv, NEW o \in 0..MaxId, NEW c \in 0..MaxId, NEW field \in {"pinned", "draft"}, NEW flag \in BOOLEAN,
         Edit(o, c, field, flag)
  PROVE  DirInv' /\ Honest
  <1>1. CASE Fails
    BY <1>1, FailsStep
  <1>2. CASE ~Fails
    <2>1. o # 0 /\ c # 0 /\ rows[<<o, c>>] # None /\ Put(o, c, [rows[<<o, c>>] EXCEPT ![field] = flag])
      BY <1>2 DEF Edit
    <2>2. <<o, c>> \in Keys
      BY <2>1, InRange DEF Keys
    <2>3. rows[<<o, c>>] \in Val
      BY <2>1, <2>2 DEF DirInv, TypeOK
    <2>4. ASSUME NEW v \in Val PROVE [v EXCEPT ![field] = flag] \in Val
      <3>1. CASE field = "pinned"
        BY <3>1 DEF Val
      <3>2. CASE field = "draft"
        BY <3>2 DEF Val
      <3> QED BY <3>1, <3>2
    <2>5. [rows[<<o, c>>] EXCEPT ![field] = flag] \in Val \cup {None}
      BY <2>3, <2>4
    <2> QED BY <2>1, <2>5, PutStep
  <1> QED BY <1>1, <1>2

\* Steps of the services that keep no members.
LEMMA ProfileStep ==
  ASSUME DirInv, NEW u \in 0..MaxId, service = "users", NEW v \in Val, NEW fields,
         rows' = [k \in Keys |-> IF k[1] = u /\ k[2] \in fields THEN v ELSE rows[k]],
         Returns("edit", u, <<>>, TRUE, NoSummary), UNCHANGED <<service, groups, joined>>
  PROVE  DirInv' /\ Honest
  <1>1. last'.ok = TRUE /\ last'.scope = u /\ SyncMirrorsServer' /\ ~Synced'
    BY EditClaims
  <1>2. rows \in [Keys -> Val \cup {None}]
    BY DEF DirInv, TypeOK
  <1>3. TypeOK'
    <2>1. rows' \in [Keys -> Val \cup {None}]
      BY <1>2
    <2> QED BY <1>1, <2>1 DEF DirInv, TypeOK
  <1>4. NoResurrectedMembers'
    BY DEF NoResurrectedMembers
  <1>5. Honest
    <2>1. \A k \in Keys : rows'[k] # rows[k] => k[1] = last'.scope
      BY <1>1
    <2> QED BY <1>1, <2>1 DEF Honest
  <1> QED BY <1>1, <1>3, <1>4, <1>5 DEF DirInv

LEMMA UpsertProfileStep ==
  ASSUME DirInv, NEW u \in 0..MaxId, NEW v \in ServerVals, UpsertProfile(u, v)
  PROVE  DirInv' /\ Honest
  <1>1. CASE u = 0
    BY <1>1, FailsStep DEF UpsertProfile
  <1>2. CASE u # 0
    <2>1. [k \in Keys |-> IF k[1] = u THEN v ELSE rows[k]]
             = [k \in Keys |-> IF k[1] = u /\ k[2] \in Ids THEN v ELSE rows[k]]
      BY DEF Keys
    <2>2. rows' = [k \in Keys |-> IF k[1] = u /\ k[2] \in Ids THEN v ELSE rows[k]]
      BY <1>2, <2>1 DEF UpsertProfile
    <2>3. v \in Val
      BY OneValIsOne
    <2>4. service = "users" /\ Returns("edit", u, <<>>, TRUE, NoSummary) /\ UNCHANGED <<service, groups, joined>>
      BY <1>2 DEF UpsertProfile
    <2> QED BY <2>2, <2>3, <2>4, ProfileStep
  <1> QED BY <1>1, <1>2

LEMMA UpdateProfileStep ==
  ASSUME DirInv, NEW u \in 0..MaxId, NEW patch \in SUBSET Ids, NEW v \in ServerVals, UpdateProfile(u, patch, v)
  PROVE  DirInv' /\ Honest
  <1>1. CASE Fails
    BY <1>1, FailsStep
  <1>2. CASE ~Fails
    <2>1. v \in Val
      BY OneValIsOne
    <2>2. /\ service = "users" /\ Returns("edit", u, <<>>, TRUE, NoSummary) /\ UNCHANGED <<service, groups, joined>>
          /\ rows' = [k \in Keys |-> IF k[1] = u /\ k[2] \in patch THEN v ELSE rows[k]]
      BY <1>2 DEF UpdateProfile
    <2> QED BY <2>1, <2>2, ProfileStep
  <1> QED BY <1>1, <1>2

LEMMA UpsertGroupStep ==
  ASSUME DirInv, NEW g \in 0..MaxId, NEW v \in ServerVals, UpsertGroup(g, v)
  PROVE  DirInv' /\ Honest
  <1>1. CASE g = 0
    BY <1>1, FailsStep DEF UpsertGroup
  <1>2. CASE g # 0
    <2>1. /\ groups' = [groups EXCEPT ![g] = v] /\ Returns("edit", g, <<>>, TRUE, NoSummary)
          /\ UNCHANGED <<service, rows, joined>>
      BY <1>2 DEF UpsertGroup
    <2>2. last'.ok = TRUE /\ SyncMirrorsServer' /\ ~Synced'
      BY <2>1, EditClaims
    <2>3. TypeOK'
      <3>1. groups' \in [Ids -> Val \cup {None}]
        BY <2>1, OneValIsOne DEF DirInv, TypeOK
      <3> QED BY <2>1, <2>2, <3>1 DEF DirInv, TypeOK
    <2>4. NoResurrectedMembers'
      BY <2>1 DEF DirInv, NoResurrectedMembers
    <2>5. Honest
      BY <2>1, <2>2 DEF Honest
    <2> QED BY <2>2, <2>3, <2>4, <2>5 DEF DirInv
  <1> QED BY <1>1, <1>2

\* The members of groups that go, go with them.
LEMMA MembersGo ==
  ASSUME DirInv, NEW gone, rows' = WithoutMembers(gone), joined' = {k \in joined : k[1] \notin gone},
         UNCHANGED service
  PROVE  /\ rows' \in [Keys -> Val \cup {None}] /\ joined' \subseteq Keys
         /\ NoResurrectedMembers'
         /\ \A k \in Keys : rows'[k] # rows[k] => k[1] \in gone
  <1>1. rows \in [Keys -> Val \cup {None}] /\ joined \subseteq Keys
    BY DEF DirInv, TypeOK
  <1>2. \A k \in Keys : rows'[k] = IF k[1] \in gone THEN None ELSE rows[k]
    BY DEF WithoutMembers
  <1>3. rows' \in [Keys -> Val \cup {None}] /\ joined' \subseteq Keys
    BY <1>1 DEF WithoutMembers
  <1>4. NoResurrectedMembers'
    BY <1>2 DEF DirInv, NoResurrectedMembers
  <1> QED BY <1>2, <1>3, <1>4

LEMMA DeleteGroupStep ==
  ASSUME DirInv, NEW g \in 0..MaxId, DeleteGroup(g)
  PROVE  DirInv' /\ Honest
  <1>1. CASE g = 0
    BY <1>1, FailsStep DEF DeleteGroup
  <1>2. CASE g # 0
    <2>1. /\ groups' = [groups EXCEPT ![g] = None] /\ Returns("edit", g, <<>>, TRUE, NoSummary)
          /\ rows' = WithoutMembers({g}) /\ joined' = {k \in joined : k[1] # g} /\ UNCHANGED service
      BY <1>2 DEF DeleteGroup
    <2>2. joined' = {k \in joined : k[1] \notin {g}}
      BY <2>1
    <2>3. /\ rows' \in [Keys -> Val \cup {None}] /\ joined' \subseteq Keys
          /\ NoResurrectedMembers'
          /\ \A k \in Keys : rows'[k] # rows[k] => k[1] \in {g}
      BY <2>1, <2>2, MembersGo
    <2>4. last'.ok = TRUE /\ last'.scope = g /\ SyncMirrorsServer' /\ ~Synced'
      BY <2>1, EditClaims
    <2>5. TypeOK'
      <3>1. groups' \in [Ids -> Val \cup {None}]
        BY <2>1 DEF DirInv, TypeOK
      <3> QED BY <2>1, <2>3, <2>4, <3>1 DEF DirInv, TypeOK
    <2>6. Honest
      BY <2>3, <2>4 DEF Honest
    <2> QED BY <2>3, <2>4, <2>5, <2>6 DEF DirInv
  <1> QED BY <1>1, <1>2

-----------------------------------------------------------------------------
(* Sync calls *)

LEMMA MirrorsSynced ==
  ASSUME Mirrors(SyncedMap', last'.scope, last'.list),
         \A k \in DOMAIN SyncedMap' : k = <<k[1], k[2]>> /\ k[2] \in Ids
  PROVE  SyncMirrorsServer'
  <1>1. ASSUME NEW k \in DOMAIN SyncedMap', k[1] = last'.scope
        PROVE  LET listed == {last'.list[i].val : i \in {j \in DOMAIN last'.list : last'.list[j].id = k[2]}}
               IN  IF listed = {} THEN SyncedMap'[k] = None ELSE SyncedMap'[k] \in listed
    <2>1. k = <<last'.scope, k[2]>> /\ k[2] \in Ids
      BY <1>1
    <2> QED BY <2>1 DEF Mirrors
  <1> QED BY <1>1 DEF SyncMirrorsServer

\* A sync of rows: the scope mirrors the list, and the summary counts.
LEMMA SyncStep ==
  ASSUME DirInv, NEW s \in 0..MaxId, NEW list \in Lists(s), NEW call \in SyncCalls \ {"sync_groups"},
         Sync(call, s, list)
  PROVE  DirInv' /\ Honest
  <1>1. CASE ~Acceptable(s, list)
    BY <1>1, FailsStep DEF Sync
  <1>2. CASE Acceptable(s, list)
    <2> DEFINE plan == DiffBy(list, ItemsOf(rows, s), DefaultOptions)
               after == ApplyPlan(rows, plan)
               count == Summarize(plan)
    <2>1. s \in Ids /\ list \in Seq(Items(s)) /\ rows \in Maps(Ids) /\ joined \subseteq Keys
      BY <1>2, AcceptedLists DEF DirInv, TypeOK, Keys, Maps
    <2>2. /\ rows' = after
          /\ joined' = {k \in joined : k[1] # s} \cup {Key(list[i]) : i \in DOMAIN list}
          /\ last' = [call |-> call, scope |-> s, list |-> list, ok |-> TRUE, summary |-> count]
          /\ UNCHANGED <<service, groups>>
      BY <1>2 DEF Sync, Returns
    <2>3. /\ last'.call = call /\ last'.scope = s /\ last'.list = list /\ last'.ok = TRUE
          /\ last'.summary = count /\ call # "sync_groups" /\ call \in SyncCalls
      BY <2>2
    <2> HIDE DEF plan
    <2>4. plan = DiffBy(list, ItemsOf(rows, s), DefaultOptions)
      BY DEF plan
    <2> HIDE DEF after, count
    <2>5. after = ApplyPlan(rows, plan) /\ count = Summarize(plan)
      BY DEF after, count
    <2>6. /\ after \in Maps(Ids)
          /\ \A k \in Ids \X Ids : k[1] # s => after[k] = rows[k]
          /\ Mirrors(after, s, list)
      BY <2>1, <2>4, <2>5, SyncedScope
    <2>7. \A i \in DOMAIN list : list[i].scope = s /\ list[i].id \in Ids
      <3>1. \A i \in DOMAIN list : list[i] \in Items(s)
        BY <2>1
      <3> QED BY <3>1 DEF Items
    <2>8. TypeOK'
      <3>1. joined' \subseteq Keys
        BY <2>1, <2>2, <2>7 DEF Key, Keys
      <3>2. rows' \in [Keys -> Val \cup {None}]
        BY <2>2, <2>6 DEF Maps, Keys
      <3> QED BY <2>2, <2>3, <3>1, <3>2 DEF DirInv, TypeOK
    <2>9. SyncMirrorsServer'
      <3>1. SyncedMap' = after
        BY <2>2, <2>3 DEF SyncedMap, MapOf
      <3>2. Mirrors(SyncedMap', last'.scope, last'.list) /\ \A k \in DOMAIN SyncedMap' : k = <<k[1], k[2]>> /\ k[2] \in Ids
        BY <2>3, <2>6, <3>1 DEF Maps
      <3> QED BY <3>2, MirrorsSynced
    <2>10. NoResurrectedMembers'
      <3> SUFFICES ASSUME service = "groups", NEW k \in Ids \X Ids, rows'[k] # None PROVE k \in joined'
        BY <2>2 DEF NoResurrectedMembers, Keys
      <3>1. CASE k[1] # s
        <4>1. k \in joined
          BY <2>2, <2>6, <3>1 DEF DirInv, NoResurrectedMembers, Keys
        <4> QED BY <2>2, <3>1, <4>1
      <3>2. CASE k[1] = s
        <4>1. k = <<s, k[2]>> /\ k[2] \in Ids
          BY <3>2
        <4> DEFINE those == {j \in DOMAIN list : list[j].id = k[2]}
        <4>2. those # {}
          <5>1. those = {} => {list[i].val : i \in those} = {}
            OBVIOUS
          <5>2. {list[i].val : i \in those} = {} => after[<<s, k[2]>>] = None
            BY <2>6, <4>1 DEF Mirrors
          <5> QED BY <2>2, <4>1, <5>1, <5>2
        <4>3. PICK j \in DOMAIN list : list[j].id = k[2]
          BY <2>1, <4>2
        <4>4. Key(list[j]) = k
          BY <2>7, <4>1, <4>3 DEF Key
        <4> QED BY <2>2, <4>3, <4>4
      <3> QED BY <3>1, <3>2
    <2>11. Honest
      <3>1. \A k \in Keys : rows'[k] # rows[k] => k[1] = last'.scope
        BY <2>2, <2>3, <2>6 DEF Keys
      <3>2. ASSUME NoRepeats(last'.list) PROVE SummaryAccounts
        <4>1. \A i, j \in 1..Len(list) : list[i].id = list[j].id => i = j
          BY <2>1, <2>3, <3>2 DEF NoRepeats
        <4>2. /\ Len(ItemsOf(after, s)) = count["Insert"] + count["Update"] + count["Unchanged"]
              /\ Len(ItemsOf(after, s)) = Len(ItemsOf(rows, s)) + count["Insert"] - count["Delete"]
          BY <2>1, <2>4, <2>5, <4>1, SyncCounts
        <4>3. MapOf(last'.call) = rows
          BY <2>3 DEF MapOf
        <4>4. SyncedMap' = after
          BY <2>2, <2>3 DEF SyncedMap, MapOf
        <4>5. ItemsOf(SyncedMap, last.scope)' = ItemsOf(after, s)
          BY <2>3, <4>4
        <4> QED BY <2>3, <4>2, <4>3, <4>5 DEF SummaryAccounts
      <3> QED BY <2>3, <3>1, <3>2 DEF Honest
    <2> QED BY <2>8, <2>9, <2>10, <2>11 DEF DirInv
  <1> QED BY <1>1, <1>2

\* sync_groups: the same for the groups, and the members of those that go.
LEMMA SyncGroupsStep ==
  ASSUME DirInv, NEW list \in Lists(1), SyncGroups(list)
  PROVE  DirInv' /\ Honest
  <1>1. CASE \E i \in DOMAIN list : list[i].id = 0
    BY <1>1, FailsStep DEF SyncGroups
  <1>2. CASE ~ \E i \in DOMAIN list : list[i].id = 0
    <2> DEFINE all == AsGroups(list)
               map == GroupItems
               plan == DiffBy(all, ItemsOf(map, 1), DefaultOptions)
               after == ApplyPlan(map, plan)
               count == Summarize(plan)
               gone == {plan[i].item.id : i \in {j \in DOMAIN plan : plan[j].state = "Delete"}}
    <2>1. all \in Seq(Items(1)) /\ map \in Maps({1}) /\ 1 \in {1}
      <3>1. GroupItems \in Maps({1})
        BY DEF DirInv, TypeOK, GroupItems, Maps
      <3> QED BY <1>2, <3>1, GroupLists
    <2>2. /\ groups' = [g \in Ids |-> after[<<1, g>>]]
          /\ rows' = WithoutMembers(gone) /\ joined' = {k \in joined : k[1] \notin gone} /\ UNCHANGED service
          /\ last' = [call |-> "sync_groups", scope |-> 1, list |-> all, ok |-> TRUE, summary |-> count]
      BY <1>2 DEF SyncGroups, Returns
    <2>3. /\ last'.call = "sync_groups" /\ last'.scope = 1 /\ last'.list = all /\ last'.ok = TRUE
          /\ last'.summary = count
      BY <2>2
    <2> HIDE DEF gone
    <2>4. /\ rows' \in [Keys -> Val \cup {None}] /\ joined' \subseteq Keys
          /\ NoResurrectedMembers'
          /\ \A k \in Keys : rows'[k] # rows[k] => k[1] \in gone
      BY <2>2, MembersGo
    <2> HIDE DEF map, plan, all
    <2>5. plan = DiffBy(all, ItemsOf(map, 1), DefaultOptions)
      BY DEF plan
    <2> HIDE DEF after, count
    <2>6. after = ApplyPlan(map, plan) /\ count = Summarize(plan)
      BY DEF after, count
    <2>7. after \in Maps({1}) /\ Mirrors(after, 1, all)
      BY <2>1, <2>5, <2>6, SyncedScope
    <2>8. TypeOK'
      <3>1. \A g \in Ids : after[<<1, g>>] \in Val \cup {None}
        BY <2>7 DEF Maps
      <3>2. groups' \in [Ids -> Val \cup {None}]
        BY <2>2, <3>1
      <3> QED BY <2>2, <2>3, <2>4, <3>2 DEF DirInv, TypeOK
    <2>9. SyncedMap' = after
      <3>1. \A k \in {1} \X Ids : k = <<1, k[2]>> /\ k[2] \in Ids
        OBVIOUS
      <3>2. \A k \in {1} \X Ids : groups'[k[2]] = after[k]
        BY <2>2, <3>1
      <3>3. GroupItems' = [k \in {1} \X Ids |-> after[k]]
        BY <3>2 DEF GroupItems
      <3>4. GroupItems' = after
        BY <2>7, <3>3 DEF Maps
      <3> QED BY <2>3, <3>4 DEF SyncedMap, MapOf
    <2>10. SyncMirrorsServer'
      <3>1. Mirrors(SyncedMap', last'.scope, last'.list) /\ \A k \in DOMAIN SyncedMap' : k = <<k[1], k[2]>> /\ k[2] \in Ids
        BY <2>3, <2>7, <2>9 DEF Maps
      <3> QED BY <3>1, MirrorsSynced
    <2>11. ASSUME NEW id \in Ids, id \in gone PROVE groups'[id] = None
      <3>1. PICK local : Local(map, 1, local) /\ local = ItemsOf(map, 1)
        BY <2>1, ItemsOfScope
      <3>2. Plans(all, local, plan)
        BY <2>1, <2>5, <3>1, DiffPlans
      <3>3. PICK i \in DOMAIN plan : plan[i].state = "Delete" /\ plan[i].item.id = id
        BY <2>11 DEF gone
      <3>4. id \notin {all[j].id : j \in 1..Len(all)}
        <4>1. i \notin 1..Len(all)
          BY <3>2, <3>3 DEF Plans
        <4>2. DOMAIN plan = 1..Len(plan) /\ Len(all) \in Nat
          BY <2>1, <3>2 DEF Plans
        <4>3. i \in (Len(all) + 1)..Len(plan)
          BY <4>1, <4>2
        <4> QED BY <3>2, <3>3, <4>3 DEF Plans
      <3> DEFINE listed == {all[i_1].val : i_1 \in {j \in DOMAIN all : all[j].id = id}}
      <3>5. listed = {}
        BY <2>1, <3>4
      <3>6. after[<<1, id>>] = None
        BY <2>7, <3>5 DEF Mirrors
      <3> QED BY <2>2, <3>6
    <2>12. Honest
      <3>1. \A k \in Keys : rows'[k] # rows[k] => groups'[k[1]] = None
        BY <2>4, <2>11 DEF Keys
      <3>2. ASSUME NoRepeats(last'.list) PROVE SummaryAccounts
        <4>1. \A i, j \in 1..Len(all) : all[i].id = all[j].id => i = j
          BY <2>1, <2>3, <3>2 DEF NoRepeats
        <4>2. /\ Len(ItemsOf(after, 1)) = count["Insert"] + count["Update"] + count["Unchanged"]
              /\ Len(ItemsOf(after, 1)) = Len(ItemsOf(map, 1)) + count["Insert"] - count["Delete"]
          BY <2>1, <2>5, <2>6, <4>1, SyncCounts
        <4>3. MapOf(last'.call) = map
          BY <2>3 DEF MapOf, map
        <4>4. ItemsOf(SyncedMap, last.scope)' = ItemsOf(after, 1)
          BY <2>3, <2>9
        <4> QED BY <2>3, <4>2, <4>3, <4>4 DEF SummaryAccounts
      <3> QED BY <2>3, <3>1, <3>2 DEF Honest
    <2> QED BY <2>4, <2>8, <2>10, <2>12 DEF DirInv
  <1> QED BY <1>1, <1>2

-----------------------------------------------------------------------------
(* Theorems *)

LEMMA StartIsSound ==
  ASSUME Init
  PROVE  DirInv
  <1>1. last.ok = TRUE /\ last.call = "none"
    BY DEF Init
  <1>2. SyncMirrorsServer
    BY <1>1 DEF SyncMirrorsServer, Synced, SyncCalls
  <1>3. TypeOK /\ NoResurrectedMembers
    BY DEF Init, TypeOK, NoResurrectedMembers
  <1> QED BY <1>2, <1>3 DEF DirInv

\* One step per disjunct of Next.
LEMMA StepIsHonest ==
  ASSUME DirInv, Next
  PROVE  DirInv' /\ Honest
  <1>1. ASSUME NEW s \in 0..MaxId, NEW list \in Lists(s),
               \/ SyncGroupMembers(s, list)
               \/ SyncFriends(s, list)
               \/ SyncBlacklist(s, list)
               \/ SyncConversations(s, list)
        PROVE  DirInv' /\ Honest
    <2>1. PICK call \in SyncCalls \ {"sync_groups"} : Sync(call, s, list)
      BY <1>1 DEF SyncGroupMembers, SyncFriends, SyncBlacklist, SyncConversations, SyncCalls
    <2> QED BY <2>1, SyncStep
  <1>2. ASSUME NEW s \in 0..MaxId, NEW v \in ServerVals,
               \/ UpsertGroup(s, v)
               \/ UpsertProfile(s, v)
               \/ \E patch \in SUBSET Ids : UpdateProfile(s, patch, v)
        PROVE  DirInv' /\ Honest
    BY <1>2, UpsertGroupStep, UpsertProfileStep, UpdateProfileStep
  <1>3. ASSUME NEW s \in 0..MaxId, NEW u \in 0..MaxId,
               \/ DeleteMember(s, u)
               \/ DeleteFriend(s, u)
               \/ DeleteBlacklist(s, u)
               \/ DeleteConversation(s, u)
        PROVE  DirInv' /\ Honest
    <2>1. Put(s, u, None) /\ None \in Val \cup {None}
      BY <1>3 DEF DeleteMember, DeleteFriend, DeleteBlacklist, DeleteConversation
    <2> QED BY <2>1, PutStep
  <1>4. ASSUME NEW s \in 0..MaxId, NEW u \in 0..MaxId, NEW v \in ServerVals,
               \/ UpsertMember(s, u, v)
               \/ UpsertFriend(s, u, v)
               \/ UpsertBlacklist(s, u, v)
               \/ UpsertConversation(s, u, v)
        PROVE  DirInv' /\ Honest
    <2>1. Put(s, u, v) /\ v \in Val \cup {None}
      BY <1>4, OneValIsOne DEF UpsertMember, UpsertFriend, UpsertBlacklist, UpsertConversation
    <2> QED BY <2>1, PutStep
  <1>5. ASSUME NEW s \in 0..MaxId, NEW u \in 0..MaxId, NEW b \in BOOLEAN, SetPinned(s, u, b) \/ SetDraft(s, u, b)
        PROVE  DirInv' /\ Honest
    <2>1. PICK field \in {"pinned", "draft"} : Edit(s, u, field, b)
      BY <1>5 DEF SetPinned, SetDraft
    <2> QED BY <2>1, EditStep
  <1> QED BY <1>1, <1>2, <1>3, <1>4, <1>5, SyncGroupsStep, DeleteGroupStep DEF Next

\* A step that changes nothing keeps the invariant.
LEMMA StutterIsSound ==
  ASSUME DirInv, UNCHANGED vars
  PROVE  DirInv'
  <1>1. service' = service /\ groups' = groups /\ rows' = rows /\ last' = last /\ joined' = joined
    BY DEF vars
  <1>2. TypeOK' /\ NoResurrectedMembers'
    BY <1>1 DEF DirInv, TypeOK, NoResurrectedMembers
  <1>3. SyncMirrorsServer'
    <2> DEFINE Listed(map, scope, list) ==
                   \A k \in DOMAIN map :
                      k[1] = scope =>
                         LET listed == {list[i].val : i \in {j \in DOMAIN list : list[j].id = k[2]}}
                         IN  IF listed = {} THEN map[k] = None ELSE map[k] \in listed
    <2>1. Synced' = Synced /\ SyncedMap' = SyncedMap
      BY <1>1 DEF Synced, SyncedMap, MapOf, GroupItems
    <2>2. Synced => Listed(SyncedMap, last.scope, last.list)
      BY DEF DirInv, SyncMirrorsServer
    <2>3. (Synced' => Listed(SyncedMap', last'.scope, last'.list)) => SyncMirrorsServer'
      BY DEF SyncMirrorsServer
    <2> HIDE DEF Listed
    <2> QED BY <1>1, <2>1, <2>2, <2>3
  <1> QED BY <1>2, <1>3 DEF DirInv

\* The types of the service's maps, what a sync leaves and what a deleted group takes along
\* hold together.
THEOREM DirectoryInvariance == Spec => []DirInv
  <1>1. Init => DirInv
    BY StartIsSound
  <1>2. DirInv /\ [Next]_vars => DirInv'
    BY StepIsHonest, StutterIsSound
  <1> QED BY <1>1, <1>2, PTL DEF Spec

\* The maps hold items, whatever the server lists: ids of another scope and empty ids are
\* turned away by ensure_pair before a plan is made.
THEOREM DirectoryTypes == Spec => []TypeOK
  <1>1. DirInv => TypeOK
    BY DEF DirInv
  <1> QED BY <1>1, DirectoryInvariance, PTL

\* After a sync call of any service the scope holds the ids of the server's list and no
\* other, each with a value the list gives it, whatever was there and whatever the list
\* repeats.
THEOREM SyncsMirror == Spec => []SyncMirrorsServer
  <1>1. DirInv => SyncMirrorsServer
    BY DEF DirInv
  <1> QED BY <1>1, DirectoryInvariance, PTL

\* The members of a group that was deleted, by delete_group or by a sync that no longer
\* lists it, do not come back with the group.
THEOREM MembersStayGone == Spec => []NoResurrectedMembers
  <1>1. DirInv => NoResurrectedMembers
    BY DEF DirInv
  <1> QED BY <1>1, DirectoryInvariance, PTL

\* A failed call changes nothing, a call touches the rows of the scope it names, and the
\* summary of a sync counts exactly the rows that came, went and stayed.
THEOREM CallsAreHonest == Spec => CallsChangeWhatTheySay
  <1>1. DirInv /\ [Next]_vars => [Honest]_vars
    BY StepIsHonest
  <1>2. Spec => [][Honest]_vars
    BY <1>1, DirectoryInvariance, PTL DEF Spec
  <1> QED BY <1>2 DEF CallsChangeWhatTheySay, Honest

\* The pages of the conversation list are the list, a search by pages finds what matches in
\* its order, and the stores list the same rows in the same order while nothing is drafted,
\* with the pinned ones first in any case.
THEOREM ListsAgree == Spec => []ConversationListsAgree
  <1>1. DirInv => ConversationListsAgree
    <2> SUFFICES ASSUME TypeOK, NEW o \in Ids
                 PROVE  (\A show \in {0, 1, 2} : PagesAreTheList(o, show)) /\ StoresKeepTheOrder(o)
      BY DEF DirInv, ConversationListsAgree
    <2> QED BY PagesOfConversations, StoresOrder
  <1> QED BY <1>1, DirectoryInvariance, PTL

==============================================================================
