-------------------------- MODULE MessageFlowProofs --------------------------
(***************************************************************************)
(* Theorems about the message flow, for any messages that satisfy the      *)
(* assumptions of MessageFlow, any conversations and any traffic.          *)
(***************************************************************************)
EXTENDS MessageFlow, FiniteSetTheorems, SequenceTheorems, WellFoundedInduction, TLAPS

-----------------------------------------------------------------------------
(* Numbers *)

LEMMA LeastNumber ==
  ASSUME NEW T \in SUBSET Nat, T # {}
  PROVE  \E n \in T : \A m \in T : n <= m
  <1> DEFINE R == OpToRel(<, Nat)
  <1>1. IsWellFoundedOn(R, Nat)
    BY NatLessThanWellFounded
  <1>2. ASSUME NEW m \in Nat, NEW n \in Nat, m < n PROVE <<m, n>> \in R
    BY <1>2 DEF OpToRel
  <1> HIDE DEF R
  <1>3. PICK n \in T : \A m \in T : <<m, n>> \notin R
    BY <1>1, WFMin
  <1>4. ASSUME NEW m \in T PROVE n <= m
    <2>1. ~(m < n)
      BY <1>2, <1>3
    <2> QED BY <2>1
  <1> QED BY <1>4

\* Induction up to n, on the set of the numbers a statement holds for.
LEMMA Induct ==
  ASSUME NEW n \in Nat, NEW T, 0 \in T, \A i \in 0..(n - 1) : i \in T => i + 1 \in T
  PROVE  n \in T
  <1> DEFINE Bad == { i \in 0..n : i \notin T }
  <1> SUFFICES ASSUME n \notin T PROVE FALSE
    OBVIOUS
  <1>0. n \in Bad
    OBVIOUS
  <1>1. PICK m \in Bad : \A i \in Bad : m <= i
    <2>1. Bad \in SUBSET Nat
      OBVIOUS
    <2> HIDE DEF Bad
    <2> QED BY <1>0, <2>1, LeastNumber
  <1>2. m # 0 /\ m - 1 \in 0..(n - 1) /\ m - 1 \notin Bad
    BY <1>1
  <1>3. m - 1 \in T /\ (m - 1) + 1 = m
    BY <1>2
  <1> QED BY <1>1, <1>2, <1>3

\* A set of numbers below a bound has a largest one.
LEMMA LargestNumber ==
  ASSUME NEW n \in Nat, NEW T \in SUBSET (1..n), T # {}
  PROVE  Max(T) \in T /\ \A m \in T : m <= Max(T)
  <1> DEFINE D == { n - m : m \in T }
  <1>1. PICK d \in D : \A e \in D : d <= e
    <2>1. \A m \in T : n - m \in Nat /\ n - m \in D
      OBVIOUS
    <2>2. D \in SUBSET Nat /\ D # {}
      BY <2>1
    <2> HIDE DEF D
    <2> QED BY <2>2, LeastNumber
  <1>2. PICK x \in T : d = n - x
    BY <1>1
  <1>3. \A m \in T : x >= m
    <2> SUFFICES ASSUME NEW m \in T PROVE x >= m
      OBVIOUS
    <2>1. n - x <= n - m
      BY <1>1, <1>2
    <2> QED BY <2>1
  <1>4. Max(T) \in T /\ \A m \in T : Max(T) >= m
    BY <1>3 DEF Max
  <1> QED BY <1>4

\* A step on the elements of D can be repeated n times.
Steppers(D, n) == [D \X (1..n) -> D]
Repeats(h, v, next, n) == h[0] = v /\ \A i \in 1..n : h[i] = next[<<h[i - 1], i>>]

LEMMA Iterates ==
  ASSUME NEW n \in Nat, NEW D, NEW v \in D, NEW next \in Steppers(D, n)
  PROVE  \E h \in [0..n -> D] : Repeats(h, v, next, n)
  <1> USE DEF Steppers
  <1> DEFINE Steps(h, k) == /\ h \in [0..k -> D] /\ h[0] = v
                            /\ \A i \in 1..k : h[i] = next[<<h[i - 1], i>>]
             T == { k \in 0..n : \E h : Steps(h, k) }
  <1>1. 0 \in T
    <2> DEFINE h == [i \in 0..0 |-> v]
    <2>1. Steps(h, 0)
      OBVIOUS
    <2>2. 0 \in 0..n
      OBVIOUS
    <2> HIDE DEF h, Steps
    <2> QED BY <2>1, <2>2
  <1>2. \A k \in 0..(n - 1) : k \in T => k + 1 \in T
    <2> SUFFICES ASSUME NEW k \in 0..(n - 1), k \in T PROVE k + 1 \in T
      OBVIOUS
    <2>1. PICK g : Steps(g, k)
      OBVIOUS
    <2> DEFINE x == next[<<g[k], k + 1>>]
               h == [i \in 0..(k + 1) |-> IF i = k + 1 THEN x ELSE g[i]]
    <2>2. g[k] \in D /\ k + 1 \in 1..n
      BY <2>1
    <2>3. x \in D
      BY <2>2
    <2> HIDE DEF x
    <2>4. h \in [0..(k + 1) -> D] /\ h[0] = v
      BY <2>1, <2>3
    <2>5. ASSUME NEW i \in 1..(k + 1) PROVE h[i] = next[<<h[i - 1], i>>]
      <3>1. CASE i = k + 1
        <4>1. h[i] = x /\ h[i - 1] = g[k]
          BY <3>1
        <4> QED BY <3>1, <4>1 DEF x
      <3>2. CASE i # k + 1
        <4>1. i \in 1..k /\ h[i] = g[i] /\ h[i - 1] = g[i - 1]
          BY <3>2
        <4>2. g[i] = next[<<g[i - 1], i>>]
          BY <2>1, <4>1
        <4> HIDE DEF h
        <4> QED BY <4>1, <4>2
      <3> QED BY <3>1, <3>2
    <2> HIDE DEF h
    <2>6. Steps(h, k + 1)
      BY <2>4, <2>5
    <2> HIDE DEF Steps
    <2> QED BY <2>6
  <1>3. n \in T
    <2> HIDE DEF T
    <2> QED BY <1>1, <1>2, Induct
  <1>4. PICK h : Steps(h, n)
    BY <1>3
  <1> QED BY <1>4 DEF Repeats

-----------------------------------------------------------------------------
(* One message and its conversation *)

Entries ==
    [exists : BOOLEAN, target : Targets, maxSeq : Nat, unread : Nat,
     latest : [id : Msgs \cup {NoMsg}, seq : Nat, time : Nat]]

\* A copy of a message of a conversation of the owner: the server's, or that of a send, whose
\* acknowledgement may lack the sequence number.
Copy(x) ==
    /\ x.id \in Msgs /\ x.conv = Route(x.id).conv /\ x.conv \in Convs
    /\ x.type = Attr[x.id].type /\ x.sender = Attr[x.id].sender
    /\ x.recv = Route(x.id).recv /\ x.group = Route(x.id).group
    /\ x.seq \in {0, Attr[x.id].seq} /\ x.time = Attr[x.id].time
    /\ x.read \in BOOLEAN /\ ~x.revoked
    /\ x.sender # Owner => x.read = Attr[x.id].read

\* What may be projected onto c.
Refs(c) == {p \in [id : Msgs, seq : Nat] : Route(p.id).conv = c /\ p.seq \in {0, Attr[p.id].seq}}
Ref(x) == [id |-> x.id, seq |-> x.seq]
Unread(x) == IF x.sender # Owner /\ ~x.read THEN {x.id} ELSE {}

Newest(e, refs) ==
    /\ \E p \in refs : p.seq = e.maxSeq
    /\ \A p \in refs : p.seq <= e.maxSeq
    /\ \E p \in refs : /\ e.latest = [id |-> p.id, seq |-> p.seq, time |-> Attr[p.id].time]
                       /\ \A q \in refs : Attr[q.id].time <= Attr[p.id].time

\* Entry e of conversation c, onto which refs were projected and which has the unread
\* messages ids.
Agrees(c, e, refs, ids) ==
    /\ e \in Entries /\ refs \subseteq Refs(c) /\ ids \subseteq Msgs
    /\ IsFiniteSet(ids) /\ e.unread >= Cardinality(ids)
    /\ ~e.exists => e = NoConversation /\ refs = {}
    /\ e.exists => /\ Newest(e, refs)
                   /\ \E p \in refs : e.target = ConversationTarget(Incoming(p.id))

LEMMA AttrTypes ==
  ASSUME NEW m \in Msgs
  PROVE  /\ Attr[m].seq \in Nat \ {0} /\ Attr[m].time \in Nat /\ Attr[m].read \in BOOLEAN
         /\ Attr[m].kind \in Kinds /\ Attr[m].status \in Statuses /\ m # NoMsg
  BY FlowConstants DEF FlowConstants

\* Whether the message or the conversation's latest one is the newer one, by the rule of
\* should_replace_latest, is whether its send time is.
LEMMA ReplaceByTime ==
  ASSUME NEW c, NEW e, NEW refs, NEW ids, Agrees(c, e, refs, ids), e.exists,
         NEW x, Copy(x), x.conv = c,
         NEW latest, latest = IF ShouldReplaceLatest(e, x) THEN Snapshot(x) ELSE e.latest
  PROVE  \E p \in refs \cup {Ref(x)} :
            /\ latest = [id |-> p.id, seq |-> p.seq, time |-> Attr[p.id].time]
            /\ \A q \in refs \cup {Ref(x)} : Attr[q.id].time <= Attr[p.id].time
  <1>1. PICK p \in refs : /\ e.latest = [id |-> p.id, seq |-> p.seq, time |-> Attr[p.id].time]
                          /\ \A q \in refs : Attr[q.id].time <= Attr[p.id].time
    BY DEF Agrees, Newest
  <1>2. /\ refs \subseteq Refs(c) /\ p.id \in Msgs /\ p.seq \in {0, Attr[p.id].seq} /\ Route(p.id).conv = c
        /\ \A q \in refs : q.id \in Msgs
    BY DEF Agrees, Refs
  <1>3. x.id \in Msgs /\ Route(x.id).conv = c /\ x.seq \in {0, Attr[x.id].seq} /\ x.time = Attr[x.id].time
    BY DEF Copy
  <1>4. /\ Attr[x.id].seq \in Nat \ {0} /\ Attr[x.id].time \in Nat
        /\ Attr[p.id].seq \in Nat \ {0} /\ Attr[p.id].time \in Nat
        /\ \A q \in refs : Attr[q.id].time \in Nat
    BY <1>2, <1>3, AttrTypes
  <1>5. e.latest # NoLatest
    BY <1>1, <1>2, AttrTypes DEF NoLatest
  <1>6. /\ Attr[x.id].seq < Attr[p.id].seq => Attr[x.id].time < Attr[p.id].time
        /\ Attr[p.id].seq < Attr[x.id].seq => Attr[p.id].time < Attr[x.id].time
    BY <1>2, <1>3, SeqAndTimeAgree DEF SeqAndTimeAgree
  <1>7. e.latest.seq = p.seq /\ e.latest.time = Attr[p.id].time
    BY <1>1
  <1>8. CASE ShouldReplaceLatest(e, x)
    <2>1. Attr[p.id].time <= Attr[x.id].time
      BY <1>3, <1>4, <1>2, <1>5, <1>6, <1>7, <1>8 DEF ShouldReplaceLatest
    <2>2. \A q \in refs : Attr[q.id].time <= Attr[x.id].time
      BY <1>1, <1>4, <2>1
    <2>3. Snapshot(x) = [id |-> Ref(x).id, seq |-> Ref(x).seq, time |-> Attr[Ref(x).id].time] /\ Ref(x).id = x.id
      BY <1>3 DEF Snapshot, Ref
    <2> QED BY <1>4, <1>8, <2>2, <2>3
  <1>9. CASE ~ShouldReplaceLatest(e, x)
    <2>1. Attr[x.id].time <= Attr[p.id].time
      BY <1>3, <1>4, <1>2, <1>5, <1>6, <1>7, <1>9 DEF ShouldReplaceLatest
    <2>2. Ref(x).id = x.id
      BY DEF Ref
    <2> QED BY <1>1, <1>9, <2>1, <2>2
  <1> QED BY <1>8, <1>9

LEMMA CopyTarget ==
  ASSUME NEW x, Copy(x)
  PROVE  /\ ConversationTarget(x) = ConversationTarget(Incoming(x.id)) /\ ConversationTarget(x) \in Targets
         /\ Ref(x) \in Refs(x.conv) /\ x.seq \in Nat /\ x.time \in Nat
  <1>1. /\ Incoming(x.id).type = x.type /\ Incoming(x.id).sender = x.sender
        /\ Incoming(x.id).recv = x.recv /\ Incoming(x.id).group = x.group
    BY DEF Copy, Incoming
  <1>2. x.seq \in Nat /\ x.time \in Nat
    BY AttrTypes DEF Copy
  <1>3. Ref(x) \in Refs(x.conv)
    BY <1>2 DEF Copy, Ref, Refs
  <1> QED BY <1>1, <1>2, <1>3 DEF ConversationTarget, Targets, Copy

LEMMA EntryTypes ==
  ASSUME NEW e \in Entries, NEW x, Copy(x)
  PROVE  ApplyMessage(e, x) \in Entries
  <1> DEFINE new == ApplyMessage(e, x)
             old == IF e.exists THEN e ELSE FromMessage(x)
  <1>1. /\ new = [exists |-> TRUE, target |-> new.target, maxSeq |-> new.maxSeq,
                  latest |-> new.latest, unread |-> new.unread]
        /\ new.target = old.target
        /\ new.maxSeq = IF x.seq > old.maxSeq THEN x.seq ELSE old.maxSeq
        /\ new.latest = IF ShouldReplaceLatest(old, x) THEN Snapshot(x) ELSE old.latest
        /\ new.unread = IF CountsAsUnread(x) THEN old.unread + 1 ELSE old.unread
    BY DEF ApplyMessage
  <1>2. /\ old.unread \in Nat /\ old.maxSeq \in Nat
        /\ old.target = IF e.exists THEN e.target ELSE ConversationTarget(x)
        /\ old.latest \in [id : Msgs \cup {NoMsg}, seq : Nat, time : Nat]
    BY DEF Entries, FromMessage, NoConversation, NoLatest
  <1>3. Snapshot(x) \in [id : Msgs \cup {NoMsg}, seq : Nat, time : Nat]
    BY CopyTarget DEF Snapshot, Copy
  <1>4. new.target \in Targets
    BY <1>1, <1>2, CopyTarget DEF Entries
  <1>5. new.maxSeq \in Nat /\ new.unread \in Nat
    BY <1>1, <1>2, CopyTarget
  <1>6. new.latest \in [id : Msgs \cup {NoMsg}, seq : Nat, time : Nat]
    BY <1>1, <1>2, <1>3
  <1>7. new.exists
    BY DEF ApplyMessage
  <1> HIDE DEF new
  <1>8. new \in Entries
    BY <1>1, <1>4, <1>5, <1>6, <1>7 DEF Entries
  <1> QED BY <1>8 DEF new

\* apply_message keeps a conversation in agreement with what it has been given.
LEMMA EntryStep ==
  ASSUME NEW c, NEW e, NEW refs, NEW ids, Agrees(c, e, refs, ids), NEW x, Copy(x), x.conv = c
  PROVE  /\ Agrees(c, ApplyMessage(e, x), refs \cup {Ref(x)}, ids \cup Unread(x))
         /\ ApplyMessage(e, x).exists
  <1> DEFINE new == ApplyMessage(e, x)
             old == IF e.exists THEN e ELSE FromMessage(x)
  <1>1. /\ new.exists /\ new.target = old.target
        /\ new.maxSeq = IF x.seq > old.maxSeq THEN x.seq ELSE old.maxSeq
        /\ new.latest = IF ShouldReplaceLatest(old, x) THEN Snapshot(x) ELSE old.latest
        /\ new.unread = IF CountsAsUnread(x) THEN old.unread + 1 ELSE old.unread
        /\ new = [exists |-> TRUE, target |-> new.target, maxSeq |-> new.maxSeq,
                  latest |-> new.latest, unread |-> new.unread]
    BY DEF ApplyMessage
  <1>2. /\ old.unread \in Nat /\ old.unread = e.unread /\ old.maxSeq \in Nat
        /\ old.target = IF e.exists THEN e.target ELSE ConversationTarget(x)
        /\ ~e.exists => old.maxSeq = 0 /\ old.latest = NoLatest
    BY DEF Agrees, Entries, FromMessage, NoConversation
  <1>3. Ref(x).id = x.id /\ Ref(x).seq = x.seq /\ Ref(x) \in refs \cup {Ref(x)}
    BY DEF Ref
  <1>5. new \in Entries
    BY EntryTypes DEF Agrees
  <1>6. refs \cup {Ref(x)} \subseteq Refs(c)
    BY CopyTarget DEF Agrees
  <1>7. ids \cup Unread(x) \subseteq Msgs
    BY DEF Agrees, Unread, Copy
  <1>8. IsFiniteSet(ids \cup Unread(x)) /\ new.unread >= Cardinality(ids \cup Unread(x))
    <2>1. IsFiniteSet(ids) /\ e.unread >= Cardinality(ids) /\ Cardinality(ids) \in Nat
      BY FS_CardinalityType DEF Agrees
    <2>2. CASE Unread(x) = {}
      <3>1. ids \cup Unread(x) = ids
        BY <2>2
      <3>2. new.unread >= e.unread
        BY <1>1, <1>2
      <3>3. new.unread \in Nat /\ e.unread \in Nat
        BY <1>1, <1>2
      <3> HIDE DEF new, old
      <3>4. new.unread >= Cardinality(ids)
        BY <2>1, <3>2, <3>3
      <3> QED BY <2>1, <3>1, <3>4
    <2>3. CASE Unread(x) # {}
      <3>1. Unread(x) = {x.id} /\ CountsAsUnread(x)
        BY <2>3 DEF Unread, CountsAsUnread, Copy
      <3>2. new.unread = e.unread + 1
        BY <1>1, <1>2, <3>1
      <3>3. IsFiniteSet(ids \cup {x.id}) /\ Cardinality(ids \cup {x.id}) \in Nat
        /\ Cardinality(ids \cup {x.id}) <= Cardinality(ids) + 1
        BY <2>1, FS_AddElement
      <3> HIDE DEF new, old
      <3> QED BY <1>2, <2>1, <3>1, <3>2, <3>3
    <2> QED BY <2>2, <2>3
  <1>9. Newest(new, refs \cup {Ref(x)})
    <2>1. CASE e.exists
      <3>1. Newest(e, refs) /\ refs \subseteq Refs(c)
        BY <2>1 DEF Agrees
      <3>2. \A p \in refs : p.seq \in Nat
        BY <3>1 DEF Refs
      <3>3. /\ \E p \in refs \cup {Ref(x)} : p.seq = new.maxSeq
            /\ \A p \in refs \cup {Ref(x)} : p.seq <= new.maxSeq
        BY <1>1, <1>2, <1>3, <2>1, <3>1, <3>2, CopyTarget DEF Newest
      <3>4. old = e
        BY <2>1
      <3>5. new.latest = IF ShouldReplaceLatest(e, x) THEN Snapshot(x) ELSE e.latest
        BY <1>1, <3>4
      <3> HIDE DEF new, old
      <3>6. \E p \in refs \cup {Ref(x)} :
               /\ new.latest = [id |-> p.id, seq |-> p.seq, time |-> Attr[p.id].time]
               /\ \A q \in refs \cup {Ref(x)} : Attr[q.id].time <= Attr[p.id].time
        BY <2>1, <3>5, ReplaceByTime
      <3> QED BY <3>3, <3>6 DEF Newest
    <2>2. CASE ~e.exists
      <3>1. refs = {}
        BY <2>2 DEF Agrees
      <3>2. new.maxSeq = x.seq /\ new.latest = Snapshot(x)
        BY <1>1, <1>2, <2>2, CopyTarget DEF ShouldReplaceLatest
      <3>3. Snapshot(x) = [id |-> x.id, seq |-> x.seq, time |-> Attr[x.id].time]
        BY DEF Snapshot, Copy
      <3>4. Attr[x.id].time <= Attr[x.id].time /\ x.seq <= x.seq
        <4>1. x.seq \in Nat /\ x.id \in Msgs
          BY CopyTarget DEF Copy
        <4>2. Attr[x.id].time \in Nat
          BY <4>1, AttrTypes
        <4> QED BY <4>1, <4>2
      <3> HIDE DEF new, old
      <3> QED BY <1>3, <3>1, <3>2, <3>3, <3>4 DEF Newest
    <2> QED BY <2>1, <2>2
  <1>10. \E p \in refs \cup {Ref(x)} : new.target = ConversationTarget(Incoming(p.id))
    BY <1>1, <1>2, <1>3, CopyTarget DEF Agrees
  <1> HIDE DEF new, old
  <1> QED BY <1>1, <1>5, <1>6, <1>7, <1>8, <1>9, <1>10 DEF Agrees, new

-----------------------------------------------------------------------------
(* A batch of messages *)

Copies(ms) == Len(ms) \in Nat /\ DOMAIN ms = 1..Len(ms) /\ \A i \in 1..Len(ms) : Copy(ms[i])

\* What the first i messages of ms add to conversation c.
Touched(ms, c, i) == \E j \in 1..i : ms[j].conv = c
RefsAfter(ms, c, i) == projected[c] \cup {Ref(ms[j]) : j \in {k \in 1..i : ms[k].conv = c}}
UnreadAfter(ms, c, i) == fresh[c] \cup UNION {Unread(ms[j]) : j \in {k \in 1..i : ms[k].conv = c}}

BatchTypes == [convs : [Convs -> Entries], new : SUBSET Convs, changed : SUBSET Convs]

\* The batch after i messages: conversations that were not there are new, the others that
\* got a message are changed.
Filed(batch, ms, c, i) ==
    /\ c \in batch.new <=> Touched(ms, c, i) /\ ~convs[c].exists
    /\ c \in batch.changed <=> Touched(ms, c, i) /\ convs[c].exists
    /\ batch.convs[c].exists <=> Touched(ms, c, i) \/ convs[c].exists
    /\ ~Touched(ms, c, i) => batch.convs[c] = convs[c]

LEMMA BatchStepTypes ==
  ASSUME NEW batch \in BatchTypes, NEW x, Copy(x)
  PROVE  ApplyToBatch(batch, x) \in BatchTypes
  <1>1. x.conv \in Convs /\ batch.convs[x.conv] \in Entries
    BY DEF Copy, BatchTypes
  <1>2. ApplyMessage(batch.convs[x.conv], x) \in Entries
    BY <1>1, EntryTypes
  <1> QED BY <1>1, <1>2 DEF ApplyToBatch, BatchTypes

\* What ApplyMessages computes, message by message.
LEMMA BatchSteps ==
  ASSUME NEW ms, Copies(ms), convs \in [Convs -> Entries]
  PROVE  \E h \in [0..Len(ms) -> BatchTypes] :
            /\ h[0] = [convs |-> convs, new |-> {}, changed |-> {}]
            /\ \A i \in 1..Len(ms) : h[i] = ApplyToBatch(h[i - 1], ms[i])
            /\ ApplyMessages(convs, ms) = h[Len(ms)]
  <1> DEFINE n == Len(ms)
             start == [convs |-> convs, new |-> {}, changed |-> {}]
             next == [p \in BatchTypes \X (1..n) |-> ApplyToBatch(p[1], ms[p[2]])]
             Def(g) == g = [i \in 0..n |-> IF i = 0 THEN start ELSE ApplyToBatch(g[i - 1], ms[i])]
  <1>1. n \in Nat /\ start \in BatchTypes
    BY DEF Copies, BatchTypes
  <1>2. next \in Steppers(BatchTypes, n)
    <2>1. ASSUME NEW p \in BatchTypes \X (1..n) PROVE ApplyToBatch(p[1], ms[p[2]]) \in BatchTypes
      BY BatchStepTypes DEF Copies
    <2> QED BY <2>1 DEF Steppers
  <1>4. PICK h \in [0..n -> BatchTypes] : Repeats(h, start, next, n)
    <2> HIDE DEF next, start, n
    <2> QED BY <1>1, <1>2, Iterates
  <1>5. ASSUME NEW i \in 1..n PROVE h[i] = ApplyToBatch(h[i - 1], ms[i])
    <2>1. i - 1 \in 0..n
      BY <1>1
    <2>2. <<h[i - 1], i>> \in BatchTypes \X (1..n)
      BY <1>4, <2>1
    <2>3. next[<<h[i - 1], i>>] = ApplyToBatch(h[i - 1], ms[i])
      BY <2>2
    <2> QED BY <1>4, <2>3 DEF Repeats
  <1>6. Def(h)
    <2> HIDE DEF next, start
    <2>1. \A i \in 0..n : h[i] = IF i = 0 THEN start ELSE ApplyToBatch(h[i - 1], ms[i])
      <3> SUFFICES ASSUME NEW i \in 0..n
                   PROVE  h[i] = IF i = 0 THEN start ELSE ApplyToBatch(h[i - 1], ms[i])
        OBVIOUS
      <3>1. CASE i = 0
        BY <1>4, <3>1 DEF Repeats
      <3>2. CASE i # 0
        <4>1. i \in 1..n
          BY <1>1, <3>2
        <4> QED BY <1>5, <3>2, <4>1
      <3> QED BY <3>1, <3>2
    <2> QED BY <1>4, <2>1
  <1> DEFINE batch == CHOOSE g : Def(g)
  <1>7. Def(batch)
    BY <1>6
  <1>8. ApplyMessages(convs, ms) = batch[n]
    BY DEF ApplyMessages
  <1>9. batch[0] = start /\ \A i \in 1..n : batch[i] = ApplyToBatch(batch[i - 1], ms[i])
    <2> HIDE DEF batch, start
    <2> QED BY <1>1, <1>7
  <1>10. batch \in [0..n -> BatchTypes]
    <2> DEFINE T == { i \in 0..n : batch[i] \in BatchTypes }
    <2>1. 0 \in T
      BY <1>1, <1>9
    <2>2. \A i \in 0..(n - 1) : i \in T => i + 1 \in T
      <3> SUFFICES ASSUME NEW i \in 0..(n - 1), i \in T PROVE i + 1 \in T
        OBVIOUS
      <3>1. i + 1 \in 1..n /\ i + 1 \in 0..n /\ (i + 1) - 1 = i
        BY <1>1
      <3>2. batch[i + 1] = ApplyToBatch(batch[i], ms[i + 1])
        BY <1>9, <3>1
      <3>3. ApplyToBatch(batch[i], ms[i + 1]) \in BatchTypes
        BY <3>1, BatchStepTypes DEF Copies
      <3> HIDE DEF batch
      <3> QED BY <3>1, <3>2, <3>3
    <2>3. \A i \in 0..n : batch[i] \in BatchTypes
      <3> SUFFICES ASSUME NEW i \in 0..n PROVE i \in T
        OBVIOUS
      <3>1. i \in Nat /\ \A j \in 0..(i - 1) : j \in T => j + 1 \in T
        BY <1>1, <2>2
      <3> HIDE DEF T
      <3> QED BY <2>1, <3>1, Induct
    <2> HIDE DEF batch
    <2> QED BY <1>7, <2>3
  <1> HIDE DEF batch
  <1> QED BY <1>8, <1>9, <1>10

LEMMA AfterNone ==
  ASSUME NEW ms, NEW c
  PROVE  ~Touched(ms, c, 0) /\ RefsAfter(ms, c, 0) = projected[c] /\ UnreadAfter(ms, c, 0) = fresh[c]
  <1>1. 1..0 = {}
    OBVIOUS
  <1> QED BY <1>1 DEF Touched, RefsAfter, UnreadAfter

LEMMA AfterNext ==
  ASSUME NEW ms, NEW c, NEW i \in Nat
  PROVE  /\ Touched(ms, c, i + 1) <=> Touched(ms, c, i) \/ ms[i + 1].conv = c
         /\ ms[i + 1].conv = c =>
              /\ RefsAfter(ms, c, i + 1) = RefsAfter(ms, c, i) \cup {Ref(ms[i + 1])}
              /\ UnreadAfter(ms, c, i + 1) = UnreadAfter(ms, c, i) \cup Unread(ms[i + 1])
         /\ ms[i + 1].conv # c =>
              /\ RefsAfter(ms, c, i + 1) = RefsAfter(ms, c, i)
              /\ UnreadAfter(ms, c, i + 1) = UnreadAfter(ms, c, i)
  <1> DEFINE at(k) == {j \in 1..k : ms[j].conv = c}
  <1>1. 1..(i + 1) = (1..i) \cup {i + 1}
    OBVIOUS
  <1>2. at(i + 1) = IF ms[i + 1].conv = c THEN at(i) \cup {i + 1} ELSE at(i)
    BY <1>1
  <1>3. \A k \in Nat : RefsAfter(ms, c, k) = projected[c] \cup {Ref(ms[j]) : j \in at(k)}
    BY DEF RefsAfter
  <1>4. \A k \in Nat : UnreadAfter(ms, c, k) = fresh[c] \cup UNION {Unread(ms[j]) : j \in at(k)}
    BY DEF UnreadAfter
  <1>5. Touched(ms, c, i + 1) <=> Touched(ms, c, i) \/ ms[i + 1].conv = c
    BY <1>1 DEF Touched
  <1>6. i + 1 \in Nat
    OBVIOUS
  <1>7. CASE ms[i + 1].conv = c
    <2>1. at(i + 1) = at(i) \cup {i + 1}
      BY <1>2, <1>7
    <2> HIDE DEF at
    <2>2. /\ {Ref(ms[j]) : j \in at(i + 1)} = {Ref(ms[j]) : j \in at(i)} \cup {Ref(ms[i + 1])}
          /\ UNION {Unread(ms[j]) : j \in at(i + 1)}
               = (UNION {Unread(ms[j]) : j \in at(i)}) \cup Unread(ms[i + 1])
      BY <2>1
    <2>3. RefsAfter(ms, c, i + 1) = RefsAfter(ms, c, i) \cup {Ref(ms[i + 1])}
      BY <1>3, <1>6, <2>2
    <2>4. UnreadAfter(ms, c, i + 1) = UnreadAfter(ms, c, i) \cup Unread(ms[i + 1])
      BY <1>4, <1>6, <2>2
    <2> QED BY <1>5, <1>7, <2>3, <2>4
  <1>8. CASE ms[i + 1].conv # c
    <2>1. at(i + 1) = at(i)
      BY <1>2, <1>8
    <2> HIDE DEF at
    <2> QED BY <1>3, <1>4, <1>5, <1>6, <1>8, <2>1
  <1> QED BY <1>7, <1>8

\* A batch keeps every conversation in agreement, and files it under the right heading.
LEMMA BatchAgrees ==
  ASSUME convs \in [Convs -> Entries], \A c \in Convs : Agrees(c, convs[c], projected[c], fresh[c]),
         NEW ms, Copies(ms), NEW batch, batch = ApplyMessages(convs, ms)
  PROVE  /\ batch \in BatchTypes
         /\ \A c \in Convs : /\ Agrees(c, batch.convs[c], RefsAfter(ms, c, Len(ms)), UnreadAfter(ms, c, Len(ms)))
                             /\ Filed(batch, ms, c, Len(ms))
  <1> DEFINE n == Len(ms)
             Good(b, i) == \A c \in Convs :
                              /\ Agrees(c, b.convs[c], RefsAfter(ms, c, i), UnreadAfter(ms, c, i))
                              /\ Filed(b, ms, c, i)
  <1>1. n \in Nat
    BY DEF Copies
  <1>2. PICK h \in [0..n -> BatchTypes] :
           /\ h[0] = [convs |-> convs, new |-> {}, changed |-> {}]
           /\ \A i \in 1..n : h[i] = ApplyToBatch(h[i - 1], ms[i])
           /\ ApplyMessages(convs, ms) = h[n]
    BY BatchSteps
  <1> DEFINE T == { i \in 0..n : Good(h[i], i) }
  <1>3. 0 \in T
    <2>1. h[0].convs = convs /\ h[0].new = {} /\ h[0].changed = {}
      BY <1>2
    <2>2. Good(h[0], 0)
      BY <2>1, AfterNone DEF Filed
    <2> QED BY <1>1, <2>2
  <1>4. ASSUME NEW i \in 0..(n - 1), Good(h[i], i) PROVE Good(h[i + 1], i + 1)
    <2> DEFINE x == ms[i + 1]
               old == h[i]
               new == h[i + 1]
    <2>1. i + 1 \in 1..n /\ (i + 1) - 1 = i /\ i \in 0..n /\ i \in Nat
      BY <1>1
    <2>2. Copy(x) /\ x.conv \in Convs
      BY <2>1 DEF Copies, Copy
    <2>3. new = ApplyToBatch(old, x) /\ old \in BatchTypes
      BY <1>2, <2>1
    <2> SUFFICES ASSUME NEW c \in Convs
                 PROVE  /\ Agrees(c, new.convs[c], RefsAfter(ms, c, i + 1), UnreadAfter(ms, c, i + 1))
                        /\ Filed(new, ms, c, i + 1)
      OBVIOUS
    <2>4. Agrees(c, old.convs[c], RefsAfter(ms, c, i), UnreadAfter(ms, c, i)) /\ Filed(old, ms, c, i)
      BY <1>4
    <2>5. /\ new.convs = [old.convs EXCEPT ![x.conv] = ApplyMessage(@, x)]
          /\ new.new = IF ~old.convs[x.conv].exists \/ x.conv \in old.new
                       THEN old.new \cup {x.conv} ELSE old.new
          /\ new.changed = IF ~old.convs[x.conv].exists \/ x.conv \in old.new
                           THEN old.changed \ {x.conv} ELSE old.changed \cup {x.conv}
      BY <2>3 DEF ApplyToBatch
    <2>6. old.convs \in [Convs -> Entries]
      BY <2>3 DEF BatchTypes
    <2> HIDE DEF x, old, new
    <2>7. CASE x.conv = c
      <3>1. new.convs[c] = ApplyMessage(old.convs[c], x)
        BY <2>5, <2>6, <2>7
      <3> DEFINE e == old.convs[c]
                 refs == RefsAfter(ms, c, i)
                 ids == UnreadAfter(ms, c, i)
      <3>2. Agrees(c, e, refs, ids)
        BY <2>4
      <3> HIDE DEF e, refs, ids
      <3>3. Agrees(c, ApplyMessage(e, x), refs \cup {Ref(x)}, ids \cup Unread(x)) /\ ApplyMessage(e, x).exists
        BY <2>2, <2>7, <3>2, EntryStep
      <3>4. /\ Agrees(c, new.convs[c], RefsAfter(ms, c, i) \cup {Ref(x)}, UnreadAfter(ms, c, i) \cup Unread(x))
            /\ new.convs[c].exists
        BY <3>1, <3>3 DEF e, refs, ids
      <3>5. /\ Touched(ms, c, i + 1)
            /\ RefsAfter(ms, c, i + 1) = RefsAfter(ms, c, i) \cup {Ref(x)}
            /\ UnreadAfter(ms, c, i + 1) = UnreadAfter(ms, c, i) \cup Unread(x)
        <4>1. x = ms[i + 1]
          BY DEF x
        <4>2. /\ Touched(ms, c, i + 1)
              /\ RefsAfter(ms, c, i + 1) = RefsAfter(ms, c, i) \cup {Ref(ms[i + 1])}
              /\ UnreadAfter(ms, c, i + 1) = UnreadAfter(ms, c, i) \cup Unread(ms[i + 1])
          <5>1. ms[i + 1].conv = c /\ i \in Nat
            BY <2>1, <2>7, <4>1
          <5> HIDE DEF refs, ids
          <5> QED BY <5>1, AfterNext
        <4> QED BY <4>1, <4>2
      <3>6. /\ c \in new.new <=> ~old.convs[c].exists \/ c \in old.new
            /\ c \in new.changed <=> ~(~old.convs[c].exists \/ c \in old.new)
        BY <2>5, <2>7
      <3>7. Filed(new, ms, c, i + 1)
        BY <2>4, <3>4, <3>5, <3>6 DEF Filed
      <3> QED BY <3>4, <3>5, <3>7
    <2>8. CASE x.conv # c
      <3>1. new.convs[c] = old.convs[c]
        BY <2>5, <2>6, <2>8
      <3>2. /\ Touched(ms, c, i + 1) <=> Touched(ms, c, i)
            /\ RefsAfter(ms, c, i + 1) = RefsAfter(ms, c, i)
            /\ UnreadAfter(ms, c, i + 1) = UnreadAfter(ms, c, i)
        BY <2>1, <2>8, AfterNext DEF x
      <3>3. (c \in new.new <=> c \in old.new) /\ (c \in new.changed <=> c \in old.changed)
        BY <2>5, <2>8
      <3>4. Filed(new, ms, c, i + 1)
        BY <2>4, <3>1, <3>2, <3>3 DEF Filed
      <3> QED BY <2>4, <3>1, <3>2, <3>4
    <2> QED BY <2>7, <2>8
  <1>5. \A i \in 0..(n - 1) : i \in T => i + 1 \in T
    <2> SUFFICES ASSUME NEW i \in 0..(n - 1), Good(h[i], i) PROVE i + 1 \in T
      OBVIOUS
    <2>1. Good(h[i + 1], i + 1)
      BY <1>4
    <2>2. i + 1 \in 0..n
      BY <1>1
    <2> HIDE DEF Good
    <2> QED BY <2>1, <2>2
  <1>6. n \in T
    <2> HIDE DEF T, n
    <2> QED BY <1>1, <1>3, <1>5, Induct
  <1>7. Good(h[n], n) /\ h[n] \in BatchTypes
    BY <1>1, <1>2, <1>6
  <1> QED BY <1>2, <1>7

-----------------------------------------------------------------------------
(* Deliveries *)

\* The messages of a push can be put in order.
LEMMA InOrderExists ==
  ASSUME NEW n \in Nat
  PROVE  \A S \in SUBSET Msgs : IsFiniteSet(S) /\ Cardinality(S) = n =>
            \E order \in [1..n -> S] : \A i, j \in 1..n :
                i < j => order[i] # order[j] /\ ~Later(order[i], order[j])
  <1> DEFINE Ordered(S, k) == \E order \in [1..k -> S] : \A i, j \in 1..k :
                                 i < j => order[i] # order[j] /\ ~Later(order[i], order[j])
             T == { k \in Nat : \A S \in SUBSET Msgs : IsFiniteSet(S) /\ Cardinality(S) = k => Ordered(S, k) }
  <1>1. 0 \in T
    <2> SUFFICES ASSUME NEW S \in SUBSET Msgs, IsFiniteSet(S), Cardinality(S) = 0
                 PROVE  Ordered(S, 0)
      OBVIOUS
    <2>1. <<>> \in [1..0 -> S] /\ 1..0 = {}
      OBVIOUS
    <2>2. \A i, j \in 1..0 : i < j => <<>>[i] # <<>>[j] /\ ~Later(<<>>[i], <<>>[j])
      BY <2>1
    <2> QED BY <2>1, <2>2
  <1>2. ASSUME NEW k \in 0..(n - 1), k \in T PROVE k + 1 \in T
    <2> SUFFICES ASSUME NEW S \in SUBSET Msgs, IsFiniteSet(S), Cardinality(S) = k + 1
                 PROVE  Ordered(S, k + 1)
      OBVIOUS
    <2>1. PICK first \in S : \A x \in S : ~Later(first, x)
      <3> DEFINE seqs == {Attr[x].seq : x \in S}
      <3>1. \A x \in S : Attr[x].seq \in Nat /\ Attr[x].time \in Nat
        BY AttrTypes
      <3>2. S # {}
        BY FS_EmptySet
      <3>3. PICK q \in seqs : \A s \in seqs : q <= s
        <4>1. seqs \in SUBSET Nat /\ seqs # {}
          BY <3>1, <3>2
        <4> HIDE DEF seqs
        <4> QED BY <4>1, LeastNumber
      <3> DEFINE times == {Attr[x].time : x \in {y \in S : Attr[y].seq = q}}
      <3>4. PICK t \in times : \A s \in times : t <= s
        <4>1. times \in SUBSET Nat /\ times # {}
          BY <3>1, <3>3
        <4> HIDE DEF times
        <4> QED BY <4>1, LeastNumber
      <3>5. PICK x \in S : Attr[x].seq = q /\ Attr[x].time = t
        BY <3>4
      <3>6. ASSUME NEW y \in S PROVE ~Later(x, y)
        <4>1. q <= Attr[y].seq /\ (Attr[y].seq = q => t <= Attr[y].time)
          BY <3>3, <3>4
        <4> QED BY <3>1, <3>5, <4>1 DEF Later
      <3> QED BY <3>6
    <2> DEFINE rest == S \ {first}
    <2>2. rest \in SUBSET Msgs /\ IsFiniteSet(rest) /\ Cardinality(rest) = k
      BY FS_RemoveElement
    <2>3. PICK order \in [1..k -> rest] : \A i, j \in 1..k :
             i < j => order[i] # order[j] /\ ~Later(order[i], order[j])
      BY <1>2, <2>2
    <2> DEFINE longer == [i \in 1..(k + 1) |-> IF i = 1 THEN first ELSE order[i - 1]]
    <2>4. longer \in [1..(k + 1) -> S]
      BY <2>3
    <2>5. ASSUME NEW i \in 1..(k + 1), NEW j \in 1..(k + 1), i < j
          PROVE  longer[i] # longer[j] /\ ~Later(longer[i], longer[j])
      <3>1. j - 1 \in 1..k /\ longer[j] = order[j - 1] /\ order[j - 1] \in rest
        BY <2>3, <2>5
      <3>2. CASE i = 1
        BY <2>1, <3>1, <3>2
      <3>3. CASE i # 1
        <4>1. i - 1 \in 1..k /\ i - 1 < j - 1 /\ longer[i] = order[i - 1]
          BY <2>5, <3>3
        <4> QED BY <2>3, <3>1, <4>1
      <3> QED BY <3>2, <3>3
    <2> HIDE DEF longer
    <2> QED BY <2>4, <2>5
  <1>3. n \in T
    <2> HIDE DEF T
    <2> QED BY <1>1, <1>2, Induct
  <1> QED BY <1>3

LEMMA DecodedIsList ==
  ASSUME NEW event \in PushEvents
  PROVE  DecodePush(event) \in Seq(Msgs)
  <1> DEFINE ids == PullMessagesMap(event.msgs) \cup PullMessagesMap(event.notices)
             InTurn(order) == \A i, j \in DOMAIN order :
                                 i < j => order[i] # order[j] /\ ~Later(order[i], order[j])
  <1>1. PICK given : /\ IsFiniteSet(given) /\ given \subseteq Msgs
                     /\ event.msgs = ByConversation({m \in given : Attr[m].kind # "typing"})
                     /\ event.notices = ByConversation({m \in given : Attr[m].kind = "typing"})
    <2>1. CASE \E m, n \in Msgs : event = PushEvent({m, n})
      <3>1. PICK m \in Msgs, n \in Msgs : event = PushEvent({m, n})
        BY <2>1
      <3>2. IsFiniteSet({m, n}) /\ {m, n} \subseteq Msgs
        <4>1. IsFiniteSet({} \cup {m}) /\ IsFiniteSet(({} \cup {m}) \cup {n})
          BY FS_EmptySet, FS_AddElement
        <4>2. ({} \cup {m}) \cup {n} = {m, n}
          OBVIOUS
        <4> QED BY <4>1, <4>2
      <3> QED BY <3>1, <3>2 DEF PushEvent
    <2>2. CASE event = [PushEvent({}) EXCEPT !.err = TRUE]
      <3>1. event.msgs = PushEvent({}).msgs /\ event.notices = PushEvent({}).notices
        BY <2>2 DEF PushEvent
      <3> QED BY <3>1, FS_EmptySet DEF PushEvent
    <2>3. (\E m, n \in Msgs : event = PushEvent({m, n})) \/ event = [PushEvent({}) EXCEPT !.err = TRUE]
      BY DEF PushEvents
    <2> QED BY <2>1, <2>2, <2>3
  <1>2. \A some : PullMessagesMap(ByConversation(some)) \subseteq some
    BY DEF PullMessagesMap, ByConversation, Range
  <1>3. ids \subseteq given
    BY <1>1, <1>2
  <1>4. ids \in SUBSET Msgs /\ IsFiniteSet(ids) /\ Cardinality(ids) \in Nat
    BY <1>1, <1>3, FS_Subset, FS_CardinalityType
  <1>5. DecodePush(event) = CHOOSE order \in [1..Cardinality(ids) -> ids] : InTurn(order)
    BY DEF DecodePush
  <1> HIDE DEF ids
  <1>6. \E order \in [1..Cardinality(ids) -> ids] : InTurn(order)
    BY <1>4, InOrderExists
  <1> HIDE DEF InTurn
  <1>7. DecodePush(event) \in [1..Cardinality(ids) -> ids]
    BY <1>5, <1>6
  <1> QED BY <1>4, <1>7

LEMMA FlattenedIsList ==
  ASSUME NEW S, NEW lists \in Seq(Seq(S))
  PROVE  FlattenSeq(lists) \in Seq(S)
  <1> DEFINE n == Len(lists)
             D == Seq(S)
             next == [p \in D \X (1..n) |-> p[1] \o lists[p[2]]]
             Def(g) == g = [i \in 1..n |-> IF i = 1 THEN lists[i] ELSE g[i - 1] \o lists[i]]
  <1>1. n \in Nat /\ <<>> \in D /\ \A i \in 1..n : lists[i] \in D
    OBVIOUS
  <1>2. CASE n = 0
    <2>1. FlattenSeq(lists) = lists /\ lists = <<>>
      BY <1>2 DEF FlattenSeq
    <2> QED BY <2>1
  <1>3. CASE n # 0
    <2>1. next \in Steppers(D, n)
      <3>1. ASSUME NEW p \in D \X (1..n) PROVE p[1] \o lists[p[2]] \in D
        <4>1. p[1] \in Seq(S) /\ lists[p[2]] \in Seq(S)
          BY <1>1
        <4> QED BY <4>1
      <3> HIDE DEF D
      <3> QED BY <3>1 DEF Steppers
    <2>2. PICK h \in [0..n -> D] : Repeats(h, <<>>, next, n)
      <3> HIDE DEF next, D, n
      <3> QED BY <1>1, <2>1, Iterates
    <2>3. ASSUME NEW i \in 1..n PROVE h[i] \in D /\ h[i] = h[i - 1] \o lists[i]
      <3>1. i - 1 \in 0..n /\ i \in 0..n
        BY <1>1
      <3>2. <<h[i - 1], i>> \in D \X (1..n)
        BY <2>2, <3>1
      <3>3. next[<<h[i - 1], i>>] = h[i - 1] \o lists[i]
        BY <3>2
      <3> HIDE DEF next
      <3> QED BY <2>2, <3>1, <3>3 DEF Repeats
    <2> DEFINE g == [i \in 1..n |-> h[i]]
    <2>4. ASSUME NEW i \in 1..n PROVE g[i] = IF i = 1 THEN lists[i] ELSE g[i - 1] \o lists[i]
      <3>1. CASE i = 1
        <4>1. h[0] = <<>> /\ h[1] = h[0] \o lists[1] /\ lists[1] \in Seq(S)
          BY <1>1, <2>2, <2>3, <3>1 DEF Repeats
        <4>2. h[1] = lists[1]
          BY <4>1
        <4> QED BY <3>1, <4>2
      <3>2. CASE i # 1
        <4>1. i - 1 \in 1..n
          BY <1>1, <3>2
        <4> QED BY <2>3, <3>2, <4>1
      <3> QED BY <3>1, <3>2
    <2>5. Def(g)
      BY <2>4
    <2> HIDE DEF g
    <2> DEFINE flat == CHOOSE f : Def(f)
    <2>6. Def(flat)
      BY <2>5
    <2>7. FlattenSeq(lists) = flat[n]
      BY <1>3 DEF FlattenSeq
    <2> HIDE DEF flat
    <2>8. \A i \in 1..n : flat[i] = IF i = 1 THEN lists[i] ELSE flat[i - 1] \o lists[i]
      BY <2>6
    <2> DEFINE T == { i \in 0..n : i # 0 => flat[i] \in Seq(S) }
    <2>9. 0 \in T
      BY <1>1
    <2>10. \A i \in 0..(n - 1) : i \in T => i + 1 \in T
      <3> SUFFICES ASSUME NEW i \in 0..(n - 1), i \in T PROVE i + 1 \in T
        OBVIOUS
      <3>1. i + 1 \in 1..n /\ i + 1 \in 0..n /\ (i + 1) - 1 = i /\ lists[i + 1] \in Seq(S)
        BY <1>1
      <3>2. CASE i = 0
        BY <2>8, <3>1, <3>2
      <3>3. CASE i # 0
        <4>1. i \in 1..n /\ i + 1 # 1
          BY <1>1, <3>3
        <4>2. flat[i + 1] = flat[i] \o lists[i + 1]
          BY <2>8, <3>1, <4>1
        <4>3. flat[i] \in Seq(S)
          BY <3>3
        <4>4. flat[i] \o lists[i + 1] \in Seq(S)
          BY <3>1, <4>3
        <4> QED BY <3>1, <4>2, <4>4
      <3> QED BY <3>2, <3>3
    <2>11. n \in T
      <3> HIDE DEF T, n
      <3> QED BY <1>1, <2>9, <2>10, Induct
    <2> QED BY <1>3, <2>7, <2>11
  <1> QED BY <1>2, <1>3

LEMMA TextsAreTexts ==
  ASSUME NEW ids \in Seq(Msgs)
  PROVE  TextsOf(ids) \in Seq(Texts)
  <1> DEFINE n == Len(ids)
             D == Seq(Texts)
             Keep(s, i) == IF ids[i] \in Texts THEN Append(s, ids[i]) ELSE s
             next == [p \in D \X (1..n) |-> Keep(p[1], p[2])]
             Def(g) == g = [i \in 0..n |-> IF i = 0 THEN <<>>
                              ELSE IF ids[i] \in Texts THEN Append(g[i - 1], ids[i]) ELSE g[i - 1]]
  <1>1. n \in Nat /\ <<>> \in D
    OBVIOUS
  <1>2. ASSUME NEW s \in D, NEW i \in 1..n PROVE Keep(s, i) \in D
    BY <1>2
  <1>3. next \in Steppers(D, n)
    <2> HIDE DEF D, Keep
    <2> QED BY <1>2 DEF Steppers
  <1>4. PICK h \in [0..n -> D] : Repeats(h, <<>>, next, n)
    <2> HIDE DEF next, D, n
    <2> QED BY <1>1, <1>3, Iterates
  <1>5. ASSUME NEW i \in 1..n PROVE h[i] = Keep(h[i - 1], i)
    <2>1. i - 1 \in 0..n
      BY <1>1
    <2>2. <<h[i - 1], i>> \in D \X (1..n)
      BY <1>4, <2>1
    <2> HIDE DEF Keep, D
    <2>3. next[<<h[i - 1], i>>] = Keep(h[i - 1], i)
      BY <2>2
    <2> HIDE DEF next
    <2> QED BY <1>4, <2>3 DEF Repeats
  <1>6. ASSUME NEW i \in 0..n PROVE h[i] = IF i = 0 THEN <<>> ELSE Keep(h[i - 1], i)
    <2>1. CASE i = 0
      BY <1>4, <2>1 DEF Repeats
    <2>2. CASE i # 0
      <3>1. i \in 1..n
        BY <1>1, <2>2
      <3> HIDE DEF Keep
      <3> QED BY <1>5, <2>2, <3>1
    <2> QED BY <2>1, <2>2
  <1>7. Def(h)
    BY <1>4, <1>6
  <1> DEFINE texts == CHOOSE g : Def(g)
  <1>8. Def(texts)
    BY <1>7
  <1>9. TextsOf(ids) = texts[n]
    BY DEF TextsOf
  <1> HIDE DEF texts
  <1>14. \A i \in 0..n : texts[i] = IF i = 0 THEN <<>> ELSE Keep(texts[i - 1], i)
    BY <1>8
  <1>10. texts[0] = <<>> /\ \A i \in 1..n : texts[i] = Keep(texts[i - 1], i)
    <2>1. 0 \in 0..n /\ \A i \in 1..n : i \in 0..n /\ i # 0
      BY <1>1
    <2> HIDE DEF Keep
    <2> QED BY <1>14, <2>1
  <1> DEFINE T == { i \in 0..n : texts[i] \in D }
  <1>11. 0 \in T
    <2>1. 0 \in 0..n /\ texts[0] \in D
      BY <1>1, <1>10
    <2> HIDE DEF D
    <2> QED BY <2>1
  <1>12. \A i \in 0..(n - 1) : i \in T => i + 1 \in T
    <2> SUFFICES ASSUME NEW i \in 0..(n - 1), i \in T PROVE i + 1 \in T
      OBVIOUS
    <2>1. i + 1 \in 1..n /\ i + 1 \in 0..n /\ (i + 1) - 1 = i
      BY <1>1
    <2> HIDE DEF Keep, D
    <2> QED BY <1>2, <1>10, <2>1
  <1>13. n \in T
    <2> HIDE DEF T, n
    <2> QED BY <1>1, <1>11, <1>12, Induct
  <1> QED BY <1>9, <1>13

\* store_all: what is stored under an id is what was there or one of the given messages.
LEMMA StoresGiven ==
  ASSUME NEW ms, Len(ms) \in Nat, DOMAIN ms = 1..Len(ms), NEW id \in Msgs
  PROVE  \/ StoreAll(ms)[id] = messages[id] /\ \A i \in 1..Len(ms) : ms[i].id # id
         \/ \E i \in 1..Len(ms) : ms[i].id = id /\ StoreAll(ms)[id] = Stored(ms[i])
  <1> DEFINE at == {i \in DOMAIN ms : ms[i].id = id}
  <1>1. StoreAll(ms)[id] = IF at = {} THEN messages[id] ELSE Stored(ms[Max(at)])
    BY DEF StoreAll
  <1>2. at # {} => Max(at) \in at
    <2>1. at \in SUBSET (1..Len(ms))
      OBVIOUS
    <2> HIDE DEF at
    <2> QED BY <2>1, LargestNumber
  <1> QED BY <1>1, <1>2

-----------------------------------------------------------------------------
(* Events *)

LEMMA Dispatches ==
  ASSUME NEW data
  PROVE  /\ Dispatched("NewMessages", data) = {GoListenerDispatch("OnRecvNewMessage", m) : m \in Range(data)}
         /\ Dispatched("NewConversations", data) = {GoListenerDispatch("OnNewConversation", data)}
         /\ Dispatched("ConversationChanged", data) = {GoListenerDispatch("OnConversationChanged", data)}
         /\ Dispatched("TotalUnreadCountChanged", data)
              = {GoListenerDispatch("OnTotalUnreadMessageCountChanged", data)}
  BY DEF Dispatched, MapToGoListener, EventName, EventPayload

\* The listeners are told of the new and of the changed conversations, and of the total.
LEMMA ConversationEvents ==
  ASSUME NEW batch, NEW c
  PROVE  /\ Tells(DispatchNewConversations(batch), "OnNewConversation", c) <=> c \in batch.new
         /\ Tells(DispatchConversationChanged(batch), "OnConversationChanged", c) <=> c \in batch.changed
  <1>1. \A name, data : Tells({GoListenerDispatch(name, data)}, name, c) <=> c \in data
    BY DEF Tells, GoListenerDispatch
  <1>2. \A name : ~Tells({}, name, c)
    BY DEF Tells
  <1> QED BY <1>1, <1>2, Dispatches DEF DispatchNewConversations, DispatchConversationChanged

LEMMA TotalEvent ==
  ASSUME NEW total
  PROVE  /\ DispatchTotalUnread(total) = {} => total = TotalUnread(convs)
         /\ DispatchTotalUnread(total) # {} =>
               (CHOOSE d \in DispatchTotalUnread(total) : TRUE).data = total
  <1> DEFINE told == GoListenerDispatch("OnTotalUnreadMessageCountChanged", total)
  <1>1. DispatchTotalUnread(total) = IF total = TotalUnread(convs) THEN {} ELSE {told}
    BY Dispatches DEF DispatchTotalUnread
  <1>2. told.data = total
    BY DEF GoListenerDispatch
  <1> HIDE DEF told
  <1>3. (CHOOSE d \in {told} : TRUE) = told
    OBVIOUS
  <1> QED BY <1>1, <1>2, <1>3

LEMMA Announced ==
  ASSUME NEW ms, Announce(ms)
  PROVE  announced' = announced \cup {ms[i].id : i \in DOMAIN ms}
  <1> DEFINE ids == [i \in DOMAIN ms |-> ms[i].id]
  <1>1. Dispatched("NewMessages", ids) = {GoListenerDispatch("OnRecvNewMessage", m) : m \in Range(ids)}
    BY Dispatches
  <1>2. Range(ids) = {ms[i].id : i \in DOMAIN ms}
    BY DEF Range
  <1> HIDE DEF ids
  <1>3. {d.data : d \in Dispatched("NewMessages", ids)} = Range(ids)
    <2>1. \A m : GoListenerDispatch("OnRecvNewMessage", m).data = m
      BY DEF GoListenerDispatch
    <2> QED BY <1>1, <2>1
  <1> QED BY <1>2, <1>3 DEF Announce, ids

-----------------------------------------------------------------------------
(* The invariant *)

StoreInv == messages \in [Msgs -> MessageRecord] /\ OnlyVisibleMessagesStored

\* Every conversation agrees with what was projected onto it, and the application shows it.
ConvInv ==
    /\ convs \in [Convs -> Entries]
    /\ projected \in [Convs -> SUBSET [id : Msgs, seq : Nat]] /\ fresh \in [Convs -> SUBSET Msgs]
    /\ \A c \in Convs : Agrees(c, convs[c], projected[c], fresh[c])
    /\ shown = convs /\ shownTotal = TotalUnread(convs)

ToldInv ==
    /\ applied \subseteq Msgs /\ channel \in Seq(PushEvents)
    /\ \A m \in applied : Attr[m].sender # Owner => m \in announced

FlowInv == StoreInv /\ ConvInv /\ ToldInv

LEMMA InitFlowInv == Init => FlowInv
  <1> SUFFICES ASSUME Init PROVE FlowInv
    OBVIOUS
  <1>1. StoreInv
    BY DEF Init, StoreInv, OnlyVisibleMessagesStored, NoMessage, MessageRecord, Statuses
  <1>2. NoConversation \in Entries
    BY DEF NoConversation, NoLatest, Entries, Targets
  <1>3. ~NoConversation.exists /\ NoConversation.unread = 0
    BY DEF NoConversation
  <1>4. ASSUME NEW c \in Convs PROVE Agrees(c, NoConversation, {}, {})
    BY <1>2, <1>3, FS_EmptySet DEF Agrees
  <1>5. ConvInv
    BY <1>2, <1>4 DEF Init, ConvInv
  <1>6. ToldInv
    BY DEF Init, ToldInv
  <1> QED BY <1>1, <1>5, <1>6 DEF FlowInv

\* apply_messages_to_conversations and its events.
LEMMA ProjectInv ==
  ASSUME ConvInv, NEW ms, Copies(ms), Project(ms)
  PROVE  ConvInv'
  <1> DEFINE batch == ApplyMessages(convs, ms)
             n == Len(ms)
  <1>1. batch \in BatchTypes /\ \A c \in Convs :
           Agrees(c, batch.convs[c], RefsAfter(ms, c, n), UnreadAfter(ms, c, n)) /\ Filed(batch, ms, c, n)
    BY BatchAgrees DEF ConvInv
  <1>2. convs' = batch.convs /\ convs' \in [Convs -> Entries]
    BY <1>1 DEF Project, BatchTypes
  <1>3. ASSUME NEW c \in Convs PROVE projected'[c] = RefsAfter(ms, c, n)
    <2>1. projected'[c] = projected[c] \cup {Ref(ms[i]) : i \in {j \in DOMAIN ms : ms[j].conv = c}}
      BY DEF Project, Ref
    <2> QED BY <2>1 DEF RefsAfter, Copies
  <1>4. ASSUME NEW c \in Convs PROVE fresh'[c] = UnreadAfter(ms, c, n)
    <2> DEFINE at == {j \in DOMAIN ms : ms[j].conv = c}
    <2>1. fresh'[c] = fresh[c] \cup
            {ms[i].id : i \in {j \in at : Attr[ms[j].id].sender # Owner /\ ~Attr[ms[j].id].read}}
      BY DEF Project
    <2>2. ASSUME NEW j \in at
          PROVE  Unread(ms[j]) = IF Attr[ms[j].id].sender # Owner /\ ~Attr[ms[j].id].read
                                 THEN {ms[j].id} ELSE {}
      BY DEF Unread, Copies, Copy
    <2>3. {ms[i].id : i \in {j \in at : Attr[ms[j].id].sender # Owner /\ ~Attr[ms[j].id].read}}
            = UNION {Unread(ms[j]) : j \in at}
      BY <2>2
    <2>4. at = {k \in 1..n : ms[k].conv = c}
      BY DEF Copies
    <2> HIDE DEF at
    <2> QED BY <2>1, <2>3, <2>4 DEF UnreadAfter
  <1>5. ASSUME NEW c \in Convs PROVE Agrees(c, convs'[c], projected'[c], fresh'[c])
    BY <1>1, <1>2, <1>3, <1>4
  <1>6. projected' \in [Convs -> SUBSET [id : Msgs, seq : Nat]] /\ fresh' \in [Convs -> SUBSET Msgs]
    <2>1. ASSUME NEW c \in Convs PROVE projected'[c] \subseteq [id : Msgs, seq : Nat] /\ fresh'[c] \subseteq Msgs
      BY <1>5 DEF Agrees, Refs
    <2>2. projected' = [c \in Convs |-> projected'[c]] /\ fresh' = [c \in Convs |-> fresh'[c]]
      BY DEF Project
    <2> QED BY <2>1, <2>2
  <1>7. ASSUME NEW c \in Convs PROVE shown'[c] = convs'[c]
    <2>1. shown'[c] = IF \/ c \in batch.new /\ c \notin batch.changed /\ ~shown[c].exists
                         \/ c \in batch.changed /\ c \notin batch.new /\ shown[c].exists
                      THEN batch.convs[c] ELSE shown[c]
      BY ConversationEvents DEF Project
    <2>2. shown[c] = convs[c] /\ Filed(batch, ms, c, n)
      BY <1>1 DEF ConvInv
    <2> QED BY <1>2, <2>1, <2>2 DEF Filed
  <1>8. shown' = convs'
    <2>1. shown' = [c \in Convs |-> shown'[c]]
      BY DEF Project
    <2> QED BY <1>2, <1>7, <2>1
  <1>9. shownTotal' = TotalUnread(convs')
    <2> DEFINE total == TotalUnread(batch.convs)
    <2>1. shownTotal' = IF DispatchTotalUnread(total) = {} THEN shownTotal
                        ELSE (CHOOSE d \in DispatchTotalUnread(total) : TRUE).data
      BY DEF Project
    <2>2. shownTotal = TotalUnread(convs)
      BY DEF ConvInv
    <2> HIDE DEF total
    <2>3. shownTotal' = total
      BY <2>1, <2>2, TotalEvent
    <2> QED BY <1>2, <2>3 DEF total
  <1> HIDE DEF batch, n
  <1> QED BY <1>2, <1>5, <1>6, <1>8, <1>9 DEF ConvInv

\* Nothing that ConvInv or ToldInv speaks of.
LEMMA NothingProjectedInv ==
  ASSUME ConvInv, ToldInv, NothingProjected
  PROVE  ConvInv' /\ (announced' = announced /\ channel' = channel => ToldInv')
  BY DEF ConvInv, ToldInv, NothingProjected, Agrees, Newest

LEMMA ToldOfBatch ==
  ASSUME ToldInv, NEW ms, Copies(ms), Project(ms), Announce(ms), channel' \in Seq(PushEvents)
  PROVE  ToldInv'
  <1>1. applied' = applied \cup {ms[i].id : i \in DOMAIN ms}
    BY DEF Project
  <1>2. announced' = announced \cup {ms[i].id : i \in DOMAIN ms}
    BY Announced
  <1>3. \A i \in DOMAIN ms : ms[i].id \in Msgs
    BY DEF Copies, Copy
  <1> QED BY <1>1, <1>2, <1>3 DEF ToldInv

\* What upsert_message and sync_message_range may store.
Storable(x) == x.id \in Texts /\ Acceptable(Incoming(x.id)) /\ Stored(x) \in MessageRecord

LEMMA StoreAllInv ==
  ASSUME StoreInv, NEW ms, Len(ms) \in Nat, DOMAIN ms = 1..Len(ms), \A i \in 1..Len(ms) : Storable(ms[i]),
         messages' = StoreAll(ms)
  PROVE  StoreInv'
  <1>1. ASSUME NEW m \in Msgs
        PROVE  /\ messages'[m] \in MessageRecord
               /\ messages'[m].status # "None" => Acceptable(Incoming(m)) /\ m \in Texts
    <2>1. \/ messages'[m] = messages[m]
          \/ \E i \in 1..Len(ms) : ms[i].id = m /\ messages'[m] = Stored(ms[i])
      BY StoresGiven
    <2> QED BY <2>1 DEF StoreInv, OnlyVisibleMessagesStored, Storable
  <1>2. messages' = [m \in Msgs |-> messages'[m]]
    BY DEF StoreAll
  <1>3. messages' \in [Msgs -> MessageRecord]
    BY <1>1, <1>2
  <1> QED BY <1>1, <1>3 DEF StoreInv, OnlyVisibleMessagesStored

\* A message as the server has it.
LEMMA IncomingCopy ==
  ASSUME NEW m \in Msgs, VisibleToOwner(Incoming(m))
  PROVE  Copy(Incoming(m)) /\ Incoming(m).id = m /\ Copy(Received(Incoming(m))) /\ Received(Incoming(m)).id = m
  <1>1. Route(m).conv \in Convs
    BY ConvsOfOwner DEF ConvsOfOwner
  <1> QED BY <1>1, AttrTypes DEF Incoming, Received, Copy

LEMMA IncomingStorable ==
  ASSUME NEW m \in Texts, Acceptable(Incoming(m))
  PROVE  Storable(Incoming(m)) /\ Storable(Received(Incoming(m)))
  <1>1. m \in Msgs /\ Attr[m].read \in BOOLEAN /\ Attr[m].status \in Statuses
    BY AttrTypes DEF Texts
  <1>2. Incoming(m).id = m /\ Received(Incoming(m)).id = m
    BY DEF Incoming, Received
  <1>3. Stored(Incoming(m)) \in MessageRecord /\ Stored(Received(Incoming(m))) \in MessageRecord
    BY <1>1 DEF Incoming, Received, Stored, MessageRecord, Statuses
  <1> QED BY <1>2, <1>3 DEF Storable

\* What the application builds is valid and in one of its conversations.
LEMMA OwnAcceptable ==
  ASSUME NEW m \in OwnMsgs
  PROVE  m \in Texts /\ Acceptable(Incoming(m))
  <1>1. m \in Msgs /\ Attr[m].kind = "text" /\ Attr[m].sender = Owner
    BY DEF OwnMsgs
  <1>2. VisibleToOwner(Incoming(m))
    BY <1>1 DEF VisibleToOwner, Incoming
  <1>3. ValidMessage(Incoming(m))
    BY <1>1 DEF ValidMessage, ValidContent, Incoming, Route, RouteTarget, ConversationIdByMessage,
                ConversationIdBySessionType
  <1> QED BY <1>1, <1>2, <1>3 DEF Texts, Acceptable

-----------------------------------------------------------------------------
(* One step *)

\* send_message, whatever the transport answers.
LEMMA SendMessageInv ==
  ASSUME FlowInv, NEW m \in Msgs, SendMessage(m)
  PROVE  FlowInv'
  <1> USE DEF FlowInv
  <1>1. m \in OwnMsgs /\ announced' = announced /\ channel' = channel
    BY DEF SendMessage
  <1>2. m \in Texts /\ Acceptable(Incoming(m)) /\ Attr[m].sender = Owner
    BY <1>1, OwnAcceptable DEF OwnMsgs
  <1>3. ASSUME NEW x \in MessageRecord, messages' = [messages EXCEPT ![m] = x]
        PROVE  StoreInv'
    BY <1>2, <1>3 DEF StoreInv, OnlyVisibleMessagesStored
  <1>4. CASE SendSucceeds(m)
    <2>1. PICK seq \in {0, Attr[m].seq} :
             LET sent == [Incoming(m) EXCEPT !.seq = seq, !.read = TRUE, !.status = "SendSuccess"]
             IN  /\ messages' = [messages EXCEPT ![m] = Stored(sent)]
                 /\ Project(<<sent>>)
      BY <1>4 DEF SendSucceeds
    <2> DEFINE sent == [Incoming(m) EXCEPT !.seq = seq, !.read = TRUE, !.status = "SendSuccess"]
    <2>2. Copy(Incoming(m))
      BY <1>2, IncomingCopy DEF Acceptable
    <2>3. /\ sent.id = m /\ sent.conv = Incoming(m).conv /\ sent.type = Incoming(m).type
          /\ sent.sender = Owner /\ sent.recv = Incoming(m).recv /\ sent.group = Incoming(m).group
          /\ sent.seq = seq /\ sent.time = Incoming(m).time /\ sent.read = TRUE
          /\ sent.revoked = FALSE /\ sent.status = "SendSuccess"
      BY <1>2 DEF Incoming
    <2>4. Incoming(m).id = m /\ Incoming(m).sender = Owner
      BY <1>2 DEF Incoming
    <2>5. Project(<<sent>>) /\ messages' = [messages EXCEPT ![m] = Stored(sent)]
      BY <2>1
    <2> HIDE DEF sent
    <2>6. Copy(sent)
      BY <2>2, <2>3, <2>4 DEF Copy
    <2>7. Stored(sent) \in MessageRecord
      BY <2>3 DEF Stored, MessageRecord, Statuses
    <2>8. StoreInv'
      BY <1>3, <2>5, <2>7
    <2>9. Copies(<<sent>>)
      BY <2>6 DEF Copies
    <2>10. ConvInv'
      BY <2>5, <2>9, ProjectInv
    <2>11. applied' = applied \cup {m}
      <3>1. applied' = applied \cup {<<sent>>[i].id : i \in DOMAIN <<sent>>}
        BY <2>5 DEF Project
      <3>2. DOMAIN <<sent>> = {1} /\ <<sent>>[1] = sent
        OBVIOUS
      <3> QED BY <2>3, <3>1, <3>2
    <2>12. ToldInv'
      BY <1>1, <1>2, <2>11 DEF ToldInv
    <2> QED BY <2>8, <2>10, <2>12
  <1>5. CASE SendAckInvalid(m) \/ SendFails(m)
    <2>1. NothingProjected /\ \E status \in {"Sending", "SendFailed"} :
             messages' = [messages EXCEPT ![m] = [NoMessage EXCEPT !.status = status, !.read = TRUE]]
      BY <1>5 DEF SendAckInvalid, SendFails
    <2>2. \A status \in {"Sending", "SendFailed"} :
             [NoMessage EXCEPT !.status = status, !.read = TRUE] \in MessageRecord
      BY DEF NoMessage, MessageRecord, Statuses
    <2>3. StoreInv'
      BY <1>3, <2>1, <2>2
    <2> QED BY <1>1, <2>1, <2>3, NothingProjectedInv
  <1> QED BY <1>4, <1>5 DEF SendMessage


LEMMA BatchesAreLists ==
  ASSUME NEW S, NEW b \in Batches(S)
  PROVE  b \in Seq(S)
  <1>1. CASE b \in {<<m>> : m \in S}
    <2>1. PICK m \in S : b = <<m>>
      BY <1>1
    <2> QED BY <2>1
  <1>2. CASE b \in S \X S
    <2>1. PICK m \in S, n \in S : b = <<m, n>>
      BY <1>2
    <2> QED BY <2>1
  <1> QED BY <1>1, <1>2 DEF Batches

\* pull_messages: all or nothing.
LEMMA PullMessagesInv ==
  ASSUME FlowInv, NEW c \in Convs, NEW ids \in Batches(Texts), PullMessages(c, ids)
  PROVE  FlowInv'
  <1> USE DEF FlowInv
  <1> DEFINE ms == [i \in DOMAIN ids |-> Incoming(ids[i])]
             fine == \A i \in DOMAIN ms : VisibleToOwner(ms[i]) /\ ValidMessage(ms[i]) /\ ms[i].conv = c
  <1>1. ids \in Seq(Texts) /\ ids \in Seq(Msgs)
    BY BatchesAreLists DEF Texts
  <1>2. /\ Len(ms) \in Nat /\ DOMAIN ms = 1..Len(ms)
        /\ \A i \in 1..Len(ms) : ms[i] = Incoming(ids[i]) /\ ids[i] \in Texts /\ ids[i] \in Msgs
    BY <1>1
  <1>3. channel' = channel
    BY DEF PullMessages
  <1>4. IF fine THEN messages' = StoreAll(ms) /\ Project(ms) /\ Announce(ms)
        ELSE UNCHANGED <<messages, announced>> /\ NothingProjected
    BY DEF PullMessages
  <1>5. CASE fine
    <2>1. ASSUME NEW i \in 1..Len(ms) PROVE Copy(ms[i]) /\ Storable(ms[i])
      <3>1. Acceptable(Incoming(ids[i])) /\ ids[i] \in Texts /\ ids[i] \in Msgs /\ ms[i] = Incoming(ids[i])
        BY <1>2, <1>5 DEF Acceptable
      <3> HIDE DEF ms
      <3> QED BY <3>1, IncomingCopy, IncomingStorable DEF Acceptable
    <2> HIDE DEF ms
    <2>2. Copies(ms)
      BY <1>2, <2>1 DEF Copies
    <2>3. messages' = StoreAll(ms) /\ Project(ms) /\ Announce(ms)
      BY <1>4, <1>5
    <2>4. StoreInv'
      BY <1>2, <2>1, <2>3, StoreAllInv
    <2>5. channel' \in Seq(PushEvents)
      BY <1>3 DEF ToldInv
    <2> QED BY <2>2, <2>3, <2>4, <2>5, ProjectInv, ToldOfBatch
  <1>6. CASE ~fine
    <2>1. StoreInv'
      BY <1>4, <1>6 DEF StoreInv, OnlyVisibleMessagesStored
    <2> QED BY <1>3, <1>4, <1>6, <2>1, NothingProjectedInv
  <1> QED BY <1>5, <1>6

\* apply_transport_messages on any list of texts: what it refuses ends the call with only the
\* store changed.
LEMMA ApplyTransportInv ==
  ASSUME FlowInv, NEW ids \in Seq(Texts), NEW pushed, pushed = [i \in DOMAIN ids |-> Incoming(ids[i])],
         ApplyTransportMessages(pushed), channel' \in Seq(PushEvents)
  PROVE  FlowInv'
  <1> USE DEF FlowInv
  <1> DEFINE refused == {i \in DOMAIN pushed : ~Acceptable(pushed[i])}
             ms == [i \in DOMAIN pushed |-> Received(pushed[i])]
             n == Len(ids)
  <1>1. /\ n \in Nat /\ DOMAIN pushed = 1..n /\ DOMAIN ms = 1..n /\ Len(ms) = n
        /\ \A i \in 1..n : /\ ms[i] = Received(Incoming(ids[i])) /\ pushed[i] = Incoming(ids[i])
                           /\ ids[i] \in Texts /\ ids[i] \in Msgs
    BY DEF Texts
  <1>2. ASSUME NEW i \in 1..n, i \notin refused PROVE Copy(ms[i]) /\ Storable(ms[i])
    <2>1. Acceptable(Incoming(ids[i])) /\ ids[i] \in Texts /\ ids[i] \in Msgs
          /\ ms[i] = Received(Incoming(ids[i]))
      BY <1>1, <1>2
    <2> HIDE DEF ms
    <2> QED BY <2>1, IncomingCopy, IncomingStorable DEF Acceptable
  <1>3. IF refused = {} THEN messages' = StoreAll(ms) /\ Project(ms) /\ Announce(ms)
        ELSE /\ messages' = StoreAll(SubSeq(ms, 1, Min(refused) - 1))
             /\ UNCHANGED announced /\ NothingProjected
    BY DEF ApplyTransportMessages
  <1>4. CASE refused = {}
    <2>1. \A i \in 1..n : Copy(ms[i]) /\ Storable(ms[i])
      BY <1>2, <1>4
    <2>2. messages' = StoreAll(ms) /\ Project(ms) /\ Announce(ms)
      BY <1>3, <1>4
    <2> HIDE DEF ms, n, refused
    <2>3. Copies(ms)
      BY <1>1, <2>1 DEF Copies
    <2>4. StoreInv'
      BY <1>1, <2>1, <2>2, StoreAllInv
    <2> QED BY <2>2, <2>3, <2>4, ProjectInv, ToldOfBatch
  <1>5. CASE refused # {}
    <2>1. PICK first \in refused : \A i \in refused : first <= i
      <3>1. refused \in SUBSET Nat
        BY <1>1
      <3> HIDE DEF refused
      <3> QED BY <1>5, <3>1, LeastNumber
    <2>2. Min(refused) \in refused /\ \A i \in refused : Min(refused) <= i
      <3> HIDE DEF refused
      <3> QED BY <2>1 DEF Min
    <2> DEFINE last == Min(refused) - 1
               kept == SubSeq(ms, 1, last)
    <2>3. last \in 0..(n - 1) /\ \A i \in 1..last : i \in 1..n /\ i \notin refused
      <3> DEFINE k == Min(refused)
      <3>1. k \in 1..n /\ \A i \in refused : k <= i
        BY <1>1, <2>2
      <3> HIDE DEF refused, k
      <3> QED BY <1>1, <3>1 DEF k
    <2>4. DOMAIN kept = 1..last /\ Len(kept) = last /\ last \in Nat /\ \A i \in 1..last : kept[i] = ms[i]
      <3> HIDE DEF ms, n, refused, last
      <3> QED BY <1>1, <2>3
    <2>5. \A i \in 1..Len(kept) : Storable(kept[i])
      <3> HIDE DEF ms, n, refused, last, kept
      <3> QED BY <1>2, <2>3, <2>4
    <2>6. StoreInv'
      <3>1. messages' = StoreAll(kept)
        BY <1>3, <1>5
      <3> HIDE DEF kept, last
      <3> QED BY <2>4, <2>5, <3>1, StoreAllInv
    <2>7. NothingProjected /\ announced' = announced
      BY <1>3, <1>5
    <2>8. ConvInv'
      BY <2>7, NothingProjectedInv
    <2>9. ToldInv'
      BY <2>7 DEF ToldInv, NothingProjected
    <2> QED BY <2>6, <2>8, <2>9
  <1> QED BY <1>4, <1>5

LEMMA ReceivePushesInv ==
  ASSUME FlowInv, NEW ids \in Batches(Texts), ReceiveTransportPushes(ids)
  PROVE  FlowInv'
  <1>1. ids \in Seq(Texts)
    BY BatchesAreLists
  <1>2. channel' \in Seq(PushEvents)
    BY DEF ReceiveTransportPushes, FlowInv, ToldInv
  <1>3. ApplyTransportMessages([i \in DOMAIN ids |-> Incoming(ids[i])])
    BY DEF ReceiveTransportPushes
  <1> QED BY <1>1, <1>2, <1>3, ApplyTransportInv

LEMMA PushArrivesInv ==
  ASSUME FlowInv, NEW event \in PushEvents, PushArrives(event)
  PROVE  FlowInv'
  <1> USE DEF FlowInv
  <1>1. channel \in Seq(PushEvents) /\ channel' = Append(channel, event)
    BY DEF PushArrives, ToldInv
  <1>2. channel' \in Seq(PushEvents)
    <2> HIDE DEF PushEvents
    <2> QED BY <1>1
  <1>3. NothingProjected /\ messages' = messages /\ announced' = announced
    BY DEF PushArrives
  <1>4. StoreInv'
    BY <1>3 DEF StoreInv, OnlyVisibleMessagesStored
  <1>5. ToldInv'
    BY <1>2, <1>3 DEF ToldInv, NothingProjected
  <1> QED BY <1>3, <1>4, <1>5, NothingProjectedInv

\* pump_transport_events, whatever the channel holds.
LEMMA PumpTextsAreTexts ==
  ASSUME channel \in Seq(PushEvents)
  PROVE  TextsOf(FlattenSeq([i \in DOMAIN channel |-> DecodePush(channel[i])])) \in Seq(Texts)
  <1> DEFINE lists == [i \in DOMAIN channel |-> DecodePush(channel[i])]
  <1>1. lists \in Seq(Seq(Msgs))
    <2>1. Len(channel) \in Nat /\ DOMAIN channel = 1..Len(channel)
          /\ \A i \in 1..Len(channel) : channel[i] \in PushEvents
      OBVIOUS
    <2>2. \A i \in 1..Len(channel) : DecodePush(channel[i]) \in Seq(Msgs)
      BY <2>1, DecodedIsList
    <2> QED BY <2>1, <2>2
  <1>2. FlattenSeq(lists) \in Seq(Msgs)
    <2> HIDE DEF lists
    <2> QED BY <1>1, FlattenedIsList
  <1> HIDE DEF lists
  <1>3. TextsOf(FlattenSeq(lists)) \in Seq(Texts)
    BY <1>2, TextsAreTexts
  <1> QED BY <1>3 DEF lists

LEMMA PumpInv ==
  ASSUME FlowInv, PumpTransportEvents
  PROVE  FlowInv'
  <1> USE DEF FlowInv
  <1> DEFINE ids == FlattenSeq([i \in DOMAIN channel |-> DecodePush(channel[i])])
             texts == TextsOf(ids)
             pushed == [i \in DOMAIN texts |-> Incoming(texts[i])]
  <1>1. channel' \in Seq(PushEvents)
    BY DEF PumpTransportEvents
  <1>2. \/ UNCHANGED <<messages, announced>> /\ NothingProjected
        \/ ApplyTransportMessages(pushed)
    BY DEF PumpTransportEvents
  <1>3. texts \in Seq(Texts)
    BY PumpTextsAreTexts DEF ToldInv
  <1>4. CASE UNCHANGED <<messages, announced>> /\ NothingProjected
    <2>1. StoreInv'
      BY <1>4 DEF StoreInv, OnlyVisibleMessagesStored
    <2>2. ToldInv'
      BY <1>1, <1>4 DEF ToldInv, NothingProjected
    <2> QED BY <1>4, <2>1, <2>2, NothingProjectedInv
  <1>5. CASE ApplyTransportMessages(pushed)
    <2> HIDE DEF texts
    <2> QED BY <1>1, <1>3, <1>5, ApplyTransportInv
  <1> QED BY <1>2, <1>4, <1>5

\* message_mut and what the application does with it.
LEMMA TouchInv ==
  ASSUME FlowInv, NEW m \in Msgs, RevokeMessage(m) \/ MarkRead(m)
  PROVE  FlowInv'
  <1> USE DEF FlowInv
  <1>1. messages[m] \in MessageRecord /\ messages[m].status # "None"
    BY DEF RevokeMessage, MarkRead, MessageMut, StoreInv
  <1>2. \/ messages' = [messages EXCEPT ![m].revoked = TRUE, ![m].status = "HasDeleted"]
        \/ messages' = [messages EXCEPT ![m].read = TRUE]
    BY DEF RevokeMessage, MarkRead
  <1>3. messages' \in [Msgs -> MessageRecord]
    <2>1. \A r \in MessageRecord : [r EXCEPT !.revoked = TRUE, !.status = "HasDeleted"] \in MessageRecord
                                   /\ [r EXCEPT !.read = TRUE] \in MessageRecord
      BY DEF MessageRecord, Statuses
    <2>2. messages \in [Msgs -> MessageRecord]
      BY DEF StoreInv
    <2>3. \/ messages' = [messages EXCEPT ![m] = [@ EXCEPT !.revoked = TRUE, !.status = "HasDeleted"]]
          \/ messages' = [messages EXCEPT ![m] = [@ EXCEPT !.read = TRUE]]
      BY <1>1, <1>2, <2>2
    <2> HIDE DEF MessageRecord
    <2> QED BY <1>1, <2>1, <2>2, <2>3
  <1>4. ASSUME NEW n \in Msgs, messages'[n].status # "None" PROVE messages[n].status # "None"
    BY <1>1, <1>2, <1>4 DEF StoreInv, MessageRecord
  <1>5. StoreInv'
    BY <1>3, <1>4 DEF StoreInv, OnlyVisibleMessagesStored
  <1>6. NothingProjected /\ announced' = announced /\ channel' = channel
    BY DEF RevokeMessage, MarkRead
  <1> QED BY <1>5, <1>6, NothingProjectedInv

\* Marking read resets the counter together with what it counts, deleting all there was.
LEMMA ResetAgrees ==
  ASSUME NEW c, NEW e, NEW refs, NEW ids, Agrees(c, e, refs, ids)
  PROVE  Agrees(c, [e EXCEPT !.unread = 0], refs, {}) /\ Agrees(c, NoConversation, {}, {})
  <1>1. e \in Entries /\ (~e.exists => e = NoConversation)
    BY DEF Agrees
  <1> DEFINE new == [e EXCEPT !.unread = 0]
  <1>2. /\ new \in Entries /\ new.unread = 0 /\ new.exists = e.exists
        /\ new.maxSeq = e.maxSeq /\ new.latest = e.latest /\ new.target = e.target
    BY <1>1 DEF Entries
  <1>3. ~e.exists => new = NoConversation
    <2>1. new = [exists |-> new.exists, target |-> new.target, maxSeq |-> new.maxSeq,
                 unread |-> new.unread, latest |-> new.latest]
      BY <1>1 DEF Entries
    <2>2. NoConversation.exists = FALSE /\ NoConversation.unread = 0
      BY DEF NoConversation
    <2> HIDE DEF new
    <2>3. e = NoConversation => new.exists = FALSE
      BY <1>2, <2>2
    <2>4. e = NoConversation => new = [exists |-> FALSE, target |-> e.target, maxSeq |-> e.maxSeq,
                                       unread |-> 0, latest |-> e.latest]
      BY <1>2, <2>1, <2>3
    <2>5. NoConversation = [exists |-> FALSE, target |-> NoConversation.target,
                            maxSeq |-> NoConversation.maxSeq, unread |-> 0, latest |-> NoConversation.latest]
      BY DEF NoConversation
    <2> QED BY <1>1, <2>4, <2>5
  <1> HIDE DEF new
  <1>4. Newest(e, refs) => Newest(new, refs)
    BY <1>2 DEF Newest
  <1>5. Agrees(c, new, refs, {})
    BY <1>2, <1>3, <1>4, FS_EmptySet DEF Agrees
  <1>6. NoConversation \in Entries /\ NoConversation.unread = 0 /\ ~NoConversation.exists
    BY DEF NoConversation, NoLatest, Entries, Targets
  <1>7. Agrees(c, NoConversation, {}, {})
    BY <1>6, FS_EmptySet DEF Agrees
  <1> QED BY <1>5, <1>7 DEF new

\* mark_conversation_read, mark_all_read and delete_conversation.
LEMMA ResetInv ==
  ASSUME FlowInv, \/ MarkAllRead
                  \/ \E c \in Convs : MarkConversationRead(c) \/ DeleteConversation(c)
  PROVE  FlowInv'
  <1> USE DEF FlowInv
  <1>1. UNCHANGED <<messages, channel, applied, announced>>
    BY DEF MarkAllRead, MarkConversationRead, DeleteConversation
  <1>2. StoreInv' /\ ToldInv'
    BY <1>1 DEF StoreInv, OnlyVisibleMessagesStored, ToldInv
  <1>3. shownTotal' = TotalUnread(convs') /\ shown' = convs'
    <2>1. shown = convs /\ convs \in [Convs -> Entries]
      BY DEF ConvInv
    <2> QED BY <2>1 DEF MarkAllRead, MarkConversationRead, DeleteConversation
  <1>4. /\ convs' \in [Convs -> Entries]
        /\ projected' \in [Convs -> SUBSET [id : Msgs, seq : Nat]] /\ fresh' \in [Convs -> SUBSET Msgs]
        /\ \A c \in Convs :
              \/ convs'[c] = convs[c] /\ projected'[c] = projected[c] /\ fresh'[c] = fresh[c]
              \/ convs'[c] = [convs[c] EXCEPT !.unread = 0] /\ projected'[c] = projected[c] /\ fresh'[c] = {}
              \/ convs'[c] = NoConversation /\ projected'[c] = {} /\ fresh'[c] = {}
    <2>1. /\ convs \in [Convs -> Entries]
          /\ projected \in [Convs -> SUBSET [id : Msgs, seq : Nat]] /\ fresh \in [Convs -> SUBSET Msgs]
          /\ NoConversation \in Entries /\ \A e \in Entries : [e EXCEPT !.unread = 0] \in Entries
      BY DEF ConvInv, NoConversation, NoLatest, Entries, Targets
    <2> HIDE DEF Entries
    <2>2. CASE MarkAllRead
      BY <2>1, <2>2 DEF MarkAllRead
    <2>3. CASE \E c \in Convs : MarkConversationRead(c)
      BY <2>1, <2>3 DEF MarkConversationRead
    <2>4. CASE \E c \in Convs : DeleteConversation(c)
      BY <2>1, <2>4 DEF DeleteConversation
    <2> QED BY <2>2, <2>3, <2>4
  <1>5. ASSUME NEW c \in Convs PROVE Agrees(c, convs'[c], projected'[c], fresh'[c])
    <2>1. Agrees(c, convs[c], projected[c], fresh[c])
      BY DEF ConvInv
    <2>2. Agrees(c, [convs[c] EXCEPT !.unread = 0], projected[c], {}) /\ Agrees(c, NoConversation, {}, {})
      BY <2>1, ResetAgrees
    <2> QED BY <1>4, <2>1, <2>2
  <1>6. ConvInv'
    BY <1>3, <1>4, <1>5 DEF ConvInv
  <1> QED BY <1>2, <1>6

-----------------------------------------------------------------------------
(* Theorems *)

\* In every reachable state the message store holds only what the owner may see, every
\* conversation agrees with what was projected onto it, and the events told all of it.
THEOREM FlowInvariance == Spec => []FlowInv
  <1>1. FlowInv /\ [Next]_vars => FlowInv'
    <2> SUFFICES ASSUME FlowInv, [Next]_vars PROVE FlowInv'
      OBVIOUS
    <2>1. CASE \E m \in Msgs : SendMessage(m)
      BY <2>1, SendMessageInv
    <2>2. CASE \E m \in Msgs : RevokeMessage(m) \/ MarkRead(m)
      BY <2>2, TouchInv
    <2>3. CASE \E c \in Convs, ids \in Batches(Texts) : PullMessages(c, ids)
      BY <2>3, PullMessagesInv
    <2>4. CASE \E ids \in Batches(Texts) : ReceiveTransportPushes(ids)
      BY <2>4, ReceivePushesInv
    <2>5. CASE \E event \in PushEvents : PushArrives(event)
      BY <2>5, PushArrivesInv
    <2>6. CASE PumpTransportEvents
      BY <2>6, PumpInv
    <2>7. CASE MarkAllRead \/ \E c \in Convs : MarkConversationRead(c) \/ DeleteConversation(c)
      BY <2>7, ResetInv
    <2>8. CASE UNCHANGED vars
      BY <2>8 DEF vars, FlowInv, StoreInv, OnlyVisibleMessagesStored, ConvInv, Agrees, Newest, ToldInv
    <2> QED BY <2>1, <2>2, <2>3, <2>4, <2>5, <2>6, <2>7, <2>8 DEF Next
  <1> QED BY <1>1, InitFlowInv, PTL DEF Spec

\* A conversation shows its newest message and the highest sequence number it was given,
\* whatever the order of the batches: apply_message, should_replace_latest.
THEOREM LatestShown == Spec => []LatestIsNewest
  <1>1. FlowInv => LatestIsNewest
    <2> SUFFICES ASSUME FlowInv, NEW c \in Convs, convs[c].exists
                 PROVE  /\ convs[c].maxSeq = Max({p.seq : p \in projected[c]})
                        /\ \E p \in projected[c] :
                              /\ convs[c].latest = [id |-> p.id, seq |-> p.seq, time |-> Attr[p.id].time]
                              /\ \A q \in projected[c] : Attr[q.id].time <= Attr[p.id].time
      BY DEF LatestIsNewest
    <2>1. Newest(convs[c], projected[c]) /\ convs[c].maxSeq \in Nat
          /\ \A p \in projected[c] : p.seq \in Nat
      BY DEF FlowInv, ConvInv, Agrees, Entries, Refs
    <2> DEFINE seqs == {p.seq : p \in projected[c]}
    <2>2. convs[c].maxSeq \in seqs /\ \A s \in seqs : s \in Nat /\ convs[c].maxSeq >= s
      BY <2>1 DEF Newest
    <2>3. Max(seqs) \in seqs /\ \A s \in seqs : Max(seqs) >= s
      <3> HIDE DEF seqs
      <3> QED BY <2>2 DEF Max
    <2>4. convs[c].maxSeq = Max(seqs)
      <3> HIDE DEF seqs
      <3>1. Max(seqs) \in Nat /\ Max(seqs) >= convs[c].maxSeq /\ convs[c].maxSeq >= Max(seqs)
        BY <2>2, <2>3
      <3> QED BY <2>1, <3>1
    <2> QED BY <2>1, <2>4 DEF Newest
  <1> QED BY <1>1, FlowInvariance, PTL

\* The unread counter of a conversation is never below the number of different unread
\* messages that arrived since it was last reset.
THEOREM UnreadCounts == Spec => []UnreadNeverUndercounts
  <1>1. FlowInv => UnreadNeverUndercounts
    BY DEF FlowInv, ConvInv, Agrees, UnreadNeverUndercounts
  <1> QED BY <1>1, FlowInvariance, PTL

\* A listener that follows the events shows the conversations and the total unread count as
\* they are, and was told of every message of others in them.
THEOREM EventsKeepUp == Spec => []EventsKeepUpWithConversations
  <1>1. FlowInv => EventsKeepUpWithConversations
    BY DEF FlowInv, ConvInv, ToldInv, EventsKeepUpWithConversations
  <1> QED BY <1>1, FlowInvariance, PTL

\* The store never holds a message that is not the owner's to see or that does not pass
\* validation.
THEOREM OnlyVisibleStored == Spec => []OnlyVisibleMessagesStored
  <1>1. FlowInv => OnlyVisibleMessagesStored
    BY DEF FlowInv, StoreInv
  <1> QED BY <1>1, FlowInvariance, PTL

\* A conversation is headed by the other end of the chat or by the group, whoever's message
\* created it: conversation_target.
THEOREM PeerShown == Spec => []ConversationsShowThePeer
  <1>1. FlowInv => ConversationsShowThePeer
    <2> SUFFICES ASSUME FlowInv, NEW c \in Convs, convs[c].exists
                 PROVE  convs[c].target \in c[2] /\ (convs[c].target = Owner => c[2] = {Owner})
      BY DEF ConversationsShowThePeer
    <2>1. PICK p \in projected[c] : convs[c].target = ConversationTarget(Incoming(p.id))
      BY DEF FlowInv, ConvInv, Agrees
    <2>2. Route(p.id).conv = c
      BY DEF FlowInv, ConvInv, Agrees, Refs
    <2> DEFINE m == p.id
    <2>3. /\ IsSingle(Attr[m].type) => /\ c[2] = {Attr[m].sender, Attr[m].target}
                                       /\ Incoming(m).recv = Attr[m].target
          /\ ~IsSingle(Attr[m].type) => /\ c[2] = {Attr[m].target}
                                        /\ Incoming(m).group = Attr[m].target
          /\ Incoming(m).sender = Attr[m].sender /\ Incoming(m).type = Attr[m].type
      BY <2>2 DEF Incoming, Route, RouteTarget, ConversationIdBySessionType
    <2> HIDE DEF m
    <2>4. ConversationTarget(Incoming(m)) = IF IsSingle(Attr[m].type)
            THEN IF Attr[m].sender = Owner THEN Attr[m].target ELSE Attr[m].sender
            ELSE Attr[m].target
      BY <2>3 DEF ConversationTarget
    <2> QED BY <2>1, <2>3, <2>4 DEF m
  <1> QED BY <1>1, FlowInvariance, PTL

\* The sum over all conversations is a number.
LEMMA TotalIsNumber ==
  ASSUME NEW cs, \A c \in Convs : cs[c].unread \in Nat
  PROVE  TotalUnread(cs) \in Nat
  <1> DEFINE n == Cardinality(Convs)
             D == [SUBSET Convs -> Nat]
             any(s) == CHOOSE x \in s : TRUE
             Sum(f, s) == IF s = {} THEN 0 ELSE cs[any(s)].unread + f[s \ {any(s)}]
             Step(f) == [s \in SUBSET Convs |-> Sum(f, s)]
             next == [p \in D \X (1..(n + 1)) |-> Step(p[1])]
             zero == [s \in SUBSET Convs |-> 0]
  <1>1. n \in Nat /\ IsFiniteSet(Convs)
    BY FlowConstants, FS_CardinalityType DEF FlowConstants
  <1>2. ASSUME NEW s \in SUBSET Convs, s # {}
        PROVE  /\ any(s) \in s /\ s \ {any(s)} \in SUBSET Convs
               /\ Cardinality(s) \in Nat /\ Cardinality(s \ {any(s)}) = Cardinality(s) - 1
    <2>1. IsFiniteSet(s) /\ any(s) \in s
      BY <1>1, <1>2, FS_Subset
    <2> HIDE DEF any
    <2> QED BY <2>1, FS_CardinalityType, FS_RemoveElement
  <1>3. ASSUME NEW s \in SUBSET Convs
        PROVE  Cardinality(s) \in 0..n /\ (Cardinality(s) = 0 <=> s = {})
    BY <1>1, FS_Subset, FS_CardinalityType, FS_EmptySet
  <1>4. ASSUME NEW f \in D, NEW s \in SUBSET Convs PROVE Sum(f, s) \in Nat
    <2>1. CASE s = {}
      BY <2>1
    <2>2. CASE s # {}
      <3>1. any(s) \in Convs /\ f[s \ {any(s)}] \in Nat
        BY <1>2, <2>2
      <3> HIDE DEF any, D
      <3> QED BY <2>2, <3>1
    <2> QED BY <2>1, <2>2
  <1>5. zero \in D /\ next \in Steppers(D, n + 1)
    <2>1. ASSUME NEW f \in D PROVE Step(f) \in D
      <3> HIDE DEF Sum
      <3> QED BY <1>4
    <2> HIDE DEF Step, D
    <2>2. next \in Steppers(D, n + 1)
      BY <2>1 DEF Steppers
    <2> QED BY <2>2 DEF D
  <1>6. PICK h \in [0..(n + 1) -> D] : Repeats(h, zero, next, n + 1)
    <2> HIDE DEF next, zero, D, n
    <2>1. n + 1 \in Nat
      BY <1>1
    <2> QED BY <1>5, <2>1, Iterates
  <1>7. ASSUME NEW k \in 0..n, NEW s \in SUBSET Convs PROVE h[k + 1][s] = Sum(h[k], s)
    <2>1. k + 1 \in 1..(n + 1) /\ (k + 1) - 1 = k /\ h[k] \in D
      <3> HIDE DEF D, n
      <3>1. k \in 0..(n + 1) /\ k + 1 \in 1..(n + 1) /\ (k + 1) - 1 = k
        BY <1>1
      <3> QED BY <1>6, <3>1
    <2>2. h[k + 1] = next[<<h[k], k + 1>>]
      BY <1>6, <2>1 DEF Repeats
    <2>3. next[<<h[k], k + 1>>] = Step(h[k])
      <3> HIDE DEF Step, D
      <3> QED BY <2>1
    <2> HIDE DEF Sum, next
    <2> QED BY <2>2, <2>3
  <1> DEFINE Same(k) == \A s \in SUBSET Convs : Cardinality(s) <= k => h[k + 1][s] = h[k][s]
             T == { k \in 0..n : Same(k) }
  <1>8. 0 \in T
    <2> SUFFICES ASSUME NEW s \in SUBSET Convs, Cardinality(s) <= 0 PROVE h[0 + 1][s] = h[0][s]
      BY <1>1
    <2>1. s = {}
      BY <1>3
    <2>2. h[0 + 1][s] = 0
      BY <1>1, <1>7, <2>1
    <2>3. h[0][s] = 0
      BY <1>6 DEF Repeats
    <2> QED BY <2>2, <2>3
  <1>9. \A k \in 0..(n - 1) : k \in T => k + 1 \in T
    <2> SUFFICES ASSUME NEW k \in 0..(n - 1), Same(k), NEW s \in SUBSET Convs, Cardinality(s) <= k + 1
                 PROVE  h[(k + 1) + 1][s] = h[k + 1][s]
      BY <1>1
    <2>1. k \in 0..n /\ k + 1 \in 0..n
      BY <1>1
    <2>2. h[(k + 1) + 1][s] = Sum(h[k + 1], s) /\ h[k + 1][s] = Sum(h[k], s)
      <3> HIDE DEF Sum
      <3> QED BY <1>7, <2>1
    <2>3. CASE s = {}
      BY <2>2, <2>3
    <2>4. CASE s # {}
      <3> DEFINE r == s \ {any(s)}
      <3>1. r \in SUBSET Convs /\ Cardinality(r) <= k
        BY <1>2, <2>1, <2>4
      <3>2. h[k + 1][r] = h[k][r]
        BY <3>1
      <3> HIDE DEF any
      <3> QED BY <2>2, <2>4, <3>2
    <2> QED BY <2>3, <2>4
  <1>10. Same(n)
    <2> HIDE DEF T, n
    <2>1. n \in T
      BY <1>1, <1>8, <1>9, Induct
    <2> QED BY <2>1 DEF T
  <1> DEFINE Def(g) == g = Step(g)
             sum == CHOOSE g : Def(g)
  <1>11. Def(h[n])
    <2>1. h[n] \in D
      BY <1>1, <1>6
    <2>2. \A s \in SUBSET Convs : h[n][s] = Sum(h[n], s)
      <3> HIDE DEF Sum
      <3> QED BY <1>1, <1>3, <1>7, <1>10
    <2> HIDE DEF Sum
    <2> QED BY <2>1, <2>2
  <1>12. Def(sum)
    <2> HIDE DEF Def
    <2> QED BY <1>11
  <1>13. TotalUnread(cs) = sum[Convs]
    BY DEF TotalUnread, MapThenSumSet, MapThenFoldSet
  <1> HIDE DEF sum
  <1>14. \A s \in SUBSET Convs : sum[s] = Sum(sum, s)
    <2> HIDE DEF Sum
    <2> QED BY <1>12
  <1> DEFINE U == { k \in 0..n : \A s \in SUBSET Convs : Cardinality(s) <= k => sum[s] \in Nat }
  <1>15. 0 \in U
    <2>1. \A s \in SUBSET Convs : Cardinality(s) <= 0 => s = {}
      BY <1>3
    <2>2. {} \in SUBSET Convs /\ sum[{}] = 0
      BY <1>14
    <2>3. ASSUME NEW s \in SUBSET Convs, Cardinality(s) <= 0 PROVE sum[s] \in Nat
      <3>1. s = {}
        BY <2>1, <2>3
      <3> QED BY <2>2, <3>1
    <2> QED BY <1>1, <2>3
  <1>16. \A k \in 0..(n - 1) : k \in U => k + 1 \in U
    <2> SUFFICES ASSUME NEW k \in 0..(n - 1), k \in U, NEW s \in SUBSET Convs, Cardinality(s) <= k + 1
                 PROVE  sum[s] \in Nat
      BY <1>1
    <2>1. CASE s = {}
      BY <1>14, <2>1
    <2>2. CASE s # {}
      <3> DEFINE r == s \ {any(s)}
      <3>1. r \in SUBSET Convs /\ Cardinality(r) <= k /\ any(s) \in Convs
        BY <1>2, <2>2
      <3>2. sum[r] \in Nat /\ sum[s] = cs[any(s)].unread + sum[r]
        BY <1>14, <2>2, <3>1
      <3> HIDE DEF any, r
      <3> QED BY <3>1, <3>2
    <2> QED BY <2>1, <2>2
  <1>17. n \in U
    <2> HIDE DEF U, n
    <2> QED BY <1>1, <1>15, <1>16, Induct
  <1>18. sum[Convs] \in Nat
    BY <1>1, <1>17
  <1> QED BY <1>13, <1>18

\* How apply_transport_messages ends: everything is stored, projected and announced, or only
\* the first few messages are stored.
LEMMA ApplyTransportEnds ==
  ASSUME NEW ids \in Seq(Texts), ApplyTransportMessages([i \in DOMAIN ids |-> Incoming(ids[i])]),
         NEW ms, ms = [i \in DOMAIN ids |-> Received(Incoming(ids[i]))]
  PROVE  \/ /\ messages' = StoreAll(ms) /\ Project(ms) /\ Announce(ms)
            /\ halfDone' = halfDone \ {ms[i].id : i \in DOMAIN ms}
         \/ \E k \in 0..Len(ms) :
               /\ messages' = StoreAll(SubSeq(ms, 1, k)) /\ NothingProjected /\ announced' = announced
               /\ halfDone' = halfDone \cup {ms[i].id : i \in 1..k}
  <1> DEFINE pushed == [i \in DOMAIN ids |-> Incoming(ids[i])]
             refused == {i \in DOMAIN pushed : ~Acceptable(pushed[i])}
             list == [i \in DOMAIN pushed |-> Received(pushed[i])]
             least == Min(refused)
  <1>1. ms = list
    OBVIOUS
  <1>2. IF refused = {}
        THEN /\ messages' = StoreAll(list) /\ Project(list) /\ Announce(list)
             /\ halfDone' = halfDone \ {list[i].id : i \in DOMAIN list}
        ELSE /\ messages' = StoreAll(SubSeq(list, 1, least - 1))
             /\ halfDone' = halfDone \cup {list[i].id : i \in 1..(least - 1)}
             /\ UNCHANGED announced /\ NothingProjected
    BY DEF ApplyTransportMessages
  <1>3. refused \in SUBSET (1..Len(ms)) /\ Len(ms) \in Nat
    OBVIOUS
  <1>4. ASSUME refused # {} PROVE least - 1 \in 0..Len(ms)
    <2> HIDE DEF refused
    <2>1. PICK first \in refused : \A i \in refused : first <= i
      BY <1>3, <1>4, LeastNumber
    <2>2. least \in refused
      BY <2>1 DEF Min
    <2> HIDE DEF least
    <2>3. least \in 1..Len(ms)
      BY <1>3, <2>2
    <2> QED BY <1>3, <2>3
  <1> HIDE DEF refused, least, list
  <1> QED BY <1>1, <1>2, <1>4

\* Types of what FlowInv does not speak of.
RestTypes ==
    /\ traffic \in 0..MaxTraffic
    /\ drained \subseteq Msgs /\ announced \subseteq Msgs /\ halfDone \subseteq Msgs

\* apply_transport_messages announces and leaves behind only messages.
LEMMA ApplyTransportTells ==
  ASSUME NEW ids \in Seq(Texts), ApplyTransportMessages([i \in DOMAIN ids |-> Incoming(ids[i])]),
         announced \subseteq Msgs, halfDone \subseteq Msgs
  PROVE  announced' \subseteq Msgs /\ halfDone' \subseteq Msgs
  <1> DEFINE ms == [i \in DOMAIN ids |-> Received(Incoming(ids[i]))]
  <1>1. /\ Len(ms) \in Nat /\ DOMAIN ms = 1..Len(ms)
        /\ \A i \in 1..Len(ms) : ms[i].id \in Msgs
    BY DEF Incoming, Received, Texts
  <1>2. PICK ends \in BOOLEAN :
           IF ends THEN Announce(ms) /\ halfDone' = halfDone \ {ms[i].id : i \in DOMAIN ms}
           ELSE \E k \in 0..Len(ms) :
                   announced' = announced /\ halfDone' = halfDone \cup {ms[i].id : i \in 1..k}
    <2> HIDE DEF ms
    <2> QED BY ApplyTransportEnds DEF ms
  <1> HIDE DEF ms
  <1>3. CASE ends
    BY <1>1, <1>2, <1>3, Announced
  <1>4. CASE ~ends
    <2>1. PICK k \in 0..Len(ms) :
             announced' = announced /\ halfDone' = halfDone \cup {ms[i].id : i \in 1..k}
      BY <1>2, <1>4
    <2> QED BY <1>1, <2>1
  <1> QED BY <1>3, <1>4

\* Every variable of the message flow stays in its domain.
THEOREM FlowTypes == Spec => []TypeOK
  <1>1. Init => RestTypes
    BY FlowConstants DEF FlowConstants, Init, RestTypes
  <1>2. FlowInv /\ RestTypes /\ [Next]_vars => RestTypes'
    <2> SUFFICES ASSUME FlowInv, RestTypes, [Next]_vars PROVE RestTypes'
      OBVIOUS
    <2> USE DEF RestTypes
    <2>1. ASSUME traffic < MaxTraffic, traffic' = traffic + 1 PROVE traffic' \in 0..MaxTraffic
      BY <2>1, FlowConstants DEF FlowConstants
    <2>2. \A c \in Convs : {p.id : p \in projected[c]} \subseteq Msgs
      BY DEF FlowInv, ConvInv
    <2>3. CASE \E m \in Msgs : SendMessage(m) \/ RevokeMessage(m) \/ MarkRead(m)
      BY <2>1, <2>3 DEF SendMessage, SendSucceeds, SendAckInvalid, SendFails, RevokeMessage, MarkRead
    <2>4. CASE \E c \in Convs, ids \in Batches(Texts) : PullMessages(c, ids)
      <3>1. PICK c \in Convs, ids \in Batches(Texts) : PullMessages(c, ids)
        BY <2>4
      <3> DEFINE ms == [i \in DOMAIN ids |-> Incoming(ids[i])]
      <3>2. announced' = announced \/ Announce(ms)
        BY <3>1 DEF PullMessages
      <3>3. \A i \in DOMAIN ms : ms[i].id \in Msgs
        BY BatchesAreLists DEF Incoming, Texts
      <3>4. announced' \subseteq Msgs
        <4> HIDE DEF ms
        <4> QED BY <3>2, <3>3, Announced
      <3>5. halfDone' \subseteq halfDone
        BY <3>1 DEF PullMessages
      <3> QED BY <2>1, <3>1, <3>4, <3>5 DEF PullMessages
    <2>5. CASE \E ids \in Batches(Texts) : ReceiveTransportPushes(ids)
      BY <2>1, <2>5, BatchesAreLists, ApplyTransportTells DEF ReceiveTransportPushes
    <2>6. CASE \E event \in PushEvents : PushArrives(event)
      BY <2>1, <2>6 DEF PushArrives
    <2>7. CASE PumpTransportEvents
      <3>1. drained' \subseteq Msgs
        BY <2>7 DEF PumpTransportEvents, Texts
      <3> DEFINE texts == TextsOf(FlattenSeq([i \in DOMAIN channel |-> DecodePush(channel[i])]))
      <3>2. texts \in Seq(Texts)
        BY PumpTextsAreTexts DEF FlowInv, ToldInv
      <3>3. \/ announced' = announced /\ halfDone' = halfDone
            \/ ApplyTransportMessages([i \in DOMAIN texts |-> Incoming(texts[i])])
        BY <2>7 DEF PumpTransportEvents
      <3>4. announced' \subseteq Msgs /\ halfDone' \subseteq Msgs
        <4> HIDE DEF texts
        <4> QED BY <3>2, <3>3, ApplyTransportTells
      <3> QED BY <2>7, <3>1, <3>4 DEF PumpTransportEvents
    <2>8. CASE MarkAllRead
      BY <2>8 DEF MarkAllRead
    <2>9. CASE \E c \in Convs : MarkConversationRead(c) \/ DeleteConversation(c)
      BY <2>2, <2>9 DEF MarkConversationRead, DeleteConversation
    <2>10. CASE UNCHANGED vars
      BY <2>10 DEF vars
    <2> QED BY <2>3, <2>4, <2>5, <2>6, <2>7, <2>8, <2>9, <2>10 DEF Next
  <1>3. FlowInv /\ RestTypes => TypeOK
    <2> SUFFICES ASSUME FlowInv, RestTypes PROVE TypeOK
      OBVIOUS
    <2>1. messages \in [Msgs -> MessageRecord]
      BY DEF FlowInv, StoreInv
    <2>2. convs \in [Convs -> ConversationRecord] /\ shown = convs
      BY DEF FlowInv, ConvInv, Entries, ConversationRecord
    <2>3. \A c \in Convs : convs[c].exists \/ convs[c] = NoConversation
      BY DEF FlowInv, ConvInv, Agrees
    <2>4. \A i \in DOMAIN channel : Range(DecodePush(channel[i])) \subseteq Msgs
      <3>1. \A i \in DOMAIN channel : channel[i] \in PushEvents
        BY DEF FlowInv, ToldInv
      <3>2. \A i \in DOMAIN channel : DecodePush(channel[i]) \in Seq(Msgs)
        BY <3>1, DecodedIsList
      <3> QED BY <3>2 DEF Range
    <2>5. fresh \in [Convs -> SUBSET Msgs] /\ applied \subseteq Msgs
      BY DEF FlowInv, ConvInv, ToldInv
    <2>6. shownTotal \in Nat
      BY TotalIsNumber DEF FlowInv, ConvInv, Entries
    <2> QED BY <2>1, <2>2, <2>3, <2>4, <2>5, <2>6 DEF RestTypes, TypeOK
  <1> QED BY <1>1, <1>2, <1>3, FlowInvariance, PTL DEF Spec

\* What is stored is projected or left behind in the same step.
LEMMA StoredWithAccount ==
  ASSUME StoredMessagesAccountedFor, NEW ms, Len(ms) \in Nat, DOMAIN ms = 1..Len(ms),
         messages' = StoreAll(ms),
         \A i \in 1..Len(ms) : ms[i].id \in applied' \cup halfDone',
         applied \cup halfDone \subseteq applied' \cup halfDone',
         announced' \subseteq applied'
  PROVE  StoredMessagesAccountedFor'
  <1>1. ASSUME NEW m \in Msgs
        PROVE  messages'[m] = messages[m] \/ \E i \in 1..Len(ms) : ms[i].id = m
    BY StoresGiven
  <1> QED BY <1>1 DEF StoredMessagesAccountedFor

\* A call that takes its messages in projects and announces all of them.
LEMMA TakenInAccounted ==
  ASSUME StoredMessagesAccountedFor, NEW ms, Len(ms) \in Nat, DOMAIN ms = 1..Len(ms),
         messages' = StoreAll(ms), Project(ms), Announce(ms),
         halfDone' = halfDone \ {ms[i].id : i \in DOMAIN ms}
  PROVE  StoredMessagesAccountedFor'
  <1>1. applied' = applied \cup {ms[i].id : i \in DOMAIN ms}
    BY DEF Project
  <1>2. announced' = announced \cup {ms[i].id : i \in DOMAIN ms}
    BY Announced
  <1>3. announced' \subseteq applied'
    BY <1>1, <1>2 DEF StoredMessagesAccountedFor
  <1> QED BY <1>1, <1>3, StoredWithAccount

\* A batch of pushes, taken in or refused half way.
LEMMA ApplyTransportAccounted ==
  ASSUME StoredMessagesAccountedFor, NEW ids \in Seq(Texts),
         ApplyTransportMessages([i \in DOMAIN ids |-> Incoming(ids[i])])
  PROVE  StoredMessagesAccountedFor'
  <1> DEFINE ms == [i \in DOMAIN ids |-> Received(Incoming(ids[i]))]
  <1>1. Len(ms) \in Nat /\ DOMAIN ms = 1..Len(ms)
    OBVIOUS
  <1>2. \/ /\ messages' = StoreAll(ms) /\ Project(ms) /\ Announce(ms)
           /\ halfDone' = halfDone \ {ms[i].id : i \in DOMAIN ms}
        \/ \E k \in 0..Len(ms) :
              /\ messages' = StoreAll(SubSeq(ms, 1, k)) /\ NothingProjected /\ announced' = announced
              /\ halfDone' = halfDone \cup {ms[i].id : i \in 1..k}
    <2> HIDE DEF ms
    <2> QED BY ApplyTransportEnds DEF ms
  <1> HIDE DEF ms
  <1>3. CASE /\ messages' = StoreAll(ms) /\ Project(ms) /\ Announce(ms)
             /\ halfDone' = halfDone \ {ms[i].id : i \in DOMAIN ms}
    BY <1>1, <1>3, TakenInAccounted
  <1>4. ASSUME NEW k \in 0..Len(ms),
               messages' = StoreAll(SubSeq(ms, 1, k)), NothingProjected, announced' = announced,
               halfDone' = halfDone \cup {ms[i].id : i \in 1..k}
        PROVE  StoredMessagesAccountedFor'
    <2> DEFINE kept == SubSeq(ms, 1, k)
    <2>1. /\ Len(kept) = k /\ DOMAIN kept = 1..Len(kept) /\ Len(kept) \in Nat
          /\ \A i \in 1..Len(kept) : kept[i] = ms[i]
      BY <1>1
    <2>2. applied' = applied
      BY <1>4 DEF NothingProjected
    <2>3. announced' \subseteq applied'
      BY <1>4, <2>2 DEF StoredMessagesAccountedFor
    <2>4. messages' = StoreAll(kept)
      BY <1>4
    <2> HIDE DEF kept
    <2>5. \A i \in 1..Len(kept) : kept[i].id \in halfDone'
      BY <1>4, <2>1
    <2> QED BY <1>4, <2>1, <2>2, <2>3, <2>4, <2>5, StoredWithAccount
  <1> QED BY <1>2, <1>3, <1>4

\* For any server, also one that acknowledges without an id or delivers what the owner may not
\* see: a message is stored and in no conversation only if the last call that stored it
\* returned an error, and nobody is told of a message that no conversation was given.
THEOREM StoredAccounted == Spec => []StoredMessagesAccountedFor
  <1>1. Init => StoredMessagesAccountedFor
    BY DEF Init, StoredMessagesAccountedFor, NoMessage
  <1>2. FlowInv /\ StoredMessagesAccountedFor /\ [Next]_vars => StoredMessagesAccountedFor'
    <2> SUFFICES ASSUME FlowInv, StoredMessagesAccountedFor, [Next]_vars PROVE StoredMessagesAccountedFor'
      OBVIOUS
    <2>1. ASSUME UNCHANGED <<messages, applied, announced, halfDone>> PROVE StoredMessagesAccountedFor'
      BY <2>1 DEF StoredMessagesAccountedFor
    <2>2. messages \in [Msgs -> MessageRecord]
      BY DEF FlowInv, StoreInv
    <2>3. CASE \E m \in Msgs : SendMessage(m)
      <3>1. PICK m \in Msgs : SendMessage(m)
        BY <2>3
      <3>2. announced' = announced
        BY <3>1 DEF SendMessage
      <3>3. ASSUME applied \subseteq applied', halfDone \ {m} \subseteq halfDone', m \in applied' \cup halfDone',
                   NEW x, messages' = [messages EXCEPT ![m] = x]
            PROVE  StoredMessagesAccountedFor'
        BY <2>2, <3>2, <3>3 DEF StoredMessagesAccountedFor
      <3>4. CASE SendSucceeds(m)
        <4>1. PICK seq \in {0, Attr[m].seq} :
                 LET sent == [Incoming(m) EXCEPT !.seq = seq, !.read = TRUE, !.status = "SendSuccess"]
                 IN  /\ messages' = [messages EXCEPT ![m] = Stored(sent)]
                     /\ halfDone' = halfDone \ {m}
                     /\ Project(<<sent>>)
          BY <3>4 DEF SendSucceeds
        <4> DEFINE sent == [Incoming(m) EXCEPT !.seq = seq, !.read = TRUE, !.status = "SendSuccess"]
        <4>2. sent.id = m
          BY DEF Incoming
        <4>3. messages' = [messages EXCEPT ![m] = Stored(sent)] /\ halfDone' = halfDone \ {m} /\ Project(<<sent>>)
          BY <4>1
        <4> HIDE DEF sent
        <4>4. applied' = applied \cup {<<sent>>[i].id : i \in DOMAIN <<sent>>}
          BY <4>3 DEF Project
        <4>5. DOMAIN <<sent>> = {1} /\ <<sent>>[1] = sent
          OBVIOUS
        <4>6. applied' = applied \cup {m}
          BY <4>2, <4>4, <4>5
        <4> QED BY <3>3, <4>3, <4>6
      <3>5. CASE SendAckInvalid(m) \/ SendFails(m)
        BY <3>3, <3>5 DEF SendAckInvalid, SendFails, NothingProjected
      <3> QED BY <3>1, <3>4, <3>5 DEF SendMessage
    <2>4. CASE \E m \in Msgs : RevokeMessage(m) \/ MarkRead(m)
      <3>1. PICK m \in Msgs : RevokeMessage(m) \/ MarkRead(m)
        BY <2>4
      <3>2. applied' = applied /\ announced' = announced /\ halfDone' = halfDone /\ messages[m].status # "None"
        BY <3>1 DEF RevokeMessage, MarkRead, MessageMut, NothingProjected
      <3>3. \A n \in Msgs : messages'[n].status # "None" => messages[n].status # "None"
        BY <2>2, <3>1, <3>2 DEF RevokeMessage, MarkRead, MessageRecord
      <3> QED BY <3>2, <3>3 DEF StoredMessagesAccountedFor
    <2>5. CASE \E c \in Convs, ids \in Batches(Texts) : PullMessages(c, ids)
      <3>1. PICK c \in Convs, ids \in Batches(Texts) : PullMessages(c, ids)
        BY <2>5
      <3> DEFINE ms == [i \in DOMAIN ids |-> Incoming(ids[i])]
      <3>2. \/ UNCHANGED <<messages, announced, halfDone>> /\ NothingProjected
            \/ /\ messages' = StoreAll(ms) /\ Project(ms) /\ Announce(ms)
               /\ halfDone' = halfDone \ Range(ids)
        BY <3>1 DEF PullMessages
      <3>3. Len(ms) \in Nat /\ DOMAIN ms = 1..Len(ms)
        BY BatchesAreLists
      <3>4. Range(ids) = {ms[i].id : i \in DOMAIN ms}
        BY DEF Range, Incoming
      <3> HIDE DEF ms
      <3> QED BY <2>1, <3>2, <3>3, <3>4, TakenInAccounted DEF NothingProjected
    <2>6. CASE \E ids \in Batches(Texts) : ReceiveTransportPushes(ids)
      BY <2>6, BatchesAreLists, ApplyTransportAccounted DEF ReceiveTransportPushes
    <2>7. CASE \E event \in PushEvents : PushArrives(event)
      BY <2>1, <2>7 DEF PushArrives, NothingProjected
    <2>8. CASE PumpTransportEvents
      <3> DEFINE texts == TextsOf(FlattenSeq([i \in DOMAIN channel |-> DecodePush(channel[i])]))
      <3>1. texts \in Seq(Texts)
        BY PumpTextsAreTexts DEF FlowInv, ToldInv
      <3>2. \/ UNCHANGED <<messages, announced, halfDone>> /\ NothingProjected
            \/ ApplyTransportMessages([i \in DOMAIN texts |-> Incoming(texts[i])])
        BY <2>8 DEF PumpTransportEvents
      <3> HIDE DEF texts
      <3> QED BY <2>1, <3>1, <3>2, ApplyTransportAccounted DEF NothingProjected
    <2>9. CASE MarkAllRead \/ \E c \in Convs : MarkConversationRead(c) \/ DeleteConversation(c)
      BY <2>1, <2>9 DEF MarkAllRead, MarkConversationRead, DeleteConversation
    <2>10. CASE UNCHANGED vars
      BY <2>1, <2>10 DEF vars
    <2> QED BY <2>3, <2>4, <2>5, <2>6, <2>7, <2>8, <2>9, <2>10 DEF Next
  <1> QED BY <1>1, <1>2, FlowInvariance, PTL DEF Spec

==============================================================================
