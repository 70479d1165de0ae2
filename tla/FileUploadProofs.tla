--------------------------- MODULE FileUploadProofs ---------------------------
(***************************************************************************)
(* Theorems about multipart uploads, for files of any size, any limits of  *)
(* the server and any number of failed calls.                              *)
(***************************************************************************)
EXTENDS FileUpload, FiniteSetTheorems, WellFoundedInduction, TLAPS

-----------------------------------------------------------------------------
(* Numbers *)

LEMMA LeastNumber ==
  ASSUME NEW T \in SUBSET Nat, T # {}
  PROVE  \E n \in T : \A m \in T : n <= m
  <1> DEFINE R == OpToRel(<, Nat)
  <1>1. IsWellFoundedOn(R, Nat)
    BY NatLessThanWellFounded
  <1>2. ASSUME NEW m \in Nat, NEW n \in Nat, m < n PROVE <<m, n>> \in R
    BY <1>2 DEF OpToRel
  <1> HIDE DEF R
  <1>3. PICK n \in T : \A m \in T : <<m, n>> \notin R
    BY <1>1, WFMin
  <1>4. ASSUME NEW m \in T PROVE n <= m
    <2>1. ~(m < n)
      BY <1>2, <1>3
    <2> QED BY <2>1
  <1> QED BY <1>4

\* Induction up to n, on the set of the numbers a statement holds for.
LEMMA Induct ==
  ASSUME NEW n \in Nat, NEW T, 0 \in T, \A i \in 0..(n - 1) : i \in T => i + 1 \in T
  PROVE  n \in T
  <1> DEFINE Bad == { i \in 0..n : i \notin T }
  <1> SUFFICES ASSUME n \notin T PROVE FALSE
    OBVIOUS
  <1>0. n \in Bad
    OBVIOUS
  <1>1. PICK m \in Bad : \A i \in Bad : m <= i
    <2>1. Bad \in SUBSET Nat
      OBVIOUS
    <2> HIDE DEF Bad
    <2> QED BY <1>0, <2>1, LeastNumber
  <1>2. m # 0 /\ m - 1 \in 0..(n - 1) /\ m - 1 \notin Bad
    BY <1>1
  <1>3. m - 1 \in T /\ (m - 1) + 1 = m
    BY <1>2
  <1> QED BY <1>1, <1>2, <1>3

LEMMA MinOfTwo ==
  ASSUME NEW a \in Int, NEW b \in Int
  PROVE  Min({a, b}) = IF a <= b THEN a ELSE b
  <1> DEFINE m == IF a <= b THEN a ELSE b
  <1>1. m \in {a, b} /\ \A y \in {a, b} : m <= y
    OBVIOUS
  <1>2. Min({a, b}) \in {a, b} /\ \A y \in {a, b} : Min({a, b}) <= y
    BY <1>1 DEF Min
  <1> QED BY <1>2

LEMMA MultipleBelow ==
  ASSUME NEW a \in Nat, NEW b \in Nat, NEW p \in Nat, a * p < p * b
  PROVE  a < b
  <1> SUFFICES ASSUME a >= b PROVE FALSE
    OBVIOUS
  <1>1. PICK d \in Nat : a = b + d
    <2>1. a - b \in Nat /\ a = b + (a - b)
      OBVIOUS
    <2> QED BY <2>1
  <1>2. a * p = b * p + d * p /\ d * p \in Nat /\ b * p = p * b /\ b * p \in Nat
    BY <1>1
  <1> QED BY <1>2

\* Rounding up.
LEMMA DivCeilBounds ==
  ASSUME NEW a \in Nat, NEW b \in Nat, b > 0
  PROVE  /\ DivCeil(a, b) \in Nat /\ a <= DivCeil(a, b) * b
         /\ \A c \in Nat : a <= c * b => DivCeil(a, b) <= c
         /\ \A c \in Nat : a > c * b => DivCeil(a, b) > c
  <1> DEFINE q == DivCeil(a, b)
  <1>1. q \in Nat /\ q * b <= a + b - 1 /\ a + b - 1 < q * b + b
    BY DEF DivCeil
  <1> HIDE DEF q
  <1>2. a <= q * b
    BY <1>1
  <1>3. ASSUME NEW c \in Nat, a <= c * b PROVE q <= c
    <2>1. q * b < (c + 1) * b /\ c + 1 \in Nat
      <3>1. (c + 1) * b = c * b + b
        OBVIOUS
      <3>2. q * b \in Nat /\ c * b \in Nat
        BY <1>1
      <3> QED BY <1>1, <1>3, <3>1, <3>2
    <2>2. q < c + 1
      <3>1. (c + 1) * b = b * (c + 1)
        OBVIOUS
      <3> QED BY <1>1, <2>1, <3>1, MultipleBelow
    <2> QED BY <1>1, <2>2
  <1>4. ASSUME NEW c \in Nat, a > c * b PROVE q > c
    <2>1. c * b < b * q
      <3>1. q * b \in Nat /\ c * b \in Nat /\ b * q = q * b
        BY <1>1
      <3> QED BY <1>2, <1>4, <3>1
    <2> QED BY <1>1, <2>1, MultipleBelow
  <1> QED BY <1>1, <1>2, <1>3, <1>4 DEF q

-----------------------------------------------------------------------------
(* Plans *)

Part == [offset : Nat, size : Nat \ {0}, uploaded : BOOLEAN]

\* Parts that follow each other from the byte at to the end of the file, all of size n
\* except the last, which may be smaller.
Layout(p, at, s, n) ==
    /\ p \in Seq(Part) /\ Len(p) > 0
    /\ p[1].offset = at /\ End(p[Len(p)]) = s /\ p[Len(p)].size <= n
    /\ \A i \in 1..(Len(p) - 1) : p[i + 1].offset = End(p[i]) /\ p[i].size = n

LEMMA LayoutOne ==
  ASSUME NEW part \in Part, NEW n, part.size <= n
  PROVE  Layout(<<part>>, part.offset, End(part), n)
  BY DEF Layout

LEMMA LayoutMore ==
  ASSUME NEW part \in Part, NEW p, NEW s, NEW n, part.size = n, Layout(p, End(part), s, n)
  PROVE  Layout(<<part>> \o p, part.offset, s, n)
  <1> DEFINE q == <<part>> \o p
  <1>1. p \in Seq(Part) /\ Len(p) \in Nat /\ Len(p) > 0
    BY DEF Layout
  <1>2. /\ q \in Seq(Part) /\ Len(q) = Len(p) + 1 /\ q[1] = part
        /\ \A i \in 1..Len(p) : q[i + 1] = p[i]
    BY <1>1
  <1> HIDE DEF q
  <1>3. q[Len(q)] = p[Len(p)]
    <2>1. Len(p) \in 1..Len(p) /\ Len(q) = Len(p) + 1
      BY <1>1, <1>2
    <2> QED BY <1>2, <2>1
  <1>4. ASSUME NEW i \in 1..(Len(q) - 1) PROVE q[i + 1].offset = End(q[i]) /\ q[i].size = n
    <2>1. i \in 1..Len(p) /\ q[i + 1] = p[i]
      BY <1>1, <1>2
    <2>2. CASE i = 1
      BY <1>2, <2>1, <2>2 DEF Layout
    <2>3. CASE i # 1
      <3>1. i - 1 \in 1..(Len(p) - 1) /\ i - 1 \in 1..Len(p) /\ (i - 1) + 1 = i
        BY <1>1, <2>1, <2>3
      <3>2. q[i] = p[i - 1]
        BY <1>2, <3>1
      <3> QED BY <2>1, <3>1, <3>2 DEF Layout
    <2> QED BY <2>2, <2>3
  <1>5. Layout(q, part.offset, s, n)
    BY <1>1, <1>2, <1>3, <1>4 DEF Layout
  <1> QED BY <1>5 DEF q

\* What the loop of plan_multipart returns.
LEMMA PlanLayout ==
  ASSUME NEW s \in Nat \ {0}, NEW n \in Nat \ {0}
  PROVE  Layout(PlanMultipart(s, n), 0, s, n)
  <1> DEFINE take(o) == Min({s - o, n})
             part(o) == [offset |-> o, size |-> take(o), uploaded |-> FALSE]
             Body(g, o) == IF o >= s THEN <<>> ELSE <<part(o)>> \o g[o + take(o)]
             Def(g, k) == g = [o \in k..s |-> Body(g, o)]
  <1>1. ASSUME NEW o \in 0..(s - 1)
        PROVE  /\ take(o) \in Nat \ {0} /\ take(o) <= n
               /\ take(o) = n \/ o + take(o) = s
               /\ o + take(o) \in (o + 1)..s /\ part(o) \in Part
    <2>1. take(o) = IF s - o <= n THEN s - o ELSE n
      BY MinOfTwo
    <2> HIDE DEF take
    <2>2. take(o) \in Nat \ {0}
      BY <2>1
    <2> QED BY <2>1, <2>2 DEF Part
  <1> HIDE DEF take
  <1> DEFINE T == { k \in 0..s : \E g : Def(g, s - k) }
  <1>2. 0 \in T
    <2> DEFINE g == [o \in s..s |-> <<>>]
    <2>1. \A o \in s..s : o >= s
      OBVIOUS
    <2>2. Def(g, s)
      BY <2>1
    <2> HIDE DEF g
    <2>3. s - 0 = s /\ 0 \in 0..s
      OBVIOUS
    <2> HIDE DEF Body
    <2> QED BY <2>2, <2>3
  <1>3. \A k \in 0..(s - 1) : k \in T => k + 1 \in T
    <2> SUFFICES ASSUME NEW k \in 0..(s - 1), k \in T PROVE k + 1 \in T
      OBVIOUS
    <2>1. PICK g : Def(g, s - k)
      OBVIOUS
    <2> DEFINE m == s - (k + 1)
               h == [o \in m..s |-> IF o = m THEN Body(g, m) ELSE g[o]]
    <2>2. m \in 0..(s - 1) /\ s - k = m + 1
      OBVIOUS
    <2>3. ASSUME NEW o \in m..s PROVE Body(h, o) = Body(g, o)
      <3>1. CASE o >= s
        BY <3>1
      <3>2. CASE ~(o >= s)
        <4>1. o + take(o) \in (m + 1)..s
          <5>1. o \in 0..(s - 1) /\ o >= m
            BY <2>2, <3>2
          <5>2. take(o) \in Nat \ {0} /\ o + take(o) \in (o + 1)..s
            BY <1>1, <5>1
          <5> QED BY <2>2, <5>1, <5>2
        <4>2. h[o + take(o)] = g[o + take(o)]
          <5> HIDE DEF Body, m
          <5> QED BY <2>2, <4>1
        <4> HIDE DEF h
        <4> QED BY <3>2, <4>2
      <3> QED BY <3>1, <3>2
    <2> HIDE DEF Body
    <2>4. \A o \in m..s : h[o] = Body(g, o)
      <3>1. \A o \in m..s : o # m => o \in (s - k)..s
        BY <2>2
      <3>2. \A o \in (s - k)..s : g[o] = Body(g, o)
        BY <2>1
      <3> HIDE DEF m
      <3> QED BY <3>1, <3>2
    <2>5. Def(h, m)
      <3>1. \A o \in m..s : h[o] = Body(h, o)
        BY <2>3, <2>4
      <3>2. h = [o \in m..s |-> h[o]]
        OBVIOUS
      <3> HIDE DEF h, m
      <3> QED BY <3>1, <3>2
    <2>6. k + 1 \in 0..s
      OBVIOUS
    <2> HIDE DEF h
    <2> QED BY <2>5, <2>6
  <1>4. s \in T
    <2> HIDE DEF T
    <2> QED BY <1>2, <1>3, Induct
  <1>5. PICK g : Def(g, 0)
    <2>1. s - s = 0
      OBVIOUS
    <2> HIDE DEF Def
    <2> QED BY <1>4, <2>1
  <1> DEFINE from == CHOOSE f : Def(f, 0)
  <1>6. Def(from, 0)
    <2> HIDE DEF Def
    <2> QED BY <1>5
  <1>7. PlanMultipart(s, n) = from[0]
    BY DEF PlanMultipart, take
  <1> HIDE DEF from
  <1>8. \A o \in 0..s : from[o] = Body(from, o)
    <2> HIDE DEF Body
    <2> QED BY <1>6
  <1> DEFINE Good(o) == Layout(from[o], o, s, n)
             U == { k \in 0..(s - 1) : \A o \in (s - 1 - k)..(s - 1) : Good(o) }
  <1>9. ASSUME NEW o \in 0..(s - 1), o + take(o) < s => Good(o + take(o)) PROVE Good(o)
    <2>0. o \in 0..s /\ ~(o >= s)
      OBVIOUS
    <2>1. from[o] = <<part(o)>> \o from[o + take(o)]
      BY <1>8, <2>0
    <2>a. /\ take(o) \in Nat \ {0} /\ take(o) <= n /\ (take(o) = n \/ o + take(o) = s)
          /\ o + take(o) \in (o + 1)..s
      BY <1>1
    <2>2. part(o) \in Part /\ End(part(o)) = o + take(o) /\ part(o).size = take(o) /\ part(o).offset = o
      BY <1>1 DEF End
    <2> HIDE DEF part
    <2>3. CASE o + take(o) = s
      <3>1. from[s] = <<>>
        <4>1. s \in 0..s /\ s >= s
          OBVIOUS
        <4> QED BY <1>8, <4>1
      <3>2. from[o] = <<part(o)>>
        <4>1. <<part(o)>> \in Seq(Part)
          BY <2>2
        <4>2. <<part(o)>> \o <<>> = <<part(o)>>
          BY <4>1
        <4> QED BY <2>1, <2>3, <3>1, <4>2
      <3>3. part(o).size <= n
        BY <1>1, <2>2
      <3>4. Layout(<<part(o)>>, part(o).offset, End(part(o)), n)
        BY <2>2, <3>3, LayoutOne
      <3> QED BY <2>2, <2>3, <3>2, <3>4
    <2>4. CASE o + take(o) # s
      <3>1. o + take(o) < s /\ take(o) = n
        BY <2>4, <2>a
      <3>2. Layout(from[o + take(o)], End(part(o)), s, n)
        BY <1>9, <2>2, <3>1
      <3>3. Layout(<<part(o)>> \o from[o + take(o)], part(o).offset, s, n)
        BY <2>2, <3>1, <3>2, LayoutMore
      <3> QED BY <2>1, <2>2, <3>3
    <2> QED BY <2>3, <2>4
  <1> HIDE DEF Good
  <1>10. 0 \in U
    <2>1. Good(s - 1)
      <3>1. s - 1 \in 0..(s - 1)
        OBVIOUS
      <3>2. take(s - 1) \in Nat \ {0}
        BY <1>1, <3>1
      <3>3. ~((s - 1) + take(s - 1) < s)
        BY <3>2
      <3> QED BY <1>9, <3>1, <3>3
    <2>2. \A o \in (s - 1 - 0)..(s - 1) : o = s - 1
      OBVIOUS
    <2> QED BY <2>1, <2>2
  <1>11. \A k \in 0..((s - 1) - 1) : k \in U => k + 1 \in U
    <2> SUFFICES ASSUME NEW k \in 0..((s - 1) - 1), k \in U PROVE k + 1 \in U
      OBVIOUS
    <2>1. SUFFICES ASSUME NEW o \in (s - 1 - (k + 1))..(s - 1) PROVE Good(o)
      OBVIOUS
    <2>2. o \in 0..(s - 1)
      OBVIOUS
    <2>3. ASSUME o + take(o) < s PROVE Good(o + take(o))
      <3>1. o + take(o) \in (s - 1 - k)..(s - 1)
        <4>1. take(o) \in Nat \ {0} /\ o + take(o) \in (o + 1)..s
          BY <1>1, <2>2
        <4>2. o >= s - 1 - (k + 1) /\ o \in Int
          OBVIOUS
        <4> QED BY <2>3, <4>1, <4>2
      <3> QED BY <3>1
    <2> QED BY <1>9, <2>2, <2>3
  <1>12. Good(0)
    <2>1. s - 1 \in U
      <3> HIDE DEF U
      <3> QED BY <1>10, <1>11, Induct
    <2>2. s - 1 - (s - 1) = 0 /\ 0 \in 0..(s - 1)
      OBVIOUS
    <2> QED BY <2>1, <2>2
  <1> QED BY <1>7, <1>12 DEF Good

\* Every part but the last starts at a multiple of the part size.
LEMMA LayoutOffsets ==
  ASSUME NEW p, NEW s \in Nat, NEW n \in Nat, Layout(p, 0, s, n), NEW b \in Nat, s <= n * b
  PROVE  Len(p) <= b
  <1>1. p \in Seq(Part) /\ Len(p) \in Nat /\ Len(p) - 1 \in Nat
    BY DEF Layout
  <1> DEFINE T == { k \in 0..(Len(p) - 1) : p[k + 1].offset = k * n }
  <1>2. 0 \in T
    BY <1>1 DEF Layout
  <1>3. \A k \in 0..((Len(p) - 1) - 1) : k \in T => k + 1 \in T
    <2> SUFFICES ASSUME NEW k \in 0..((Len(p) - 1) - 1), k \in T PROVE k + 1 \in T
      OBVIOUS
    <2>1. k + 1 \in 1..(Len(p) - 1) /\ k + 1 \in 0..(Len(p) - 1)
      BY <1>1
    <2>2. p[(k + 1) + 1].offset = End(p[k + 1]) /\ p[k + 1].size = n
      BY <2>1 DEF Layout
    <2>3. p[(k + 1) + 1].offset = k * n + n
      BY <2>2 DEF End
    <2>4. (k + 1) * n = k * n + n
      OBVIOUS
    <2> QED BY <2>1, <2>3, <2>4
  <1>4. Len(p) - 1 \in T
    <2> HIDE DEF T
    <2> QED BY <1>1, <1>2, <1>3, Induct
  <1>5. p[Len(p)].offset = (Len(p) - 1) * n
    <2>1. (Len(p) - 1) + 1 = Len(p)
      BY <1>1
    <2> QED BY <1>4, <2>1
  <1>6. p[Len(p)] \in Part
    BY <1>1 DEF Layout
  <1>7. s = (Len(p) - 1) * n + p[Len(p)].size /\ p[Len(p)].size \in Nat \ {0}
    BY <1>5, <1>6 DEF Layout, End, Part
  <1>8. (Len(p) - 1) * n < n * b
    <2>1. (Len(p) - 1) * n \in Nat /\ n * b \in Nat
      BY <1>1
    <2> QED BY <1>7, <2>1
  <1>9. Len(p) - 1 < b
    BY <1>1, <1>8, MultipleBelow
  <1> QED BY <1>1, <1>9

\* The part size is not zero and never so small that the parts outnumber what the server
\* takes; with limits that make sense it is within them.
LEMMA PartSizeBounds ==
  ASSUME NEW s \in Nat, NEW l \in [min : Nat, max : Nat, num : Nat], PartSizeFor(s, l) # Error
  PROVE  /\ s > 0 /\ PartSizeFor(s, l) \in Nat \ {0} /\ s <= PartSizeFor(s, l) * l.num
         /\ l.min <= l.max => PartSizeFor(s, l) \in l.min..l.max
  <1>1. /\ s # 0 /\ l.min # 0 /\ l.max # 0 /\ l.num # 0 /\ ~(s > l.max * l.num)
        /\ PartSizeFor(s, l) = IF s <= l.min * l.num THEN l.min ELSE DivCeil(s, l.num)
    BY DEF PartSizeFor
  <1>2. CASE s <= l.min * l.num
    BY <1>1, <1>2
  <1>3. CASE ~(s <= l.min * l.num)
    <2> DEFINE q == DivCeil(s, l.num)
    <2>1. /\ q \in Nat /\ s <= q * l.num
          /\ \A c \in Nat : s <= c * l.num => q <= c
          /\ \A c \in Nat : s > c * l.num => q > c
      <3>1. l.num \in Nat /\ l.num > 0
        BY <1>1
      <3> QED BY <3>1, DivCeilBounds
    <2> HIDE DEF q
    <2>2. l.max * l.num \in Nat /\ l.min * l.num \in Nat
      OBVIOUS
    <2>3. q <= l.max /\ q > l.min
      BY <1>1, <1>3, <2>1, <2>2
    <2>4. PartSizeFor(s, l) = q
      BY <1>1, <1>3 DEF q
    <2> QED BY <1>1, <2>1, <2>3, <2>4
  <1> QED BY <1>2, <1>3

-----------------------------------------------------------------------------
(* Flags *)

\* q is p with other flags.
Reflagged(p, q) ==
    /\ q \in Seq(Part) /\ Len(q) = Len(p)
    /\ \A i \in DOMAIN p : q[i].offset = p[i].offset /\ q[i].size = p[i].size

LEMMA ReflaggedLayout ==
  ASSUME NEW p, NEW q, NEW s, NEW n, Layout(p, 0, s, n), Reflagged(p, q)
  PROVE  Layout(q, 0, s, n)
  <1>1. p \in Seq(Part) /\ Len(p) \in Nat /\ Len(p) > 0 /\ DOMAIN p = 1..Len(p) /\ Len(q) = Len(p)
    BY DEF Layout, Reflagged
  <1>2. \A i \in 1..Len(p) : q[i].offset = p[i].offset /\ q[i].size = p[i].size
    BY <1>1 DEF Reflagged
  <1>3. 1 \in 1..Len(p) /\ Len(p) \in 1..Len(p)
    BY <1>1
  <1>4. \A i \in 1..(Len(p) - 1) : i \in 1..Len(p) /\ i + 1 \in 1..Len(p)
    BY <1>1
  <1> QED BY <1>1, <1>2, <1>3, <1>4 DEF Layout, Reflagged, End

LEMMA WithFlagsReflags ==
  ASSUME NEW p \in Seq(Part), NEW flags
  PROVE  /\ Reflagged(p, WithFlags(p, flags))
         /\ DOMAIN WithFlags(p, flags) = DOMAIN p
         /\ Uploaded(WithFlags(p, flags)) = flags \cap DOMAIN p
  <1> DEFINE q == WithFlags(p, flags)
  <1>1. Len(p) \in Nat /\ DOMAIN p = 1..Len(p) /\ \A i \in 1..Len(p) : p[i] \in Part
    OBVIOUS
  <1>2. q = [i \in 1..Len(p) |-> [p[i] EXCEPT !.uploaded = i \in flags]]
    BY <1>1 DEF WithFlags
  <1>3. ASSUME NEW i \in 1..Len(p)
        PROVE  /\ q[i] \in Part /\ q[i].offset = p[i].offset /\ q[i].size = p[i].size
               /\ q[i].uploaded <=> i \in flags
    <2>1. q[i] = [p[i] EXCEPT !.uploaded = i \in flags] /\ p[i] \in Part
      BY <1>1, <1>2
    <2>2. (i \in flags) \in BOOLEAN
      OBVIOUS
    <2> QED BY <2>1, <2>2 DEF Part
  <1>4. q \in Seq(Part) /\ Len(q) = Len(p) /\ DOMAIN q = 1..Len(p)
    <2>1. q = [i \in 1..Len(p) |-> q[i]]
      BY <1>2
    <2> HIDE DEF q
    <2> QED BY <1>1, <1>3, <2>1
  <1> HIDE DEF q
  <1>5. Uploaded(q) = flags \cap DOMAIN p
    BY <1>1, <1>3, <1>4 DEF Uploaded
  <1>6. Reflagged(p, q)
    BY <1>1, <1>3, <1>4 DEF Reflagged
  <1> QED BY <1>1, <1>4, <1>5, <1>6 DEF q

LEMMA FlagOne ==
  ASSUME NEW p \in Seq(Part), NEW i \in DOMAIN p
  PROVE  LET q == [p EXCEPT ![i].uploaded = TRUE]
         IN  Reflagged(p, q) /\ DOMAIN q = DOMAIN p /\ Uploaded(q) = Uploaded(p) \cup {i}
  <1> DEFINE q == [p EXCEPT ![i].uploaded = TRUE]
  <1>1. Len(p) \in Nat /\ DOMAIN p = 1..Len(p) /\ \A j \in 1..Len(p) : p[j] \in Part
    OBVIOUS
  <1>2. DOMAIN q = 1..Len(p) /\ q = [j \in 1..Len(p) |-> q[j]]
    BY <1>1
  <1>3. ASSUME NEW j \in 1..Len(p)
        PROVE  /\ q[j] \in Part /\ q[j].offset = p[j].offset /\ q[j].size = p[j].size
               /\ q[j].uploaded <=> (p[j].uploaded \/ j = i)
    <2>1. p[j] \in Part
      BY <1>1
    <2>2. CASE j = i
      <3>1. q[j] = [p[j] EXCEPT !.uploaded = TRUE]
        BY <1>1, <2>2
      <3> HIDE DEF q
      <3> QED BY <2>1, <2>2, <3>1 DEF Part
    <2>3. CASE j # i
      <3>1. q[j] = p[j]
        BY <1>1, <2>3
      <3> HIDE DEF q
      <3> QED BY <2>1, <2>3, <3>1 DEF Part
    <2> QED BY <2>2, <2>3
  <1> HIDE DEF q
  <1>4. q \in Seq(Part) /\ Len(q) = Len(p)
    BY <1>1, <1>2, <1>3
  <1>5. Uploaded(q) = Uploaded(p) \cup {i}
    BY <1>1, <1>2, <1>3 DEF Uploaded
  <1>6. Reflagged(p, q)
    BY <1>1, <1>3, <1>4 DEF Reflagged
  <1> QED BY <1>1, <1>2, <1>5, <1>6 DEF q

\* The sizes of the first k parts reach to the end of the k-th.
LEMMA AllBytesUploaded ==
  ASSUME NEW p, NEW s, NEW n, Layout(p, 0, s, n), \A i \in DOMAIN p : p[i].uploaded
  PROVE  UploadedBytes(p) = s
  <1> DEFINE len == Len(p)
             Def(g, k) == g = [i \in 0..k |-> IF i = 0 THEN 0 ELSE
                                 g[i - 1] + (IF p[i].uploaded THEN p[i].size ELSE 0)]
             upTo(k) == [i \in 0..k |-> IF i = 0 THEN 0 ELSE End(p[i])]
  <1>1. /\ p \in Seq(Part) /\ len \in Nat /\ len > 0 /\ DOMAIN p = 1..len
        /\ \A i \in 1..len : p[i] \in Part /\ p[i].uploaded
    BY DEF Layout
  <1>2. \A i \in 1..len : p[i].offset = IF i = 1 THEN 0 ELSE End(p[i - 1])
    <2> SUFFICES ASSUME NEW i \in 1..len, i # 1 PROVE p[i].offset = End(p[i - 1])
      BY DEF Layout
    <2>1. i - 1 \in 1..(len - 1) /\ (i - 1) + 1 = i
      BY <1>1
    <2> QED BY <2>1 DEF Layout
  <1>3. Def(upTo(len), len)
    <2> DEFINE f == upTo(len)
    <2>1. ASSUME NEW i \in 0..len
          PROVE  f[i] = IF i = 0 THEN 0 ELSE f[i - 1] + (IF p[i].uploaded THEN p[i].size ELSE 0)
      <3>1. CASE i = 0
        BY <3>1
      <3>2. CASE i # 0
        <4>1. i \in 1..len /\ i - 1 \in 0..len
          BY <1>1, <3>2
        <4>2. f[i] = p[i].offset + p[i].size
          BY <3>2 DEF End
        <4>3. p[i].offset = f[i - 1]
          <5>1. CASE i = 1
            BY <1>2, <4>1, <5>1
          <5>2. CASE i # 1
            <6>1. i - 1 # 0 /\ f[i - 1] = End(p[i - 1])
              BY <4>1, <5>2
            <6> QED BY <1>2, <4>1, <5>2, <6>1
          <5> QED BY <5>1, <5>2
        <4>4. p[i].uploaded
          BY <1>1, <4>1
        <4> HIDE DEF f
        <4> QED BY <3>2, <4>2, <4>3, <4>4
      <3> QED BY <3>1, <3>2
    <2>2. f = [i \in 0..len |-> f[i]]
      OBVIOUS
    <2> HIDE DEF f, len
    <2>3. Def(f, len)
      BY <2>1, <2>2
    <2> QED BY <2>3 DEF f
  <1> DEFINE sum == CHOOSE g : Def(g, len)
  <1>4. Def(sum, len)
    <2> HIDE DEF Def, upTo
    <2> QED BY <1>3
  <1>5. UploadedBytes(p) = sum[len]
    BY DEF UploadedBytes
  <1> HIDE DEF sum
  <1>6. \A i \in 0..len : sum[i] = IF i = 0 THEN 0 ELSE
                              sum[i - 1] + (IF p[i].uploaded THEN p[i].size ELSE 0)
    BY <1>4
  <1> DEFINE T == { i \in 0..len : sum[i] = IF i = 0 THEN 0 ELSE End(p[i]) }
  <1>7. 0 \in T
    BY <1>1, <1>6
  <1>8. \A i \in 0..(len - 1) : i \in T => i + 1 \in T
    <2> SUFFICES ASSUME NEW i \in 0..(len - 1), i \in T PROVE i + 1 \in T
      OBVIOUS
    <2>1. i + 1 \in 1..len /\ i + 1 \in 0..len /\ (i + 1) - 1 = i /\ i + 1 # 0
      BY <1>1
    <2>2. sum[i + 1] = sum[i] + p[i + 1].size
      BY <1>1, <1>6, <2>1
    <2>3. p[i + 1].offset = IF i = 0 THEN 0 ELSE End(p[i])
      BY <1>2, <2>1
    <2>4. sum[i + 1] = End(p[i + 1])
      BY <2>2, <2>3 DEF End
    <2> QED BY <2>1, <2>4
  <1>9. len \in T
    <2> HIDE DEF T, len
    <2> QED BY <1>1, <1>7, <1>8, Induct
  <1> QED BY <1>1, <1>5, <1>9 DEF Layout

\* A plan whose parts are all flagged is complete.
LEMMA FlaggedIsComplete ==
  ASSUME NEW n, Layout(plan, 0, size, n), Uploaded(plan) = Parts
  PROVE  IsComplete(plan)
  <1>1. Len(plan) \in Nat /\ DOMAIN plan = 1..Len(plan)
    BY DEF Layout
  <1>2. \A i \in DOMAIN plan : plan[i].uploaded
    BY DEF Uploaded, Parts
  <1>3. UploadedBytes(plan) = size
    BY <1>2, AllBytesUploaded
  <1>4. Cardinality(Uploaded(plan)) = Len(plan)
    <2>1. Uploaded(plan) = 1..Len(plan) /\ Len(plan) > 0
      BY <1>1 DEF Parts, Layout
    <2>2. Cardinality(1..Len(plan)) = Len(plan)
      BY <1>1, <2>1, FS_Interval
    <2> QED BY <2>1, <2>2
  <1> QED BY <1>3, <1>4 DEF IsComplete, Progress

-----------------------------------------------------------------------------
(* The upload *)

\* The plan is as plan_multipart made it, except for its flags, and the server has parts of
\* this plan only.
PlanInv ==
    /\ size \in Nat /\ limit \in [min : Nat, max : Nat, num : Nat]
    /\ phase \in {"start", "rejected"} => plan = <<>>
    /\ phase \notin {"start", "rejected"} =>
          /\ PartSizeFor(size, limit) # Error
          /\ Layout(plan, 0, size, PartSizeFor(size, limit))

\* There is an upload, and a new one is started only after something failed.
CallInv ==
    /\ faults \in 0..MaxFaults /\ upload \in 0..(faults + 1)
    /\ phase \in {"prepared", "ready", "uploaded"} => upload # 0
    /\ stored \in [Uploads -> SUBSET Parts]

\* A part without a flag was put again only because an answer was lost.
PutsInv ==
    /\ puts \in [1..MaxParts -> Nat] /\ lost \in [1..MaxParts -> Nat]
    /\ \A i \in 1..MaxParts :
          /\ puts[i] <= 1 + lost[i]
          /\ phase = "prepared" => puts[i] <= lost[i]
          /\ phase = "ready" /\ i \notin Uploaded(plan) => puts[i] <= lost[i]

UploadInv == PlanInv /\ CallInv /\ PutsInv /\ FlagsAreStored

LEMMA InitUploadInv == Init => UploadInv
  <1> SUFFICES ASSUME Init PROVE UploadInv
    OBVIOUS
  <1>1. size \in Nat /\ limit \in [min : Nat, max : Nat, num : Nat]
    <2>1. Sizes \subseteq Nat /\ Bounds \subseteq Nat /\ MaxCount \in Nat
      BY UploadConstants DEF UploadConstants
    <2>2. size \in Sizes /\ limit \in [min : Bounds, max : Bounds, num : 0..MaxCount]
      BY DEF Init, Limits
    <2>3. 0..MaxCount \subseteq Nat
      BY <2>1
    <2> QED BY <2>1, <2>2, <2>3
  <1>2. PlanInv
    BY <1>1 DEF PlanInv, Init
  <1>3. CallInv
    BY UploadConstants DEF UploadConstants, CallInv, Init, Uploads
  <1>4. PutsInv
    BY DEF PutsInv, Init
  <1>5. FlagsAreStored
    BY DEF FlagsAreStored, Init
  <1> QED BY <1>2, <1>3, <1>4, <1>5 DEF UploadInv

\* The parts keep their places and sizes when only flags change.
LEMMA ReflaggedPlanInv ==
  ASSUME PlanInv, UNCHANGED <<size, limit>>, phase \notin {"start", "rejected"},
         phase' \notin {"start", "rejected"}, plan' = plan \/ Reflagged(plan, plan')
  PROVE  PlanInv'
  <1>1. Layout(plan', 0, size, PartSizeFor(size, limit))
    BY ReflaggedLayout DEF PlanInv
  <1> QED BY <1>1 DEF PlanInv

LEMMA PlanIsSeq ==
  ASSUME PlanInv
  PROVE  plan \in Seq(Part) /\ Len(plan) \in Nat /\ Parts = 1..Len(plan)
  <1>1. CASE plan = <<>>
    BY <1>1 DEF Parts
  <1>2. CASE plan # <<>>
    <2>1. plan \in Seq(Part)
      BY <1>2 DEF PlanInv, Layout
    <2> QED BY <2>1 DEF Parts
  <1> QED BY <1>1, <1>2

LEMMA MakePlanInv == UploadInv /\ MakePlan => UploadInv'
  <1> SUFFICES ASSUME UploadInv, MakePlan PROVE UploadInv'
    OBVIOUS
  <1> DEFINE n == PartSizeFor(size, limit)
  <1>0. /\ phase = "start" /\ plan = <<>> /\ size \in Nat /\ limit \in [min : Nat, max : Nat, num : Nat]
        /\ UNCHANGED <<size, limit, upload, stored, faults, puts, lost>>
    BY DEF MakePlan, UploadInv, PlanInv
  <1>1. /\ n = Error => phase' = "rejected" /\ plan' = plan
        /\ n # Error => phase' = "planned" /\ plan' = PlanMultipart(size, n)
    BY DEF MakePlan
  <1>2. n # Error => Layout(plan', 0, size, n)
    <2> SUFFICES ASSUME n # Error PROVE Layout(plan', 0, size, n)
      OBVIOUS
    <2>1. size \in Nat \ {0} /\ n \in Nat \ {0}
      BY <1>0, PartSizeBounds
    <2> HIDE DEF n
    <2> QED BY <1>1, <2>1, PlanLayout
  <1> HIDE DEF n
  <1>3. PlanInv'
    BY <1>0, <1>1, <1>2 DEF PlanInv, n
  <1>4. CallInv'
    <2>1. Parts = {}
      BY <1>0 DEF Parts
    <2>2. stored' \in [Uploads -> SUBSET Parts']
      BY <1>0, <2>1 DEF UploadInv, CallInv
    <2>3. phase' \in {"rejected", "planned"}
      BY <1>1
    <2> QED BY <1>0, <2>2, <2>3 DEF UploadInv, CallInv
  <1>5. PutsInv'
    BY <1>0, <1>1 DEF UploadInv, PutsInv
  <1>6. FlagsAreStored'
    BY <1>0, <1>1 DEF FlagsAreStored
  <1> QED BY <1>3, <1>4, <1>5, <1>6 DEF UploadInv

LEMMA PrepareInv == UploadInv /\ PrepareMultipartUpload => UploadInv'
  <1> SUFFICES ASSUME UploadInv, PrepareMultipartUpload PROVE UploadInv'
    OBVIOUS
  <1>1. /\ phase \in {"planned", "prepared", "ready", "uploaded"}
        /\ UNCHANGED <<size, limit, plan, stored>>
    BY DEF PrepareMultipartUpload
  <1>2. CASE phase' = "done" /\ UNCHANGED <<upload, faults, puts, lost>>
    BY <1>1, <1>2 DEF UploadInv, PlanInv, CallInv, PutsInv, FlagsAreStored, Parts
  <1>3. CASE phase' = "prepared" /\ upload <= faults /\ NewSession /\ UNCHANGED faults
    <2>1. PlanInv'
      BY <1>1, <1>3 DEF UploadInv, PlanInv
    <2>2. CallInv'
      BY <1>1, <1>3, UploadConstants DEF UploadConstants, UploadInv, CallInv, NewSession, Parts
    <2>3. PutsInv'
      BY <1>1, <1>3 DEF PutsInv, NewSession
    <2>4. FlagsAreStored'
      BY <1>3 DEF FlagsAreStored
    <2> QED BY <2>1, <2>2, <2>3, <2>4 DEF UploadInv
  <1>4. CASE Fault /\ UNCHANGED <<phase, upload, puts, lost>>
    <2>1. faults \in Nat /\ faults' = faults + 1 /\ faults' \in 0..MaxFaults
      BY <1>4, UploadConstants DEF UploadConstants, UploadInv, CallInv, Fault
    <2>2. CallInv'
      BY <1>1, <1>4, <2>1 DEF UploadInv, CallInv, Parts
    <2> QED BY <1>1, <1>4, <2>2 DEF UploadInv, PlanInv, PutsInv, FlagsAreStored, Parts, IsComplete
  <1> QED BY <1>2, <1>3, <1>4 DEF PrepareMultipartUpload

\* A fault more changes nothing else that CallInv speaks of.
LEMMA CallInvKept ==
  ASSUME CallInv, UNCHANGED upload, Parts' = Parts, faults' = faults \/ Fault,
         stored' \in [Uploads -> SUBSET Parts],
         phase' \in {"prepared", "ready", "uploaded"} => phase \in {"prepared", "ready", "uploaded"}
  PROVE  CallInv'
  <1>1. MaxFaults \in Nat /\ faults \in 0..MaxFaults /\ upload \in 0..(faults + 1)
    BY UploadConstants DEF UploadConstants, CallInv
  <1>2. faults' \in 0..MaxFaults /\ upload' \in 0..(faults' + 1)
    <2>1. CASE faults' = faults
      BY <1>1, <2>1
    <2>2. CASE Fault
      <3>1. faults' = faults + 1 /\ faults < MaxFaults
        BY <2>2 DEF Fault
      <3>2. faults + 1 \in 0..MaxFaults /\ upload \in 0..(faults + 1 + 1)
        BY <1>1, <3>1
      <3> QED BY <3>1, <3>2
    <2> QED BY <2>1, <2>2
  <1> QED BY <1>2 DEF CallInv

LEMMA ResumeInv == UploadInv /\ ResumePlan => UploadInv'
  <1> SUFFICES ASSUME UploadInv, ResumePlan PROVE UploadInv'
    OBVIOUS
  <1>1. /\ phase \in {"prepared", "ready"} /\ phase' = "ready" /\ plan' = WithFlags(plan, stored[upload])
        /\ UNCHANGED <<size, limit, upload, stored, faults, puts, lost>>
    BY DEF ResumePlan
  <1>2. plan \in Seq(Part)
    BY PlanIsSeq DEF UploadInv
  <1>3. Reflagged(plan, plan') /\ Parts' = Parts /\ Uploaded(plan') = stored[upload] \cap Parts
    BY <1>1, <1>2, WithFlagsReflags DEF Parts
  <1>4. upload \in Uploads
    BY <1>1, UploadConstants DEF UploadConstants, UploadInv, CallInv, Uploads
  <1>5. Uploaded(plan') = stored[upload]
    BY <1>3, <1>4 DEF UploadInv, CallInv
  <1>6. PlanInv'
    BY <1>1, <1>3, ReflaggedPlanInv DEF UploadInv
  <1>7. CallInv'
    BY <1>1, <1>3, CallInvKept DEF UploadInv, CallInv
  <1>8. PutsInv'
    <2>1. phase = "ready" => Uploaded(plan) \subseteq Uploaded(plan')
      BY <1>5 DEF UploadInv, FlagsAreStored
    <2> QED BY <1>1, <2>1 DEF UploadInv, PutsInv
  <1>9. FlagsAreStored'
    BY <1>1, <1>5 DEF FlagsAreStored
  <1> QED BY <1>6, <1>7, <1>8, <1>9 DEF UploadInv

LEMMA MarkInv ==
  ASSUME UploadInv, NEW i \in 1..MaxParts, MarkUploaded(i)
  PROVE  UploadInv'
  <1>1. /\ phase = "ready" /\ i \in Parts /\ i \in stored[upload]
        /\ plan' = [plan EXCEPT ![i].uploaded = TRUE]
        /\ UNCHANGED <<size, limit, phase, upload, stored, faults, puts, lost>>
    BY DEF MarkUploaded
  <1>2. plan \in Seq(Part)
    BY PlanIsSeq DEF UploadInv
  <1>3. Reflagged(plan, plan') /\ Parts' = Parts /\ Uploaded(plan') = Uploaded(plan) \cup {i}
    BY <1>1, <1>2, FlagOne DEF Parts
  <1>4. PlanInv'
    BY <1>1, <1>3, ReflaggedPlanInv DEF UploadInv
  <1>5. CallInv'
    BY <1>1, <1>3, CallInvKept DEF UploadInv, CallInv
  <1>6. PutsInv'
    BY <1>1, <1>3 DEF UploadInv, PutsInv
  <1>7. FlagsAreStored'
    BY <1>1, <1>3 DEF UploadInv, FlagsAreStored
  <1> QED BY <1>4, <1>5, <1>6, <1>7 DEF UploadInv

LEMMA UploadMissingInv == UploadInv /\ UploadMissingParts => UploadInv'
  <1> SUFFICES ASSUME UploadInv, UploadMissingParts PROVE UploadInv'
    OBVIOUS
  <1>1. phase = "ready" /\ UNCHANGED <<size, limit, upload>>
    BY DEF UploadMissingParts
  <1>2. /\ plan \in Seq(Part) /\ Parts = 1..Len(plan) /\ Len(plan) \in Nat
        /\ Layout(plan, 0, size, PartSizeFor(size, limit))
    BY <1>1, PlanIsSeq DEF UploadInv, PlanInv
  <1>3. upload \in Uploads
    BY <1>1, UploadConstants DEF UploadConstants, UploadInv, CallInv, Uploads
  <1>4. stored \in [Uploads -> SUBSET Parts] /\ Uploaded(plan) \subseteq stored[upload]
    BY <1>1 DEF UploadInv, CallInv, FlagsAreStored
  <1>5. CASE Missing = {}
    <2>1. phase' = "uploaded" /\ UNCHANGED <<stored, puts, lost, plan, faults>>
      BY <1>5 DEF UploadMissingParts
    <2>2. Uploaded(plan) = Parts /\ stored[upload] = Parts
      BY <1>3, <1>4, <1>5 DEF Missing, Uploaded, Parts
    <2>3. IsComplete(plan)
      BY <1>2, <2>2, FlaggedIsComplete
    <2>4. PlanInv'
      BY <1>1, <2>1, ReflaggedPlanInv DEF UploadInv
    <2>5. Parts' = Parts
      BY <2>1 DEF Parts
    <2>6. CallInv'
      BY <1>1, <1>4, <2>1, <2>5, CallInvKept DEF UploadInv
    <2>7. PutsInv'
      BY <2>1 DEF UploadInv, PutsInv
    <2>8. IsComplete(plan)'
      BY <1>1, <2>1, <2>3 DEF IsComplete
    <2>9. FlagsAreStored'
      BY <1>1, <1>4, <2>1, <2>2, <2>5, <2>8 DEF FlagsAreStored
    <2> QED BY <2>4, <2>6, <2>7, <2>9 DEF UploadInv
  <1>6. CASE Missing # {}
    <2> DEFINE i == Min(Missing)
    <2>1. i \in Missing
      <3>1. Missing \in SUBSET Nat
        BY <1>2 DEF Missing
      <3>2. \E m \in Missing : \A x \in Missing : m <= x
        BY <1>6, <3>1, LeastNumber
      <3> QED BY <3>2 DEF Min
    <2>2. phase' = phase /\ (PutOk(i) \/ PutLost(i) \/ NotSigned(i))
      BY <1>6 DEF UploadMissingParts
    <2> HIDE DEF i
    <2>3. i \in Parts /\ i \notin Uploaded(plan)
      BY <2>1 DEF Missing
    <2>4. (stored' = stored \/ stored' = [stored EXCEPT ![upload] = @ \cup {i}])
            => stored' \in [Uploads -> SUBSET Parts] /\ stored[upload] \subseteq stored'[upload]
      BY <1>3, <1>4, <2>3
    <2>5. CASE PutOk(i)
      <3>1. /\ plan' = [plan EXCEPT ![i].uploaded = TRUE] /\ stored' = [stored EXCEPT ![upload] = @ \cup {i}]
            /\ puts' = [puts EXCEPT ![i] = @ + 1] /\ UNCHANGED <<lost, faults>>
        BY <2>5 DEF PutOk
      <3>2. Reflagged(plan, plan') /\ Parts' = Parts /\ Uploaded(plan') = Uploaded(plan) \cup {i}
        BY <1>2, <2>3, <3>1, FlagOne DEF Parts
      <3>3. PlanInv'
        BY <1>1, <2>2, <3>2, ReflaggedPlanInv DEF UploadInv
      <3>4. CallInv'
        BY <1>1, <2>2, <2>4, <3>1, <3>2, CallInvKept DEF UploadInv
      <3>5. PutsInv'
        <4>1. ASSUME NEW j \in 1..MaxParts
              PROVE  /\ puts'[j] \in Nat /\ puts'[j] <= 1 + lost[j]
                     /\ j \notin Uploaded(plan') => puts'[j] <= lost[j]
          <5>1. puts[j] \in Nat /\ lost[j] \in Nat /\ puts[j] <= 1 + lost[j]
            BY DEF UploadInv, PutsInv
          <5>2. j \notin Uploaded(plan) => puts[j] <= lost[j]
            BY <1>1 DEF UploadInv, PutsInv
          <5>3. puts'[j] = IF j = i THEN puts[j] + 1 ELSE puts[j]
            BY <3>1 DEF UploadInv, PutsInv
          <5> QED BY <2>3, <3>2, <5>1, <5>2, <5>3
        <4>2. puts' \in [1..MaxParts -> Nat]
          <5>1. puts' = [j \in 1..MaxParts |-> puts'[j]]
            BY <3>1 DEF UploadInv, PutsInv
          <5> QED BY <4>1, <5>1
        <4> QED BY <1>1, <2>2, <3>1, <4>1, <4>2 DEF UploadInv, PutsInv
      <3>6. FlagsAreStored'
        <4>1. i \in stored'[upload]
          BY <1>3, <1>4, <3>1
        <4> QED BY <1>1, <1>4, <2>2, <2>4, <3>1, <3>2, <4>1 DEF FlagsAreStored
      <3> QED BY <3>3, <3>4, <3>5, <3>6 DEF UploadInv
    <2>6. CASE PutLost(i) \/ NotSigned(i)
      <3>1. /\ Fault /\ UNCHANGED plan /\ (stored' = stored \/ stored' = [stored EXCEPT ![upload] = @ \cup {i}])
            /\ \/ puts' = [puts EXCEPT ![i] = @ + 1] /\ lost' = [lost EXCEPT ![i] = @ + 1]
               \/ UNCHANGED <<puts, lost>>
        BY <2>6 DEF PutLost, NotSigned
      <3>2. PlanInv'
        BY <1>1, <2>2, <3>1, ReflaggedPlanInv DEF UploadInv
      <3>3. Parts' = Parts
        BY <3>1 DEF Parts
      <3>4. CallInv'
        BY <1>1, <2>2, <2>4, <3>1, <3>3, CallInvKept DEF UploadInv
      <3>5. PutsInv'
        <4>1. ASSUME NEW j \in 1..MaxParts
              PROVE  /\ puts'[j] \in Nat /\ lost'[j] \in Nat /\ puts'[j] <= 1 + lost'[j]
                     /\ j \notin Uploaded(plan) => puts'[j] <= lost'[j]
          <5>1. puts[j] \in Nat /\ lost[j] \in Nat /\ puts[j] <= 1 + lost[j]
            BY DEF UploadInv, PutsInv
          <5>2. j \notin Uploaded(plan) => puts[j] <= lost[j]
            BY <1>1 DEF UploadInv, PutsInv
          <5>3. \/ puts'[j] = puts[j] /\ lost'[j] = lost[j]
                \/ puts'[j] = puts[j] + 1 /\ lost'[j] = lost[j] + 1
            BY <3>1 DEF UploadInv, PutsInv
          <5> QED BY <5>1, <5>2, <5>3
        <4>2. puts' \in [1..MaxParts -> Nat] /\ lost' \in [1..MaxParts -> Nat]
          <5>1. puts' = [j \in 1..MaxParts |-> puts'[j]] /\ lost' = [j \in 1..MaxParts |-> lost'[j]]
            BY <3>1 DEF UploadInv, PutsInv
          <5> QED BY <4>1, <5>1
        <4> QED BY <1>1, <2>2, <3>1, <4>1, <4>2 DEF PutsInv
      <3>6. FlagsAreStored'
        BY <1>1, <1>4, <2>2, <2>4, <3>1 DEF FlagsAreStored
      <3> QED BY <3>2, <3>4, <3>5, <3>6 DEF UploadInv
    <2> QED BY <2>2, <2>5, <2>6
  <1> QED BY <1>5, <1>6

LEMMA CompleteInv == UploadInv /\ CompleteMultipartUpload => UploadInv'
  <1> SUFFICES ASSUME UploadInv, CompleteMultipartUpload PROVE UploadInv'
    OBVIOUS
  <1>1. /\ phase = "uploaded" /\ UNCHANGED <<size, limit, plan, upload, stored, puts, lost>>
        /\ faults' = faults \/ Fault
        /\ \/ phase' \in {"done", "refused"} /\ UNCHANGED faults
           \/ phase' = phase
    BY DEF CompleteMultipartUpload
  <1>2. stored[upload] = Parts /\ IsComplete(plan)
    BY <1>1 DEF UploadInv, FlagsAreStored
  <1>3. phase' # "refused"
    BY <1>1, <1>2 DEF CompleteMultipartUpload
  <1>4. Parts' = Parts /\ IsComplete(plan)' /\ Uploaded(plan') = Uploaded(plan)
    BY <1>1, <1>2 DEF Parts, IsComplete
  <1>5. PlanInv'
    BY <1>1, <1>3, ReflaggedPlanInv DEF UploadInv
  <1>6. CallInv'
    BY <1>1, <1>3, <1>4, CallInvKept DEF UploadInv, CallInv
  <1>7. PutsInv'
    BY <1>1, <1>3, <1>4 DEF UploadInv, PutsInv
  <1>8. FlagsAreStored'
    BY <1>1, <1>2, <1>3, <1>4 DEF UploadInv, FlagsAreStored
  <1> QED BY <1>5, <1>6, <1>7, <1>8 DEF UploadInv

LEMMA RestartInv == UploadInv /\ Restart => UploadInv'
  <1> SUFFICES ASSUME UploadInv, Restart PROVE UploadInv'
    OBVIOUS
  <1>1. PICK flags \in SUBSET Uploaded(plan) : plan' = WithFlags(plan, flags)
    BY DEF Restart
  <1>2. /\ phase \in {"prepared", "ready", "uploaded"} /\ phase' = "planned" /\ Fault
        /\ UNCHANGED <<size, limit, upload, stored, puts, lost>>
    BY DEF Restart
  <1>3. plan \in Seq(Part)
    BY PlanIsSeq DEF UploadInv
  <1>4. Reflagged(plan, plan') /\ Parts' = Parts
    BY <1>1, <1>3, WithFlagsReflags DEF Parts
  <1>5. PlanInv'
    BY <1>2, <1>4, ReflaggedPlanInv DEF UploadInv
  <1>6. CallInv'
    BY <1>2, <1>4, CallInvKept DEF UploadInv, CallInv
  <1>7. PutsInv' /\ FlagsAreStored'
    BY <1>2 DEF UploadInv, PutsInv, FlagsAreStored
  <1> QED BY <1>5, <1>6, <1>7 DEF UploadInv

\* A step after which only a call more has failed, or less is signed.
LEMMA UploadInvKept ==
  ASSUME UploadInv, UNCHANGED <<size, limit, phase, plan, upload, stored, puts, lost>>,
         faults' = faults \/ Fault
  PROVE  UploadInv'
  <1>1. Parts' = Parts /\ IsComplete(plan)' = IsComplete(plan)
    BY DEF Parts, IsComplete
  <1>2. CallInv'
    BY <1>1, CallInvKept DEF UploadInv, CallInv
  <1> QED BY <1>1, <1>2 DEF UploadInv, PlanInv, PutsInv, FlagsAreStored

LEMMA NextUploadInv == UploadInv /\ [Next]_vars => UploadInv'
  <1> SUFFICES ASSUME UploadInv, [Next]_vars PROVE UploadInv'
    OBVIOUS
  <1>1. CASE SignatureExpires \/ UNCHANGED vars
    BY <1>1, UploadInvKept DEF SignatureExpires, vars
  <1> QED BY <1>1, MakePlanInv, PrepareInv, ResumeInv, MarkInv, UploadMissingInv, CompleteInv, RestartInv
          DEF Next

\* UploadInv holds in every reachable state.
THEOREM UploadInvariance == Spec => []UploadInv
  BY InitUploadInv, NextUploadInv, PTL DEF Spec

\* plan_multipart cuts any file into parts without gap or overlap, and part_size_for keeps
\* their number and sizes within any limits that make sense.
THEOREM PlansFit == Spec => []PlanFitsTheFile
  <1>1. UploadInv => PlanFitsTheFile
    <2> SUFFICES ASSUME UploadInv, plan # <<>>
                 PROVE  /\ plan[1].offset = 0 /\ End(plan[Len(plan)]) = size
                        /\ \A i \in Parts \ {Len(plan)} : plan[i + 1].offset = End(plan[i])
                        /\ \A i \in Parts : plan[i].size > 0
                        /\ limit.min <= limit.max =>
                              /\ Len(plan) <= limit.num
                              /\ \A i \in Parts : plan[i].size <= limit.max
                              /\ \A i \in Parts \ {Len(plan)} : plan[i].size >= limit.min
      BY DEF PlanFitsTheFile
    <2> DEFINE n == PartSizeFor(size, limit)
    <2>1. /\ n # Error /\ Layout(plan, 0, size, n) /\ size \in Nat
          /\ limit \in [min : Nat, max : Nat, num : Nat]
      BY DEF UploadInv, PlanInv
    <2>2. n \in Nat /\ size <= n * limit.num /\ (limit.min <= limit.max => n \in limit.min..limit.max)
      BY <2>1, PartSizeBounds
    <2> HIDE DEF n
    <2>3. Len(plan) <= limit.num
      BY <2>1, <2>2, LayoutOffsets
    <2>4. Parts = 1..Len(plan) /\ Len(plan) \in Nat /\ \A i \in Parts : plan[i] \in Part
      BY <2>1 DEF Layout, Parts
    <2>5. \A i \in Parts \ {Len(plan)} : i \in 1..(Len(plan) - 1)
      BY <2>4
    <2>6. \A i \in Parts : plan[i].size \in Nat /\ plan[i].size > 0
      BY <2>4 DEF Part
    <2>7. /\ \A i \in Parts \ {Len(plan)} : plan[i + 1].offset = End(plan[i]) /\ plan[i].size = n
          /\ plan[Len(plan)].size <= n /\ plan[1].offset = 0 /\ End(plan[Len(plan)]) = size
      BY <2>1, <2>5 DEF Layout
    <2>8. \A i \in Parts : plan[i].size <= n
      BY <2>2, <2>6, <2>7
    <2>9. ASSUME limit.min <= limit.max
          PROVE  /\ \A i \in Parts : plan[i].size <= limit.max
                 /\ \A i \in Parts \ {Len(plan)} : plan[i].size >= limit.min
      <3>1. n \in Nat /\ n <= limit.max /\ n >= limit.min /\ limit.max \in Nat
        BY <2>1, <2>2, <2>9
      <3> QED BY <2>6, <2>7, <2>8, <3>1
    <2> QED BY <2>3, <2>6, <2>7, <2>9
  <1> QED BY <1>1, UploadInvariance, PTL

\* Whatever was lost, repeated or restarted, a flag of a running upload is the truth about
\* the server, so completing it is never refused.
THEOREM FlagsTrue == Spec => []FlagsAreStored
  <1>1. UploadInv => FlagsAreStored
    BY DEF UploadInv
  <1> QED BY <1>1, UploadInvariance, PTL

\* No part is put twice to an upload unless an answer was lost.
THEOREM PutsOnce == Spec => []NoRedundantPuts
  <1>1. UploadInv => NoRedundantPuts
    BY DEF UploadInv, PutsInv, NoRedundantPuts
  <1> QED BY <1>1, UploadInvariance, PTL

=============================================================================
