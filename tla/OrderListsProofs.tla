--------------------------- MODULE OrderListsProofs ---------------------------
(***************************************************************************)
(* Theorems about OrderLists for all lists of orders, of any length, and   *)
(* every size of a page.  The loops of PayController are functions that    *)
(* are defined by recursion on the position in the list; what they compute *)
(* is proved by induction on it, that is, from the least position at which *)
(* it would be wrong.                                                      *)
(***************************************************************************)
EXTENDS OrderLists, WellFoundedInduction, SequenceTheorems, FiniteSetTheorems, TLAPS

-------------------------------------------------------------------------------
(* Induction on positions.                                                   *)

(* Every set of positions has a first one.                                   *)
LEMMA LeastPosition ==
    ASSUME NEW T, T \subseteq Nat, T # {}
    PROVE  \E n \in T : \A m \in T : n <= m
<1>1. OpToRel(<, Nat) = {ss \in Nat \X Nat : ss[1] < ss[2]}
  BY Zenon DEF OpToRel
<1>2. \E n \in T : \A m \in T : ~ (<<m, n>> \in OpToRel(<, Nat))
  BY NatLessThanWellFounded, WFMin, Zenon
<1>3. PICK n \in T : \A m \in T : ~ (<<m, n>> \in OpToRel(<, Nat))
  BY <1>2
<1>4. \A m \in T : ~ (m < n)
  BY <1>1, <1>3
<1> QED
  BY <1>4

-------------------------------------------------------------------------------
(* The loops.                                                                *)

\* What the loop has added after each of the first n rows.
After(s, kept, n, h) ==
    h = [i \in 0 .. n |-> IF i = 0 THEN <<>>
                          ELSE IF i \in kept THEN Append(h[i - 1], s[i]) ELSE h[i - 1]]

LEMMA LoopRuns ==
    ASSUME NEW s, NEW kept, NEW n \in Nat
    PROVE  \E h : After(s, kept, n, h)
<1> DEFINE T == {m \in Nat : ~ \E h : After(s, kept, m, h)}
<1> SUFFICES ASSUME T # {} PROVE FALSE
  OBVIOUS
<1>1. PICK m \in T : \A k \in T : m <= k
  BY LeastPosition
<1>2. CASE m = 0
  <2> DEFINE h == [i \in 0 .. 0 |-> <<>>]
  <2>1. After(s, kept, 0, h)
    BY DEF After
  <2> QED
    BY <1>1, <1>2, <2>1
<1>3. CASE m # 0
  <2>1. m - 1 \in Nat /\ ~ (m <= m - 1)
    BY <1>1, <1>3
  <2>2. m - 1 \notin T
    BY <1>1, <2>1
  <2>3. PICK h : After(s, kept, m - 1, h)
    BY <2>1, <2>2
  <2> DEFINE last == IF m \in kept THEN Append(h[m - 1], s[m]) ELSE h[m - 1]
             g == [i \in 0 .. m |-> IF i = m THEN last ELSE h[i]]
  <2>4. ASSUME NEW i \in 0 .. m
        PROVE  g[i] = IF i = 0 THEN <<>>
                      ELSE IF i \in kept THEN Append(g[i - 1], s[i]) ELSE g[i - 1]
    <3>1. CASE i = m
      <4>1. g[m - 1] = h[m - 1] /\ g[m] = last
        BY <1>1, <2>1
      <4> QED
        BY <1>3, <3>1, <4>1
    <3>2. CASE i # m
      <4>1. i \in 0 .. (m - 1) /\ g[i] = h[i]
        BY <1>1, <3>2
      <4>2. i # 0 => i - 1 \in 0 .. m /\ i - 1 # m
        BY <1>1, <4>1
      <4>3. i # 0 => g[i - 1] = h[i - 1]
        BY <4>2
      <4>4. h[i] = IF i = 0 THEN <<>>
                   ELSE IF i \in kept THEN Append(h[i - 1], s[i]) ELSE h[i - 1]
        BY <2>3, <4>1 DEF After
      <4> HIDE DEF g
      <4> QED
        BY <4>1, <4>3, <4>4
    <3> QED
      BY <3>1, <3>2
  <2>5. After(s, kept, m, g)
    <3>1. g = [i \in 0 .. m |-> g[i]]
      OBVIOUS
    <3> HIDE DEF g
    <3> QED
      BY <2>4, <3>1 DEF After
  <2> HIDE DEF g
  <2> QED
    BY <1>1, <2>5
<1> QED
  BY <1>2, <1>3

(* RowsAt is what the loop has added after the last row.                     *)
LEMMA RowsAtLoop ==
    ASSUME NEW s, NEW kept, Len(s) \in Nat
    PROVE  \E h : After(s, kept, Len(s), h) /\ RowsAt(s, kept) = h[Len(s)]
<1> DEFINE rows == CHOOSE h : After(s, kept, Len(s), h)
<1>1. After(s, kept, Len(s), rows)
  BY LoopRuns
<1>2. RowsAt(s, kept) = rows[Len(s)]
  BY DEF RowsAt, After
<1> HIDE DEF rows
<1> QED
  BY <1>1, <1>2

\* The rows r are those of s at the positions kept up to i, in their order:
\* the k-th of them is the one at pos[k].
Picks(r, s, kept, i, pos) ==
    /\ pos \in [1 .. Len(r) -> 1 .. i]
    /\ \A k \in 1 .. Len(r) : pos[k] \in kept /\ r[k] = s[pos[k]]
    /\ \A k, l \in 1 .. Len(r) : k < l => pos[k] < pos[l]
    /\ \A j \in kept : j <= i => \E k \in 1 .. Len(r) : pos[k] = j

(* One more row.                                                             *)
LEMMA PicksNext ==
    ASSUME NEW V, NEW s \in Seq(V), NEW kept, kept \subseteq 1 .. Len(s),
           NEW i \in 1 .. Len(s), NEW r \in Seq(V), Len(r) <= i - 1,
           NEW pos, Picks(r, s, kept, i - 1, pos)
    PROVE  LET q == IF i \in kept THEN Append(r, s[i]) ELSE r
           IN  q \in Seq(V) /\ Len(q) <= i /\ \E p : Picks(q, s, kept, i, p)
<1>0. Len(s) \in Nat /\ s[i] \in V /\ Len(r) \in Nat /\ i \in Nat /\ i # 0
  BY ElementOfSeq, LenProperties
<1>1. CASE i \notin kept
  <2>1. \A j \in kept : j <= i => j <= i - 1
    BY <1>0, <1>1
  <2>2. Picks(r, s, kept, i, pos)
    BY <1>0, <2>1 DEF Picks
  <2> QED
    BY <1>0, <1>1, <2>2
<1>2. CASE i \in kept
  <2> DEFINE q == Append(r, s[i])
             n == Len(r) + 1
             p == [k \in 1 .. n |-> IF k = n THEN i ELSE pos[k]]
  <2>1. /\ q \in Seq(V) /\ Len(q) = n /\ q[n] = s[i]
        /\ \A k \in 1 .. Len(r) : q[k] = r[k]
    BY <1>0, AppendProperties
  <2>2. \A k \in 1 .. n : k = n \/ k \in 1 .. Len(r)
    BY <1>0
  <2>3. p[n] = i /\ \A k \in 1 .. Len(r) : p[k] = pos[k] /\ pos[k] \in 1 .. (i - 1)
    BY <1>0 DEF Picks
  <2>4. p \in [1 .. n -> 1 .. i]
    <3>1. \A k \in 1 .. n : p[k] \in 1 .. i
      <4>1. i \in 1 .. i /\ 1 .. (i - 1) \subseteq 1 .. i
        BY <1>0
      <4> HIDE DEF p, n
      <4> QED
        BY <2>2, <2>3, <4>1
    <3> QED
      BY <3>1
  <2> HIDE DEF q, p
  <2>5. \A k \in 1 .. n : p[k] \in kept /\ q[k] = s[p[k]]
    BY <1>2, <2>1, <2>2, <2>3 DEF Picks
  <2>6. \A k, l \in 1 .. n : k < l => p[k] < p[l]
    <3> SUFFICES ASSUME NEW k \in 1 .. n, NEW l \in 1 .. n, k < l
                 PROVE  p[k] < p[l]
      OBVIOUS
    <3>1. k \in 1 .. Len(r)
      BY <1>0
    <3>2. CASE l = n
      BY <1>0, <2>3, <3>1, <3>2
    <3>3. CASE l # n
      BY <1>0, <2>2, <2>3, <3>1, <3>3 DEF Picks
    <3> QED
      BY <3>2, <3>3
  <2>7. \A j \in kept : j <= i => \E k \in 1 .. n : p[k] = j
    <3> SUFFICES ASSUME NEW j \in kept, j <= i PROVE \E k \in 1 .. n : p[k] = j
      OBVIOUS
    <3>1. CASE j = i
      BY <1>0, <2>3, <3>1
    <3>2. CASE j # i
      <4>1. j <= i - 1
        BY <1>0, <3>2
      <4>2. PICK k \in 1 .. Len(r) : pos[k] = j
        BY <4>1 DEF Picks
      <4>3. k \in 1 .. n /\ p[k] = j
        BY <1>0, <2>3, <4>2
      <4> QED
        BY <4>3
    <3> QED
      BY <3>1, <3>2
  <2>8. Picks(q, s, kept, i, p)
    BY <2>1, <2>4, <2>5, <2>6, <2>7 DEF Picks
  <2>9. Len(q) <= i
    BY <1>0, <2>1
  <2> QED
    BY <1>2, <2>1, <2>8, <2>9 DEF q
<1> QED
  BY <1>1, <1>2

(* What RowsAt computes, of every list.                                      *)
LEMMA RowsAtPicks ==
    ASSUME NEW V, NEW s \in Seq(V), NEW kept, kept \subseteq 1 .. Len(s)
    PROVE  /\ RowsAt(s, kept) \in Seq(V) /\ Len(RowsAt(s, kept)) <= Len(s)
           /\ \E pos : Picks(RowsAt(s, kept), s, kept, Len(s), pos)
<1>0. Len(s) \in Nat
  BY LenProperties
<1>1. PICK h : After(s, kept, Len(s), h) /\ RowsAt(s, kept) = h[Len(s)]
  BY <1>0, RowsAtLoop
<1> DEFINE Holds(i) == h[i] \in Seq(V) /\ Len(h[i]) <= i /\ \E pos : Picks(h[i], s, kept, i, pos)
           T == {i \in 0 .. Len(s) : ~ Holds(i)}
<1>2. /\ h[0] = <<>>
      /\ \A i \in 1 .. Len(s) : h[i] = IF i \in kept THEN Append(h[i - 1], s[i]) ELSE h[i - 1]
  <2> DEFINE step(i) == IF i = 0 THEN <<>>
                        ELSE IF i \in kept THEN Append(h[i - 1], s[i]) ELSE h[i - 1]
  <2>1. h = [i \in 0 .. Len(s) |-> step(i)]
    BY <1>1 DEF After
  <2> HIDE DEF step
  <2>2. \A i \in 0 .. Len(s) : h[i] = step(i)
    BY <2>1
  <2>3. 0 \in 0 .. Len(s) /\ \A i \in 1 .. Len(s) : i \in 0 .. Len(s) /\ i # 0
    BY <1>0
  <2> QED
    BY <2>2, <2>3 DEF step
<1>3. Holds(0)
  <2>1. <<>> \in Seq(V) /\ Len(<<>>) = 0
    BY EmptySeq
  <2>2. Picks(<<>>, s, kept, 0, [k \in 1 .. 0 |-> 0])
    BY <1>0, <2>1 DEF Picks
  <2> QED
    BY <1>2, <2>1, <2>2
<1>4. ASSUME NEW i \in 1 .. Len(s), Holds(i - 1)
      PROVE  Holds(i)
  <2>1. PICK pos : Picks(h[i - 1], s, kept, i - 1, pos)
    BY <1>4
  <2>2. h[i - 1] \in Seq(V) /\ Len(h[i - 1]) <= i - 1
    BY <1>4
  <2>3. h[i] = IF i \in kept THEN Append(h[i - 1], s[i]) ELSE h[i - 1]
    BY <1>2
  <2> DEFINE q == IF i \in kept THEN Append(h[i - 1], s[i]) ELSE h[i - 1]
  <2>4. q \in Seq(V) /\ Len(q) <= i /\ \E p : Picks(q, s, kept, i, p)
    BY <2>1, <2>2, PicksNext
  <2>5. h[i] = q
    BY <2>3
  <2> HIDE DEF q
  <2> QED
    BY <2>4, <2>5
<1> HIDE DEF Holds
<1>5. T = {}
  <2> SUFFICES ASSUME T # {} PROVE FALSE
    OBVIOUS
  <2>0. T \subseteq Nat
    BY <1>0
  <2>1. PICK i \in T : \A j \in T : i <= j
    <3> HIDE DEF T
    <3> QED
      BY <2>0, LeastPosition
  <2>2. i # 0
    BY <1>3, <2>1
  <2>3. i \in 1 .. Len(s) /\ i - 1 \in 0 .. Len(s) /\ ~ (i <= i - 1)
    BY <1>0, <2>1, <2>2
  <2>4. Holds(i - 1)
    BY <2>1, <2>3
  <2> QED
    BY <1>4, <2>1, <2>3, <2>4
<1>6. Holds(Len(s))
  BY <1>0, <1>5
<1> QED
  BY <1>1, <1>6 DEF Holds

(* The rows of a list that are kept are in the result, and no others.        *)
LEMMA RowsAtRows ==
    ASSUME NEW V, NEW s \in Seq(V), NEW kept, kept \subseteq 1 .. Len(s),
           NEW W, \A i \in kept : s[i] \in W
    PROVE  /\ RowsAt(s, kept) \in Seq(W)
           /\ RowsAt(s, kept) = <<>> => kept = {}
           /\ IsInjective(s) => IsInjective(RowsAt(s, kept))
<1> DEFINE r == RowsAt(s, kept)
<1>1. r \in Seq(V) /\ \E pos : Picks(r, s, kept, Len(s), pos)
  BY RowsAtPicks
<1> HIDE DEF r
<1>2. PICK pos : Picks(r, s, kept, Len(s), pos)
  BY <1>1
<1>3. Len(r) \in Nat /\ DOMAIN r = 1 .. Len(r) /\ r \in [1 .. Len(r) -> V]
  BY <1>1, LenProperties
<1>4. \A k \in 1 .. Len(r) : r[k] \in W
  BY <1>2 DEF Picks
<1>5. r \in [1 .. Len(r) -> W]
  BY <1>3, <1>4
<1>6. r \in Seq(W)
  BY <1>3, <1>5, SeqDef
<1>7. r = <<>> => kept = {}
  <2>1. \A j \in kept : j <= Len(s)
    BY LenProperties
  <2>2. \A j \in kept : \E k \in 1 .. Len(r) : pos[k] = j
    BY <1>2, <2>1 DEF Picks
  <2>3. r = <<>> => Len(r) = 0
    BY <1>3
  <2> QED
    BY <2>2, <2>3
<1>8. IsInjective(s) => IsInjective(r)
  <2> SUFFICES ASSUME IsInjective(s), NEW k \in 1 .. Len(r), NEW l \in 1 .. Len(r), r[k] = r[l]
               PROVE  k = l
    BY <1>3 DEF IsInjective
  <2>1. /\ pos[k] \in DOMAIN s /\ pos[l] \in DOMAIN s
        /\ r[k] = s[pos[k]] /\ r[l] = s[pos[l]]
    BY <1>2, LenProperties DEF Picks
  <2>2. pos[k] = pos[l]
    BY <2>1 DEF IsInjective
  <2>3. pos[k] \in Nat
    BY <1>2 DEF Picks
  <2>4. ~ (k < l) /\ ~ (l < k)
    BY <1>2, <2>2, <2>3 DEF Picks
  <2> QED
    BY <1>3, <2>4
<1> QED
  BY <1>6, <1>7, <1>8 DEF r

(* Of every number there is one row that is the first of it.                 *)
LEMMA FirstRows ==
    ASSUME NEW V, NEW s \in Seq(V)
    PROVE  /\ First(s) \subseteq 1 .. Len(s)
           /\ \A i \in 1 .. Len(s) : \E j \in First(s) : s[j].id = s[i].id
           /\ \A i, j \in First(s) : s[i].id = s[j].id => i = j
<1>0. Len(s) \in Nat /\ DOMAIN s = 1 .. Len(s)
  BY LenProperties
<1>1. First(s) \subseteq 1 .. Len(s)
  BY <1>0 DEF First
<1>2. ASSUME NEW i \in 1 .. Len(s)
      PROVE  \E j \in First(s) : s[j].id = s[i].id
  <2> DEFINE T == {j \in 1 .. Len(s) : s[j].id = s[i].id}
  <2>1. T \subseteq Nat /\ i \in T
    BY <1>0
  <2>2. PICK j \in T : \A k \in T : j <= k
    <3> HIDE DEF T
    <3> QED
      BY <2>1, LeastPosition
  <2>3. ASSUME NEW k \in 1 .. (j - 1), s[k].id = s[j].id
        PROVE  FALSE
    <3>1. k \in T
      BY <1>0, <2>2, <2>3
    <3> QED
      BY <1>0, <2>2, <2>3, <3>1
  <2>4. j \in First(s)
    BY <1>0, <2>2, <2>3 DEF First
  <2> QED
    BY <2>2, <2>4
<1>3. ASSUME NEW i \in First(s), NEW j \in First(s), s[i].id = s[j].id
      PROVE  i = j
  <2>1. i \in Nat /\ j \in Nat /\ i >= 1 /\ j >= 1
    BY <1>0, <1>1
  <2>2. ~ (i < j)
    BY <1>3, <2>1 DEF First
  <2>3. ~ (j < i)
    BY <1>3, <2>1 DEF First
  <2> QED
    BY <2>1, <2>2, <2>3
<1> QED
  BY <1>1, <1>2, <1>3

-------------------------------------------------------------------------------
(* Types.                                                                    *)

(* The first page of a list.                                                 *)
LEMMA FirstPageRows ==
    ASSUME NEW V, NEW s \in Seq(V)
    PROVE  LET p == FirstPage(s)
           IN  /\ p \in Seq(V) /\ Len(p) <= PageSize
               /\ Len(p) = IF Len(s) < PageSize THEN Len(s) ELSE PageSize
               /\ \A i \in 1 .. Len(p) : i \in 1 .. Len(s) /\ p[i] = s[i]
<1> DEFINE n == IF Len(s) < PageSize THEN Len(s) ELSE PageSize
<1>1. Len(s) \in Nat /\ PageSize \in Nat /\ n \in Nat /\ n <= Len(s) /\ n <= PageSize
  BY LenProperties, BoundsAssumption
<1>2. \A i \in 1 .. n : i \in 1 .. Len(s) /\ s[i] \in V
  BY <1>1, ElementOfSeq
<1>3. FirstPage(s) = SubSeq(s, 1, n)
  BY DEF FirstPage
<1> HIDE DEF n
<1>4. /\ SubSeq(s, 1, n) \in Seq(V)
      /\ Len(SubSeq(s, 1, n)) = IF 1 <= n THEN n - 1 + 1 ELSE 0
      /\ \A i \in 1 .. n - 1 + 1 : SubSeq(s, 1, n)[i] = s[1 + i - 1]
  BY <1>1, <1>2, SubSeqProperties
<1>5. Len(SubSeq(s, 1, n)) = n /\ \A i \in 1 .. n : SubSeq(s, 1, n)[i] = s[i]
  BY <1>1, <1>4
<1> QED
  BY <1>1, <1>2, <1>3, <1>4, <1>5 DEF n

\* The positions of the page that the list shows.
ShownAt == {i \in DOMAIN FirstPage(waiting) : Shown(FirstPage(waiting)[i])}

LEMMA WaitingList ==
    ASSUME TypeOK
    PROVE  /\ ShownAt \subseteq 1 .. Len(FirstPage(waiting))
           /\ waitingAuditOrder \in Seq({o \in Orders : Shown(o)})
           /\ Len(waitingAuditOrder) <= PageSize
           /\ waitingAuditOrder = <<>> => ShownAt = {}
<1> DEFINE p == FirstPage(waiting)
           W == {o \in Orders : Shown(o)}
<1>1. p \in Seq(Orders) /\ Len(p) <= PageSize
  BY FirstPageRows DEF TypeOK
<1>2. waitingAuditOrder = RowsAt(p, ShownAt)
  BY DEF waitingAuditOrder, ShownAt
<1>3. DOMAIN p = 1 .. Len(p) /\ Len(p) \in Nat
  BY <1>1, LenProperties
<1>4. ShownAt \subseteq 1 .. Len(p)
  BY <1>3 DEF ShownAt
<1>5. \A i \in ShownAt : p[i] \in W
  BY <1>1, <1>4, ElementOfSeq DEF ShownAt
<1> HIDE DEF p, W
<1>6. RowsAt(p, ShownAt) \in Seq(Orders) /\ Len(RowsAt(p, ShownAt)) <= Len(p)
  BY <1>1, <1>4, RowsAtPicks
<1>7. /\ RowsAt(p, ShownAt) \in Seq(W)
      /\ RowsAt(p, ShownAt) = <<>> => ShownAt = {}
  BY <1>1, <1>4, <1>5, RowsAtRows
<1>8. Len(RowsAt(p, ShownAt)) <= PageSize
  BY <1>1, <1>3, <1>6, BoundsAssumption, LenProperties
<1> QED
  BY <1>2, <1>4, <1>7, <1>8 DEF p, W

LEMMA ResolvedList ==
    ASSUME TypeOK
    PROVE  payOrderQuery \in Seq(Orders)
BY FirstRows, RowsAtPicks DEF TypeOK, payOrderQuery

LEMMA TypeStep ==
    ASSUME TypeOK, [Next]_vars
    PROVE  TypeOK'
<1>0. DOMAIN waiting = 1 .. Len(waiting) /\ Len(waiting) \in Nat
  BY LenProperties DEF TypeOK
<1>1. CASE UNCHANGED vars
  BY <1>1 DEF vars, TypeOK
<1>2. ASSUME NEW o \in Orders, Arrives(o)
      PROVE  TypeOK'
  <2> DEFINE w == Append(waiting, o)
  <2>1. /\ w \in Seq(Orders) /\ DOMAIN w = 1 .. (Len(waiting) + 1)
        /\ w[Len(waiting) + 1] = o
        /\ \A i \in 1 .. Len(waiting) : w[i] = waiting[i]
    BY <1>0, AppendProperties, LenProperties DEF TypeOK
  <2>2. \A i \in 1 .. Len(waiting) : waiting[i] # o
    BY <1>0, <1>2 DEF Arrives, Range
  <2> HIDE DEF w
  <2>3. IsInjective(w)
    <3> SUFFICES ASSUME NEW i \in 1 .. (Len(waiting) + 1), NEW j \in 1 .. (Len(waiting) + 1),
                        w[i] = w[j]
                 PROVE  i = j
      BY <2>1 DEF IsInjective
    <3>1. \A k \in 1 .. (Len(waiting) + 1) : k = Len(waiting) + 1 \/ k \in 1 .. Len(waiting)
      BY <1>0
    <3>2. \A k, l \in 1 .. Len(waiting) : waiting[k] = waiting[l] => k = l
      BY <1>0 DEF TypeOK, IsInjective
    <3> QED
      BY <2>1, <2>2, <3>1, <3>2
  <2>4. waiting' = w /\ UNCHANGED <<audits, items, dealOrderList, stage>>
    BY <1>2 DEF Arrives, w, pageVars
  <2> QED
    BY <2>1, <2>3, <2>4 DEF TypeOK
<1>3. ASSUME NEW o \in Orders, NEW byAuditor \in BOOLEAN, Decided(o, byAuditor)
      PROVE  TypeOK'
  <2> DEFINE kept == {i \in DOMAIN waiting : waiting[i] # o}
  <2>1. kept \subseteq 1 .. Len(waiting)
    BY <1>0
  <2>2. waiting' = RowsAt(waiting, kept) /\ UNCHANGED <<items, dealOrderList, stage>>
    BY <1>3 DEF Decided, pageVars
  <2> HIDE DEF kept
  <2>3. RowsAt(waiting, kept) \in Seq(Orders) /\ IsInjective(RowsAt(waiting, kept))
    <3>1. \A i \in kept : waiting[i] \in Orders
      BY <2>1, ElementOfSeq DEF TypeOK
    <3> QED
      BY <2>1, <3>1, RowsAtRows DEF TypeOK
  <2>4. audits' \in Seq(Orders)
    <3>1. <<o>> \in Seq(Orders) /\ audits \in Seq(Orders)
      BY DEF TypeOK
    <3>2. <<o>> \o audits \in Seq(Orders)
      BY <3>1, ConcatProperties
    <3> QED
      BY <1>3, <3>1, <3>2 DEF Decided
  <2> QED
    BY <2>2, <2>3, <2>4 DEF TypeOK
<1>4. CASE list
  BY <1>4, WaitingList DEF list, TypeOK
<1>5. CASE resolved
  BY <1>5, ResolvedList DEF resolved, TypeOK
<1>6. CASE Load
  <2>1. <<>> \in Seq(Orders) /\ <<>> \in Seq({o \in Orders : Shown(o)}) /\ Len(<<>>) = 0
    BY EmptySeq
  <2> QED
    BY <1>6, <2>1, BoundsAssumption DEF Load, TypeOK
<1> QED
  BY <1>1, <1>2, <1>3, <1>4, <1>5, <1>6 DEF Next

(* Waiting documents are not repeated, and the list of the page holds at     *)
(* most a page of payments and purchases, whatever comes and is decided.     *)
THEOREM ListTypes == Spec => []TypeOK
<1>1. Init => TypeOK
  <2>1. <<>> \in Seq(Orders) /\ <<>> \in Seq({o \in Orders : Shown(o)}) /\ Len(<<>>) = 0
    BY EmptySeq
  <2>2. IsInjective(<<>>)
    BY DEF IsInjective
  <2> QED
    BY <2>1, <2>2, BoundsAssumption DEF Init, TypeOK
<1> QED
  BY <1>1, TypeStep, PTL DEF Spec

-------------------------------------------------------------------------------
(* What the lists show.                                                      *)

(* An empty list means that nothing on the first page could be shown.        *)
LEMMA EmptyListStep ==
    ASSUME TypeOK, list, stage' = "listed", items' = <<>>,
           NEW i \in DOMAIN waiting, Shown(waiting[i])
    PROVE  Len(waiting) > PageSize /\ \A j \in 1 .. PageSize : ~Shown(waiting[j])
<1> DEFINE p == FirstPage(waiting)
<1>1. /\ p \in Seq(Orders) /\ Len(p) = IF Len(waiting) < PageSize THEN Len(waiting) ELSE PageSize
      /\ \A j \in 1 .. Len(p) : p[j] = waiting[j]
  BY FirstPageRows DEF TypeOK
<1>2. DOMAIN p = 1 .. Len(p) /\ DOMAIN waiting = 1 .. Len(waiting) /\ Len(waiting) \in Nat
  BY <1>1, LenProperties DEF TypeOK
<1>3. ShownAt = {}
  BY WaitingList DEF list
<1>4. \A j \in DOMAIN p : ~Shown(p[j])
  BY <1>3 DEF ShownAt
<1> HIDE DEF p
<1>5. \A j \in 1 .. Len(p) : ~Shown(waiting[j])
  BY <1>1, <1>2, <1>4
<1>6. Len(waiting) > PageSize
  BY <1>1, <1>2, <1>5, BoundsAssumption
<1> QED
  BY <1>1, <1>2, <1>5, <1>6, BoundsAssumption

(* For a page of any size, loaded for the first time or again: while         *)
(* something waits that the auditor can decide here, the list comes back     *)
(* empty only if other documents fill the page.                              *)
THEOREM WaitingOrdersAreReachable == Spec => WaitingIsReachable
<1> DEFINE A == list /\ stage' = "listed" /\ items' = <<>> =>
               \A i \in DOMAIN waiting : Shown(waiting[i]) =>
                   Len(waiting) > PageSize /\ \A j \in 1 .. PageSize : ~Shown(waiting[j])
<1>1. TypeOK => A
  BY EmptyListStep
<1>2. TypeOK => [A]_vars
  BY <1>1
<1> QED
  BY <1>2, ListTypes, PTL DEF Spec, WaitingIsReachable

(* The rows of a number among those that are the first of theirs.            *)
LEMMA OneRowOfEach ==
    ASSUME NEW V, NEW s \in Seq(V), NEW i \in 1 .. Len(s)
    PROVE  LET r == RowsAt(s, First(s))
               rows == {k \in DOMAIN r : r[k].id = s[i].id}
           IN  /\ Cardinality(rows) = 1
               /\ i \in First(s) => \E k \in rows : r[k] = s[i]
<1> DEFINE r == RowsAt(s, First(s))
           rows == {k \in DOMAIN r : r[k].id = s[i].id}
<1>1. First(s) \subseteq 1 .. Len(s)
  BY FirstRows
<1>2. r \in Seq(V) /\ \E pos : Picks(r, s, First(s), Len(s), pos)
  BY <1>1, RowsAtPicks
<1>3. PICK pos : Picks(r, s, First(s), Len(s), pos)
  BY <1>2
<1> HIDE DEF r
<1>4. DOMAIN r = 1 .. Len(r) /\ Len(r) \in Nat /\ Len(s) \in Nat
  BY <1>2, LenProperties
<1>5. ASSUME NEW j \in First(s)
      PROVE  \E k \in DOMAIN r : pos[k] = j /\ r[k] = s[j]
  <2>1. j <= Len(s)
    BY <1>1, <1>4
  <2>2. PICK k \in 1 .. Len(r) : pos[k] = j
    BY <1>3, <2>1 DEF Picks
  <2> QED
    BY <1>3, <1>4, <2>2 DEF Picks
<1>6. PICK j \in First(s) : s[j].id = s[i].id
  BY FirstRows
<1>7. PICK k \in DOMAIN r : pos[k] = j /\ r[k] = s[j]
  BY <1>5
<1>8. ASSUME NEW l \in rows
      PROVE  l = k
  <2>1. pos[l] \in First(s) /\ r[l] = s[pos[l]] /\ l \in 1 .. Len(r)
    BY <1>3, <1>4 DEF Picks
  <2>2. s[pos[l]].id = s[j].id
    BY <1>6, <2>1
  <2>3. pos[l] = pos[k]
    BY <1>7, <2>1, <2>2, FirstRows
  <2>4. pos[l] \in Nat
    BY <1>1, <2>1
  <2>5. ~ (l < k) /\ ~ (k < l)
    BY <1>3, <1>4, <2>1, <2>3, <2>4 DEF Picks
  <2> QED
    BY <1>4, <2>1, <2>5
<1>9. rows = {k}
  BY <1>6, <1>7, <1>8
<1>10. i \in First(s) => r[k] = s[i]
  BY <1>6, <1>7, FirstRows
<1> HIDE DEF rows
<1>11. Cardinality(rows) = 1
  BY <1>9, FS_Singleton
<1> QED
  BY <1>9, <1>10, <1>11 DEF rows, r

(* However often, and at however many nodes, the auditor decided about a     *)
(* number, the resolved list shows it in exactly one row: the audit that the *)
(* back end lists first.                                                     *)
THEOREM DecidedOrdersAreListedOnce == Spec => DecidedIsListedOnce
<1> DEFINE A == resolved /\ dealOrderList' # Null =>
               \A i \in DOMAIN audits :
                   LET rows == {k \in DOMAIN dealOrderList' : dealOrderList'[k].id = audits[i].id}
                   IN  /\ Cardinality(rows) = 1
                       /\ i \in First(audits) => \E k \in rows : dealOrderList'[k] = audits[i]
<1>1. TypeOK => A
  <2> SUFFICES ASSUME TypeOK, resolved, dealOrderList' # Null, NEW i \in DOMAIN audits
               PROVE  LET rows == {k \in DOMAIN dealOrderList' : dealOrderList'[k].id = audits[i].id}
                      IN  /\ Cardinality(rows) = 1
                          /\ i \in First(audits) => \E k \in rows : dealOrderList'[k] = audits[i]
    OBVIOUS
  <2>1. i \in 1 .. Len(audits)
    BY LenProperties DEF TypeOK
  <2>2. dealOrderList' = RowsAt(audits, First(audits))
    BY DEF resolved, payOrderQuery
  <2> DEFINE r == RowsAt(audits, First(audits))
             R == {k \in DOMAIN r : r[k].id = audits[i].id}
  <2>3. /\ Cardinality(R) = 1
        /\ i \in First(audits) => \E k \in R : r[k] = audits[i]
    <3>1. audits \in Seq(Orders)
      BY DEF TypeOK
    <3> QED
      BY <2>1, <3>1, OneRowOfEach
  <2>4. r = dealOrderList'
    BY <2>2
  <2> HIDE DEF r
  <2> QED
    BY <2>3, <2>4
<1>2. TypeOK => [A]_vars
  BY <1>1
<1> QED
  BY <1>2, ListTypes, PTL DEF Spec, DecidedIsListedOnce
===============================================================================
