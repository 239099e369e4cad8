---------------------------- MODULE PayDetailProofs ----------------------------
(***************************************************************************)
(* Proofs about PayDetail, for any pages and orders: an order's page shows *)
(* its own audit records, and with one live page its own lines too.        *)
(***************************************************************************)
EXTENDS PayDetail, TLAPS

AlonePart == {"payOrder", "verifyRecords"}

(* All a page shows or waits for is about one order, the lines aside.        *)
About(t, o) ==
    /\ \A r \in asked[t] : r.part \in AlonePart => r.order = o
    /\ \A p \in AlonePart : shown[t][p] \in {o, NoOrder}

(* A page that is not mounted neither shows nor waits for anything.          *)
Empty(t) == at[t] # "detail" => asked[t] = {} /\ shown[t] = Blank /\ flag[t]

Loaded(t) == at[t] # "list" => payId \in Orders

RecordsInv == /\ TypeOK
              /\ \A t \in Tabs : Empty(t) /\ Loaded(t)
              /\ \A t \in Tabs : \E o \in Orders \cup {NoOrder} : About(t, o)

LEMMA BlankAbout ==
    ASSUME NEW t \in Tabs, NEW o, asked[t] = {}, shown[t] = Blank
    PROVE  About(t, o)
BY DEF About, AlonePart, Blank, Parts

LEMMA Initially == Init => RecordsInv
<1> SUFFICES ASSUME Init PROVE RecordsInv OBVIOUS
<1>1. TypeOK  BY DEF Init, TypeOK, Blank, Parts
<1>2. ASSUME NEW t \in Tabs PROVE Empty(t) /\ Loaded(t) /\ About(t, NoOrder)
  BY BlankAbout DEF Init, Empty, Loaded
<1> QED BY <1>1, <1>2 DEF RecordsInv

(* What concerns the other pages of a step.                                  *)
Others(t) == \A u \in Tabs \ {t} :
    at'[u] = at[u] /\ asked'[u] = asked[u] /\ shown'[u] = shown[u] /\ flag'[u] = flag[u]

LEMMA OnePage ==
    ASSUME RecordsInv, NEW t \in Tabs, TypeOK', Others(t),
           payId' = payId \/ payId' \in Orders,
           Empty(t)', Loaded(t)', \E o \in Orders \cup {NoOrder} : About(t, o)'
    PROVE  RecordsInv'
<1>1. ASSUME NEW u \in Tabs \ {t}
      PROVE  Empty(u)' /\ Loaded(u)' /\ \E o \in Orders \cup {NoOrder} : About(u, o)'
  <2>1. at'[u] = at[u] /\ asked'[u] = asked[u] /\ shown'[u] = shown[u] /\ flag'[u] = flag[u]
    BY <1>1 DEF Others
  <2>2. PICK o \in Orders \cup {NoOrder} : About(u, o)  BY DEF RecordsInv
  <2>3. About(u, o)'  BY <2>1, <2>2 DEF About
  <2>4. Empty(u) /\ Loaded(u)  BY DEF RecordsInv
  <2> QED BY <2>1, <2>3, <2>4 DEF Empty, Loaded
<1> QED BY <1>1 DEF RecordsInv

LEMMA NewPageStep ==
    ASSUME RecordsInv, NEW t \in Tabs, NEW place \in {"list", "loading"}, NewPage(t, place),
           payId' = payId \/ payId' \in Orders, place = "loading" => payId' \in Orders
    PROVE  RecordsInv'
<1>1. TypeOK  BY DEF RecordsInv
<1>2. Blank \in [Parts -> Orders \cup {NoOrder}]  BY DEF Blank
<1>3. /\ at' \in [Tabs -> {"list", "loading", "detail"}] /\ at'[t] = place
      /\ asked' \in [Tabs -> SUBSET Requests] /\ asked'[t] = {}
      /\ shown' \in [Tabs -> [Parts -> Orders \cup {NoOrder}]] /\ shown'[t] = Blank
      /\ flag' \in [Tabs -> BOOLEAN] /\ flag'[t] = TRUE
      /\ Others(t)
  BY <1>1, <1>2 DEF TypeOK, NewPage, Others
<1>4. \A u \in Tabs : at'[u] # "detail" => flag'[u]
  BY <1>1, <1>3 DEF TypeOK, Others
<1>5. TypeOK'  BY <1>1, <1>3, <1>4 DEF TypeOK
<1>6. Empty(t)' /\ Loaded(t)'  BY <1>3 DEF Empty, Loaded
<1>7. About(t, NoOrder)'  BY <1>3 DEF About, AlonePart, Blank, Parts
<1> QED BY <1>3, <1>5, <1>6, <1>7, OnePage

LEMMA AskStep ==
    ASSUME RecordsInv, NEW t \in Tabs, NEW parts \in SUBSET Parts, Ask(t, parts), payId \in Orders
    PROVE  /\ asked' \in [Tabs -> SUBSET Requests]
           /\ asked'[t] = asked[t] \cup {[part |-> p, order |-> payId] : p \in parts}
           /\ \A u \in Tabs \ {t} : asked'[u] = asked[u]
<1>1. asked \in [Tabs -> SUBSET Requests]  BY DEF RecordsInv, TypeOK
<1>2. {[part |-> p, order |-> payId] : p \in parts} \subseteq Requests  BY DEF Requests
<1> QED BY <1>1, <1>2 DEF Ask

LEMMA MountStep ==
    ASSUME RecordsInv, NEW t \in Tabs, Mount(t)
    PROVE  RecordsInv'
<1>1. TypeOK /\ Empty(t) /\ Loaded(t)  BY DEF RecordsInv
<1>2. at[t] = "loading" /\ at' = [at EXCEPT ![t] = "detail"] /\ UNCHANGED <<payId, shown, flag>>
  BY DEF Mount
<1>3. payId \in Orders /\ asked[t] = {} /\ shown[t] = Blank  BY <1>1, <1>2 DEF Empty, Loaded
<1>4. {"payOrder", "verifyRecords"} \in SUBSET Parts  BY DEF Parts
<1>5. /\ asked' \in [Tabs -> SUBSET Requests]
      /\ asked'[t] = asked[t] \cup {[part |-> p, order |-> payId] : p \in {"payOrder", "verifyRecords"}}
      /\ \A u \in Tabs \ {t} : asked'[u] = asked[u]
  BY <1>3, <1>4, AskStep DEF Mount
<1>6. at' \in [Tabs -> {"list", "loading", "detail"}] /\ at'[t] = "detail"
      /\ \A u \in Tabs \ {t} : at'[u] = at[u]
  BY <1>1, <1>2 DEF TypeOK
<1>7. TypeOK'  BY <1>1, <1>2, <1>5, <1>6 DEF TypeOK
<1>8. Others(t)  BY <1>2, <1>5, <1>6 DEF Others
<1>9. About(t, payId)'  BY <1>2, <1>3, <1>5 DEF About, AlonePart, Blank, Parts
<1>10. Empty(t)' /\ Loaded(t)'  BY <1>2, <1>3, <1>6 DEF Empty, Loaded
<1> QED BY <1>2, <1>3, <1>7, <1>8, <1>9, <1>10, OnePage

LEMMA ToggleStep ==
    ASSUME RecordsInv, NEW t \in Tabs, Toggle(t)
    PROVE  RecordsInv'
<1>1. TypeOK /\ Empty(t) /\ Loaded(t)  BY DEF RecordsInv
<1>2. at[t] = "detail" /\ flag' = [flag EXCEPT ![t] = ~flag[t]] /\ UNCHANGED <<payId, at, shown>>
  BY DEF Toggle
<1>3. payId \in Orders  BY <1>1, <1>2 DEF Loaded
<1>4. {"payPoOrderDetail"} \in SUBSET Parts  BY DEF Parts
<1>5. /\ asked' \in [Tabs -> SUBSET Requests]
      /\ asked'[t] = asked[t] \cup {[part |-> p, order |-> payId] : p \in {"payPoOrderDetail"}}
      /\ \A u \in Tabs \ {t} : asked'[u] = asked[u]
  BY <1>3, <1>4, AskStep DEF Toggle
<1>6. flag' \in [Tabs -> BOOLEAN] /\ \A u \in Tabs \ {t} : flag'[u] = flag[u]
  BY <1>1, <1>2 DEF TypeOK
<1>7. TypeOK'  BY <1>1, <1>2, <1>5, <1>6 DEF TypeOK
<1>8. Others(t)  BY <1>2, <1>5, <1>6 DEF Others
<1>9. PICK o \in Orders \cup {NoOrder} : About(t, o)  BY DEF RecordsInv
<1>10. About(t, o)'  BY <1>2, <1>5, <1>9 DEF About, AlonePart
<1>11. Empty(t)' /\ Loaded(t)'  BY <1>2, <1>3 DEF Empty, Loaded
<1> QED BY <1>2, <1>7, <1>8, <1>10, <1>11, OnePage

(* An answer, with the order it is about or with nothing.                    *)
LEMMA AnswerStep ==
    ASSUME RecordsInv, NEW t \in Tabs, NEW r \in asked[t], NEW o \in {r.order, NoOrder},
           shown' = [shown EXCEPT ![t][r.part] = o] \/ shown' = shown,
           Answered(t, r), UNCHANGED <<payId, at, flag>>
    PROVE  RecordsInv'
<1>1. TypeOK /\ Empty(t) /\ Loaded(t)  BY DEF RecordsInv
<1>2. asked[t] \subseteq Requests /\ r \in Requests  BY <1>1 DEF TypeOK
<1>3. r.part \in Parts /\ r.order \in Orders  BY <1>2 DEF Requests
<1>4. /\ asked' \in [Tabs -> SUBSET Requests] /\ asked'[t] = asked[t] \ {r}
      /\ \A u \in Tabs \ {t} : asked'[u] = asked[u]
  BY <1>1 DEF TypeOK, Answered
<1>5. /\ shown' \in [Tabs -> [Parts -> Orders \cup {NoOrder}]]
      /\ \A u \in Tabs \ {t} : shown'[u] = shown[u]
      /\ \A p \in Parts : shown'[t][p] = shown[t][p] \/ (p = r.part /\ shown'[t][p] = o)
  BY <1>1, <1>3 DEF TypeOK
<1>6. TypeOK'  BY <1>1, <1>4, <1>5 DEF TypeOK
<1>7. Others(t)  BY <1>4, <1>5 DEF Others
<1>8. at[t] = "detail"  BY <1>1 DEF Empty
<1>9. PICK about \in Orders \cup {NoOrder} : About(t, about)  BY DEF RecordsInv
<1>10. About(t, about)'
  <2>1. \A q \in asked'[t] : q.part \in AlonePart => q.order = about
    BY <1>4, <1>9 DEF About
  <2>2. ASSUME NEW p \in AlonePart PROVE shown'[t][p] \in {about, NoOrder}
    <3>1. p \in Parts  BY <2>2 DEF AlonePart, Parts
    <3>2. CASE shown'[t][p] = shown[t][p]  BY <1>9, <2>2, <3>2 DEF About
    <3>3. CASE p = r.part /\ shown'[t][p] = o  BY <1>9, <2>2, <3>3 DEF About
    <3> QED BY <1>5, <3>1, <3>2, <3>3
  <2> QED BY <2>1, <2>2 DEF About
<1>11. Empty(t)' /\ Loaded(t)'  BY <1>1, <1>8 DEF Empty, Loaded
<1> QED BY <1>6, <1>7, <1>10, <1>11, OnePage

LEMMA Preserved == RecordsInv /\ [Next]_vars => RecordsInv'
<1> SUFFICES ASSUME RecordsInv, [Next]_vars PROVE RecordsInv' OBVIOUS
<1>1. ASSUME NEW t \in Tabs, NEW o \in Orders, Open(t, o) PROVE RecordsInv'
  BY <1>1, NewPageStep DEF Open
<1>2. ASSUME NEW t \in Tabs, Mount(t) PROVE RecordsInv'  BY <1>2, MountStep
<1>3. ASSUME NEW t \in Tabs, Toggle(t) PROVE RecordsInv'  BY <1>3, ToggleStep
<1>4. ASSUME NEW t \in Tabs, Leave(t) PROVE RecordsInv'
  BY <1>4, NewPageStep DEF Leave
<1>5. ASSUME NEW t \in Tabs, NEW r \in asked[t], Answer(t, r) PROVE RecordsInv'
  BY <1>5, AnswerStep DEF Answer
<1>6. ASSUME NEW t \in Tabs, NEW r \in asked[t], AnswerEmpty(t, r) PROVE RecordsInv'
  BY <1>6, AnswerStep DEF AnswerEmpty
<1>7. CASE UNCHANGED vars
  BY <1>7 DEF vars, RecordsInv, TypeOK, Empty, Loaded, About
<1> QED BY <1>1, <1>2, <1>3, <1>4, <1>5, <1>6, <1>7 DEF Next

LEMMA Always == Spec => []RecordsInv
BY Initially, Preserved, PTL DEF Spec

(* The page's variables keep their types.                                    *)
THEOREM DetailTyped == Spec => []TypeOK
<1>1. RecordsInv => TypeOK  BY DEF RecordsInv
<1> QED BY <1>1, Always, PTL

(* Whatever pages of the browser do to the cookie, and in whatever order the *)
(* answers come, the audit records on a page are those of its order.         *)
THEOREM RecordsMatchTheirOrder == Spec => []RecordsAreOfTheOrder
<1>1. RecordsInv => RecordsAreOfTheOrder
  <2> SUFFICES ASSUME RecordsInv, NEW t \in Tabs PROVE Agree(t, AlonePart)
    BY DEF RecordsAreOfTheOrder, AlonePart
  <2>1. PICK o \in Orders \cup {NoOrder} : About(t, o)  BY DEF RecordsInv
  <2> QED BY <2>1 DEF About, Agree
<1> QED BY <1>1, Always, PTL
-------------------------------------------------------------------------------
(* With one live page the cookie names its order as long as it is there.     *)
Alone == \A t, u \in Tabs : t = u

OfCookie(t) == at[t] = "detail" => /\ \A r \in asked[t] : r.order = payId
                                   /\ \A p \in Parts : shown[t][p] \in {payId, NoOrder}

LinesInv == RecordsInv /\ \A t \in Tabs : OfCookie(t)

LEMMA LinesStep ==
    ASSUME Alone, LinesInv, [Next]_vars
    PROVE  \A t \in Tabs : OfCookie(t)'
<1> SUFFICES ASSUME NEW t \in Tabs PROVE OfCookie(t)' OBVIOUS
<1>1. TypeOK /\ Empty(t) /\ Loaded(t) /\ OfCookie(t)  BY DEF LinesInv, RecordsInv
<1>2. \A u \in Tabs : u = t  BY DEF Alone
<1>3. CASE \E u \in Tabs, place \in {"list", "loading"} : NewPage(u, place)
  <2>1. PICK place \in {"list", "loading"} : NewPage(t, place)  BY <1>2, <1>3
  <2>2. at'[t] = place  BY <1>1, <2>1 DEF NewPage, TypeOK
  <2> QED BY <2>2 DEF OfCookie
<1>4. CASE Mount(t)
  <2>1. at[t] = "loading" /\ UNCHANGED <<payId, shown>>  BY <1>4 DEF Mount
  <2>2. asked[t] = {} /\ shown[t] = Blank /\ payId \in Orders  BY <1>1, <2>1 DEF Empty, Loaded
  <2>3. {"payOrder", "verifyRecords"} \in SUBSET Parts  BY DEF Parts
  <2>4. asked'[t] = asked[t] \cup {[part |-> p, order |-> payId] : p \in {"payOrder", "verifyRecords"}}
    BY <1>4, <2>2, <2>3, AskStep DEF Mount, LinesInv
  <2> QED BY <2>1, <2>2, <2>4 DEF OfCookie, Blank
<1>5. CASE Toggle(t)
  <2>1. at[t] = "detail" /\ UNCHANGED <<payId, at, shown>>  BY <1>5 DEF Toggle
  <2>2. payId \in Orders  BY <1>1, <2>1 DEF Loaded
  <2>3. {"payPoOrderDetail"} \in SUBSET Parts  BY DEF Parts
  <2>4. asked'[t] = asked[t] \cup {[part |-> p, order |-> payId] : p \in {"payPoOrderDetail"}}
    BY <1>5, <2>2, <2>3, AskStep DEF Toggle, LinesInv
  <2> QED BY <1>1, <2>1, <2>4 DEF OfCookie
<1>6. CASE \E r \in asked[t] : Answer(t, r) \/ AnswerEmpty(t, r)
  <2>1. PICK r \in asked[t] : Answer(t, r) \/ AnswerEmpty(t, r)  BY <1>6
  <2>2. at[t] = "detail" /\ r.part \in Parts /\ r.order = payId
    BY <1>1, <2>1 DEF Empty, TypeOK, Requests, OfCookie
  <2>3. payId' = payId /\ asked'[t] = asked[t] \ {r}
    BY <1>1, <2>1 DEF Answer, AnswerEmpty, Answered, TypeOK
  <2>4. \A p \in Parts : shown'[t][p] \in {shown[t][p], r.order, NoOrder}
    BY <1>1, <2>1, <2>2 DEF Answer, AnswerEmpty, TypeOK
  <2> QED BY <1>1, <2>2, <2>3, <2>4 DEF OfCookie
<1>7. CASE UNCHANGED vars
  BY <1>1, <1>7 DEF vars, OfCookie
<1> QED BY <1>2, <1>3, <1>4, <1>5, <1>6, <1>7 DEF Next, Open, Leave

(* With one live page the lines are those of the order above them.           *)
THEOREM OnePageShowsOneOrder == ASSUME Alone PROVE Spec => []LinesAreOfTheOrder
<1>1. Init => LinesInv
  BY Initially DEF LinesInv, Init, OfCookie
<1>2. LinesInv /\ [Next]_vars => LinesInv'
  BY Preserved, LinesStep DEF LinesInv
<1>3. LinesInv => LinesAreOfTheOrder
  <2> SUFFICES ASSUME LinesInv, NEW t \in Tabs PROVE Agree(t, Parts)
    BY DEF LinesAreOfTheOrder
  <2>1. Empty(t) /\ OfCookie(t)  BY DEF LinesInv, RecordsInv
  <2> QED BY <2>1 DEF Empty, OfCookie, Agree, Blank
<1> QED BY <1>1, <1>2, <1>3, PTL DEF Spec
===============================================================================
