------------------------------- MODULE PayDetail -------------------------------
(***************************************************************************)
(* The parts of the payment page (paySubstituteDetail.html): the order and *)
(* the audit records asked for when it is mounted, the order lines asked   *)
(* for at each press of their button.  Each request names the payId cookie *)
(* of its own moment, and the answers come in any order.                   *)
(***************************************************************************)
EXTENDS Naturals, FiniteSets

CONSTANTS Tabs,       \* live pages of one browser
          Orders,     \* payments waiting for the auditor
          NoOrder,
          MaxAsked    \* bound: requests a page has under way

ASSUME OrdersAssumption == NoOrder \notin Orders
ASSUME MaxAskedAssumption == MaxAsked \in Nat

VARIABLES payId,   \* the cookie
          at,      \* where each tab is
          asked,   \* requests under way
          shown,   \* the order each part of a page is about
          flag     \* the order lines are folded

vars == <<payId, at, asked, shown, flag>>

Parts == {"payOrder", "verifyRecords", "payPoOrderDetail"}
Requests == [part : Parts, order : Orders]
Blank == [part \in Parts |-> NoOrder]

Init == /\ payId = NoOrder
        /\ at = [t \in Tabs |-> "list"]
        /\ asked = [t \in Tabs |-> {}]
        /\ shown = [t \in Tabs |-> Blank]
        /\ flag = [t \in Tabs |-> TRUE]

-------------------------------------------------------------------------------
\* Mutated form: the lines stay unfolded.
NewPage_unfolded(t, place) == /\ at' = [at EXCEPT ![t] = place]
                              /\ asked' = [asked EXCEPT ![t] = {}]
                              /\ shown' = [shown EXCEPT ![t] = Blank]
                              /\ UNCHANGED flag

\* A new document: what the old one asked for is never answered to it.
NewPage(t, place) == /\ at' = [at EXCEPT ![t] = place]
                     /\ asked' = [asked EXCEPT ![t] = {}]
                     /\ shown' = [shown EXCEPT ![t] = Blank]
                     /\ flag' = [flag EXCEPT ![t] = TRUE]

\* detail(...) of the list page.
Open(t, o) == /\ at[t] = "list"
              /\ payId' = o
              /\ NewPage(t, "loading")

Ask(t, parts) == asked' = [asked EXCEPT ![t] = @ \cup {[part |-> p, order |-> payId] : p \in parts}]

\* Mutated form: the records are asked for when the order has come.
Mount_oneByOne(t) ==
    /\ \/ at[t] = "loading" /\ Ask(t, {"payOrder"}) /\ at' = [at EXCEPT ![t] = "detail"]
       \/ /\ at[t] = "detail" /\ shown[t]["payOrder"] # NoOrder
          /\ Ask(t, {"verifyRecords"}) /\ UNCHANGED at
    /\ UNCHANGED <<payId, shown, flag>>

\* mounted(): list() and auditRecords(), with no other script in between.
Mount(t) == /\ at[t] = "loading"
            /\ Ask(t, {"payOrder", "verifyRecords"})
            /\ at' = [at EXCEPT ![t] = "detail"]
            /\ UNCHANGED <<payId, shown, flag>>

\* payPoRelationDetail(): unfolds or folds the lines, and asks for them either way.
Toggle(t) == /\ at[t] = "detail" /\ Cardinality(asked[t]) < MaxAsked
             /\ flag' = [flag EXCEPT ![t] = ~flag[t]]
             /\ Ask(t, {"payPoOrderDetail"})
             /\ UNCHANGED <<payId, at, shown>>

Answered(t, r) == asked' = [asked EXCEPT ![t] = @ \ {r}]

Answer(t, r) == /\ r \in asked[t]
                /\ shown' = [shown EXCEPT ![t][r.part] = r.order]
                /\ Answered(t, r)
                /\ UNCHANGED <<payId, at, flag>>

\* An exception or a blank response is answered with success and no data: reading
\* a member of it throws into catch, and the part stays as it was.  The audit
\* records come as an empty result.
AnswerEmpty(t, r) ==
    /\ r \in asked[t]
    /\ shown' = IF r.part = "verifyRecords" THEN [shown EXCEPT ![t][r.part] = NoOrder] ELSE shown
    /\ Answered(t, r)
    /\ UNCHANGED <<payId, at, flag>>

\* A decision was made, or the auditor goes back.
Leave(t) == /\ at[t] = "detail"
            /\ NewPage(t, "list")
            /\ UNCHANGED payId

Next == \E t \in Tabs :
          \/ \E o \in Orders : Open(t, o)
          \/ Mount(t) \/ Toggle(t) \/ Leave(t)
          \/ \E r \in asked[t] : Answer(t, r) \/ AnswerEmpty(t, r)

Spec == Init /\ [][Next]_vars
-------------------------------------------------------------------------------
(* Types; the lines are unfolded on a mounted page only (line 148)  .         *)
TypeOK == /\ payId \in Orders \cup {NoOrder}
          /\ at \in [Tabs -> {"list", "loading", "detail"}]
          /\ asked \in [Tabs -> SUBSET Requests]
          /\ shown \in [Tabs -> [Parts -> Orders \cup {NoOrder}]]
          /\ flag \in [Tabs -> BOOLEAN]
          /\ \A t \in Tabs : at[t] # "detail" => flag[t]

Agree(t, parts) == \A p, q \in parts :
    shown[t][p] # NoOrder /\ shown[t][q] # NoOrder => shown[t][p] = shown[t][q]

(* However many pages write the cookie and in whatever order answers come, the *)
(* audit records under an order are its own: both were asked for in one        *)
(* mounted() (lines 126-129), and a page's requests end with it.               *)
RecordsAreOfTheOrder == \A t \in Tabs : Agree(t, {"payOrder", "verifyRecords"})

(* The lines under "付款订单明细" are those of the order above them, which the   *)
(* auditor decides by them (payPoRelationDetail, lines 147-169).  This takes a *)
(* single live page (OnePageShowsOneOrder in PayDetailProofs): another one may *)
(* rewrite the cookie between mounted() and the toggle.                        *)
LinesAreOfTheOrder == \A t \in Tabs : Agree(t, Parts)
===============================================================================
