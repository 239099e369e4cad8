------------------------------ MODULE OrderLists ------------------------------
(***************************************************************************)
(* The two lists of waitingPayOrderList.html as PayController makes them:  *)
(* the orders that wait for the auditor (one page of them, filtered by     *)
(* type) and those the auditor audited (one row per order number).  An     *)
(* order comes to an auditor once for each node the auditor holds.         *)
(***************************************************************************)
EXTENDS SequencesExt

CONSTANTS Orders,     \* [id, poType] of the orders
          PageSize,   \* 25: pageNo and pageSize keep their defaults
          Null,       \* no data
          MaxTasks    \* bound: audits an auditor is asked for, at a time and in all

ASSUME OrdersAssumption == Orders \subseteq [id : Nat, poType : {"pay", "purchase", "other"}]
ASSUME BoundsAssumption == PageSize \in Nat \ {0} /\ MaxTasks \in Nat

VARIABLES waiting,       \* orders that wait for the auditor, as the back end lists them
          audits,        \* the orders of the audits the auditor made, latest first
          items,         \* the list of the page
          dealOrderList, \* the resolved list of the page; Null after an empty answer
          stage          \* the request of mounted(): "loading", "listed" or "failed"

vars == <<waiting, audits, items, dealOrderList, stage>>
pageVars == <<items, dealOrderList, stage>>

Init == /\ waiting = <<>> /\ audits = <<>>
        /\ items = <<>> /\ dealOrderList = <<>> /\ stage = "loading"

\* A loop over s that adds the rows kept, one after the other, to a new list.
RowsAt(s, kept) ==
    LET rows[i \in 0 .. Len(s)] ==
            IF i = 0 THEN <<>>
            ELSE IF i \in kept THEN Append(rows[i - 1], s[i]) ELSE rows[i - 1]
    IN  rows[Len(s)]

-------------------------------------------------------------------------------
(* The back end (external).                                                  *)

\* A node of the order's flow falls to the auditor.
Arrives(o) == /\ o \notin Range(waiting) /\ Len(waiting) + Len(audits) < MaxTasks
              /\ waiting' = Append(waiting, o)
              /\ UNCHANGED <<audits, pageVars>>

\* The auditor decides it, here or at a desk, or a colleague does.
Decided(o, byAuditor) == /\ o \in Range(waiting)
                         /\ waiting' = RowsAt(waiting, {i \in DOMAIN waiting : waiting[i] # o})
                         /\ audits' = IF byAuditor THEN <<o>> \o audits ELSE audits
                         /\ UNCHANGED pageVars

Shown(o) == o.poType \in {"pay", "purchase"}
FirstPage(s) == SubSeq(s, 1, IF Len(s) < PageSize THEN Len(s) ELSE PageSize)

\* Mutated form: only payments, which the request asks for, are kept.
waitingAuditOrder_payments == SelectSeq(FirstPage(waiting), LAMBDA o : o.poType = "pay")

\* Mutated form: documents of every type are kept.
waitingAuditOrder_everyType == FirstPage(waiting)

waitingAuditOrder ==
    LET page == FirstPage(waiting) IN RowsAt(page, {i \in DOMAIN page : Shown(page[i])})

\* Mutated form: every audit is a row.
payOrderQuery_all == audits

\* The rows whose order number no earlier row has.
First(s) == {i \in DOMAIN s : \A j \in 1 .. (i - 1) : s[j].id # s[i].id}
payOrderQuery == RowsAt(audits, First(audits))

-------------------------------------------------------------------------------
(* The page.                                                                 *)

\* The page is opened or loaded again: data is new, mounted() calls list().
Load == /\ items' = <<>> /\ dealOrderList' = <<>> /\ stage' = "loading"
        /\ UNCHANGED <<waiting, audits>>

\* list(), called by mounted() only: without data reading items throws, and the
\* page stays as empty as it was.
list == /\ stage = "loading"
        /\ \/ stage' = "listed" /\ items' = waitingAuditOrder
           \/ stage' = "failed" /\ UNCHANGED items
        /\ UNCHANGED <<waiting, audits, dealOrderList>>

\* resolved(), the second tab: without data the list is gone.
resolved == /\ dealOrderList' \in {payOrderQuery, Null}
            /\ UNCHANGED <<waiting, audits, items, stage>>

Next == \/ \E o \in Orders : Arrives(o) \/ Decided(o, TRUE) \/ Decided(o, FALSE)
        \/ Load \/ list \/ resolved

Spec == Init /\ [][Next]_vars
-------------------------------------------------------------------------------
(* Types; the list shows payments and purchases only, no more than a page of    *)
(* them, and none before its answer came.                                       *)
TypeOK == /\ waiting \in Seq(Orders) /\ audits \in Seq(Orders)
          /\ items \in Seq({o \in Orders : Shown(o)}) /\ Len(items) <= PageSize
          /\ dealOrderList \in Seq(Orders) \cup {Null}
          /\ stage \in {"loading", "listed", "failed"}
          /\ stage # "listed" => items = <<>>
          /\ IsInjective(waiting)

(* The resolved list has one row of every number the auditor decided about      *)
(* before it was asked for, that of the audit the back end lists first, even if *)
(* there are several audits: of one order at several nodes, or of a payment and *)
(* a purchase of the same number (PayController lines 110-120).                 *)
DecidedIsListedOnce == [][resolved /\ dealOrderList' # Null =>
    \A i \in DOMAIN audits :
        LET rows == {k \in DOMAIN dealOrderList' : dealOrderList'[k].id = audits[i].id}
        IN  /\ Cardinality(rows) = 1
            /\ i \in First(audits) => \E k \in rows : dealOrderList'[k] = audits[i]]_vars

(* If the list of a page comes back empty, nothing waits for the auditor that   *)
(* can be decided here, or other documents fill the page (PayController lines   *)
(* 64-84, list of waitingPayOrderList.html).  A query that failed, or a request *)
(* without a session, leaves the page as empty, and nothing is said of it.      *)
WaitingIsReachable == [][list /\ stage' = "listed" /\ items' = <<>> =>
    \A i \in DOMAIN waiting : Shown(waiting[i]) =>
        Len(waiting) > PageSize /\ \A j \in 1 .. PageSize : ~Shown(waiting[j])]_vars
===============================================================================
