------------------------------ MODULE CookieJars ------------------------------
(***************************************************************************)
(* What the detail pages read, by one rule.  Each kind of page has a jar   *)
(* of its own, which only the list page of that kind fills.  Where its own *)
(* jar is empty, a page of /pay/portal reads a purchase's task and state,  *)
(* and a report page a purchase's project; a purchase page reads nothing   *)
(* but purchases.  The jars of Approval are payPage and purchase.          *)
(***************************************************************************)
CONSTANTS PayRows,             \* rows of the list that are waiting payments
          HandledPayRows,      \* handled payments (state 100)
          PurchaseRows,        \* waiting purchases
          HandledPurchaseRows, \* handled purchases
          Projects,            \* rows of the stock report
          Undefined

VARIABLES payRow,      \* the row the payment page is about
          handledPay,  \* the row the handled payment page is about
          project,     \* the row a report page was opened for
          purchase,    \* the row each cookie of the purchase pages is from
          payPage,     \* the row each cookie the payment page reads is from
          reportPage   \* the row the goods report page asks for

jars == <<payRow, handledPay, project, purchase, payPage, reportPage>>

NoPurchase == [poId |-> Undefined, auditId |-> Undefined,
               projectId |-> Undefined, state |-> Undefined]

\* What is read, whatever was opened, replaced, run out or dropped before.
Shown ==
    /\ payPage = IF payRow # Undefined
                 THEN [payId |-> payRow, auditId |-> payRow, state |-> payRow]
                 ELSE [payId |-> Undefined, auditId |-> purchase.auditId,
                       state |-> purchase.state]
    /\ reportPage = IF project # Undefined THEN project ELSE purchase.projectId

Init == /\ payRow = Undefined
        /\ handledPay = Undefined
        /\ project = Undefined
        /\ purchase = NoPurchase
        /\ Shown

OpenPay(r) == payRow' = r /\ UNCHANGED <<handledPay, project, purchase>>
OpenHandledPay(r) == handledPay' = r /\ UNCHANGED <<payRow, project, purchase>>
OpenProject(p) == project' = p /\ UNCHANGED <<payRow, handledPay, purchase>>

OpenPurchase(r) ==
    /\ purchase' = [poId |-> r, auditId |-> r, projectId |-> r, state |-> r]
    /\ UNCHANGED <<payRow, handledPay, project>>

\* A handled row leaves the task of the waiting one behind.
OpenHandledPurchase(r) ==
    /\ purchase' = [poId |-> r, auditId |-> purchase.auditId,
                    projectId |-> r, state |-> purchase.state]
    /\ UNCHANGED <<payRow, handledPay, project>>

\* Cookies run out.  Those of a waiting row only together with its number, so
\* that a page that still has the number has everything.
RunOut ==
    /\ \E poId \in {purchase.poId, Undefined}, auditId \in {purchase.auditId, Undefined},
          projectId \in {purchase.projectId, Undefined}, state \in {purchase.state, Undefined} :
         /\ poId # Undefined => projectId = purchase.projectId
         /\ auditId # Undefined => state = purchase.state
         /\ poId \in PurchaseRows => auditId = purchase.auditId
         /\ purchase' = [poId |-> poId, auditId |-> auditId,
                         projectId |-> projectId, state |-> state]
    /\ UNCHANGED <<payRow, handledPay, project>>

CloseBrowser ==
    /\ payRow' = Undefined /\ handledPay' = Undefined /\ project' = Undefined
    /\ UNCHANGED purchase

Next == /\ \/ \E r \in PayRows : OpenPay(r)
           \/ \E r \in HandledPayRows : OpenHandledPay(r)
           \/ \E r \in PurchaseRows : OpenPurchase(r)
           \/ \E r \in HandledPurchaseRows : OpenHandledPurchase(r)
           \/ \E p \in Projects : OpenProject(p)
           \/ RunOut
           \/ CloseBrowser
        /\ Shown'

Spec == Init /\ [][Next]_jars
===============================================================================
