-------------------------- MODULE ApprovalProperties --------------------------
(***************************************************************************)
(* What the pages, the handler and the back end of Approval guarantee      *)
(* together, and what they do not.                                         *)
(***************************************************************************)
EXTENDS Approval

ServerPhases == {"idle", "sent", "posted", "answered", "refused", "lost"}
PagePhases == {"none", "waiting", "closed", "error", "unseen"}
Views == {"list", "pay", "purchase", "handledPay", "handledPurchase"}

ClickType == [server : ServerPhases, page : PagePhases, tab : Tabs \cup {None},
              shown : Orders \cup {None}, body : AuditVO,
              endpoint : AuditEndpoints \cup UnpassEndpoints \cup {None},
              decided : Tasks \cup {None}]

(* Every value the variables take: the pages' cookies, views and requests,   *)
(* the back end's progress along each flow.                                  *)
TypeOK ==
    /\ decidedNodes \in [Orders -> Nat]
    /\ \A o \in Orders : decidedNodes[o] <= Len(Flow[o])
    /\ rejected \subseteq Orders
    /\ session \in BOOLEAN /\ renewed \in BOOLEAN
    /\ payJar \in Cookies /\ purchaseJar \in Cookies
    /\ handledPayId \in Orders \cup {None}
    /\ view \in [Tabs -> Views]
    /\ items \in [Tabs -> SUBSET Tasks]
    /\ shown \in [Tabs -> Orders \cup {None}]
    /\ click \in [Clicks -> ClickType]

Applied(c) == click[c].decided # None

-------------------------------------------------------------------------------
(* Cookies read at the press of a button may have been written by any other  *)
(* page.  For payments, whose cookies are written by one function only and   *)
(* always together, a posted body still names one order, a task of that      *)
(* order and the code of that task (waitingPayOrderList.html detail,         *)
(* paySubstituteDetail.html verifyPass).                                     *)
Coherent(b) == b.task # None => /\ b.order = b.task.order
                                /\ b.state \in {None, Code(b.task)}
PayBodyCoherent ==
    \A c \in Clicks : click[c].server # "idle" /\ click[c].body.poType = Pay
                        => Coherent(click[c].body)

(* A decision that took effect concerns the order the page showed when the   *)
(* button was pressed.  The cookies, not the page, say what is posted.       *)
DecisionWasShown ==
    \A c \in Clicks : Applied(c) /\ click[c].shown # None
                        => click[c].decided.order = click[c].shown

(* An approval takes effect at the node it was given for: while the request  *)
(* was under way the order may have moved on, and then the end point chosen  *)
(* by verify from the posted state keeps it from counting for a later node.  *)
AgreedAtPostedNode ==
    \A c \in Clicks : Applied(c) /\ click[c].body.operation = Agree
                        => Code(click[c].decided) = click[c].body.state

(* The buttons stay live while a request is under way and after an error, so *)
(* the same approval may be posted several times: it takes effect once.      *)
SameApprovalCountsOnce ==
    \A c, d \in Clicks :
        /\ c # d /\ click[c].body = click[d].body
        /\ click[c].body.operation = Agree
        => ~(Applied(c) /\ Applied(d))

(* Once the page went back to the list the outcome of its decision is final: *)
(* the handler answers after the back end did, never before.                 *)
ClosedIsFinal ==
    [][\A c \in Clicks : click[c].page = "closed" => click'[c].decided = click[c].decided]_vars

(* While a page waits for the answer of verify/pass, the answer (or an       *)
(* error) eventually comes, whatever the handler could not do.               *)
ClickIsAnswered ==
    \A c \in Clicks : (click[c].page = "waiting") ~> (click[c].page # "waiting")

Closed(order) == ~IsOpen(order)
Requested(c, type, operation) ==
    /\ click[c].server = "sent"
    /\ click[c].body.poType = type /\ click[c].body.operation = operation

(* When nothing fails, an approval ends with its task decided                *)
(* (VerifyController.verifyPass, operation 1).                               *)
ApprovalTakesEffect ==
    \A c \in Clicks : \A t \in Tasks :
        click[c].server = "sent" /\ click[c].body.task = t /\ click[c].body.operation = Agree
            ~> (decidedNodes[t.order] >= t.at \/ t.order \in rejected)

(* When nothing fails, refusing a purchase closes it (VerifyUtil.unPass).    *)
PurchaseRefusalTakesEffect ==
    \A c \in Clicks : \A o \in PurchaseOrders :
        (Requested(c, Purchase, Refuse) /\ click[c].body.order = o) ~> Closed(o)

-------------------------------------------------------------------------------
(* VerifyUtil.unPass ("付款驳回") posts the refusal of a payment to            *)
(* PAY_ORDER_UNPASS_AUDIT ("付款审核驳回"): when nothing fails, it closes it.  *)
PayRefusalTakesEffect ==
    \A c \in Clicks : \A o \in PayOrders :
        (Requested(c, Pay, Refuse) /\ click[c].body.order = o) ~> Closed(o)

(* The pages tell the auditor of a failed decision ("错了哦，审核异常!") and     *)
(* go back to the list otherwise: then its task is no longer waiting.        *)
ClosedMeansDecided ==
    \A c \in Clicks : click[c].page = "closed" /\ click[c].body.task # None
                        => ~IsCurrent(click[c].body.task)
===============================================================================
