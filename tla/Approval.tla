------------------------------- MODULE Approval -------------------------------
(***************************************************************************)
(* An auditor's pages, the server's verify/pass handler and the approval   *)
(* back end.  Live pages (tabs) of one browser share its cookies: the list *)
(* page writes the order opened into cookies, the detail page reads them   *)
(* when it loads and AGAIN when a button is pressed, and posts what it     *)
(* read.  The handler resolves the session, picks the back end's end point *)
(* and always answers success; the page returns to the list on any answer. *)
(***************************************************************************)
EXTENDS VerifyRouting, Sequences, FiniteSets

CONSTANTS Tabs,             \* live pages of the auditor's browser
          PayOrders,        \* orders of type Pay
          PurchaseOrders,   \* orders of type Purchase
          Flow,             \* the audit nodes of each order, in their order
          MaxClicks,        \* bound: presses of 同意 / 驳回 in a behaviour
          Environment       \* which of the outside events below may happen

Orders == PayOrders \cup PurchaseOrders

\* What may happen around the pages: another auditor passes a node or refuses an
\* order, the token runs out in Redis, cookies of a purchase run out (1 day), a request or its
\* reply is lost, the back end declines or fails for reasons of its own.
Events == {"agreement", "refusal", "session", "expiry", "transport", "backend"}

ASSUME OrdersAssumption == /\ PayOrders \cap PurchaseOrders = {}
                           /\ None \notin Orders
ASSUME FlowAssumption == /\ Flow \in [Orders -> Seq(StatusCodes)]
                         /\ None \notin StatusCodes
ASSUME BoundsAssumption == /\ MaxClicks \in Nat
                           /\ Environment \subseteq Events
                           /\ None \notin Tabs

Clicks == 1 .. MaxClicks

\* An audit task (id: auditId) is one node of one order's flow.
Tasks == UNION {[order : {o}, at : 1 .. Len(Flow[o])] : o \in Orders}

ASSUME TasksAssumption == None \notin Tasks

Code(task) == Flow[task.order][task.at]
PoType(order) == IF order \in PayOrders THEN Pay ELSE Purchase
DetailView(order) == IF order \in PayOrders THEN "pay" ELSE "purchase"
HandledView_waitingPage(order) == DetailView(order)      \* mutated form
HandledView(order) == IF order \in PayOrders THEN "handledPay" ELSE "handledPurchase"

\* The cookies of one detail page: payId or poId, auditId, state.
Cookies == [order : Orders \cup {None}, task : Tasks \cup {None}, state : StatusCodes \cup {None}]
NoCookies == [order |-> None, task |-> None, state |-> None]

\* The body of verify/pass (AuditVO; the pages leave state out of a refusal).
AuditVO == [order : Orders \cup {None}, task : Tasks \cup {None}, state : StatusCodes \cup {None},
            poType : {Pay, Purchase}, operation : {Agree, Refuse}]

VARIABLES
    decidedNodes,  \* back end: number of nodes of each order already passed
    rejected,      \* back end: orders refused
    session,       \* the browser's token resolves to the auditor's openid
    payJar,        \* cookies at /pay/portal: payId, auditId, state
    purchaseJar,   \* cookies at /: poId, auditId, state
    renewed,       \* the handled branch wrote poId after auditId and state
    handledPayId,  \* cookie at /pay/portal of the handled payment page
    view,          \* the page in each tab
    items,         \* the waiting items the list page in each tab shows
    shown,         \* the order the detail page in each tab shows
    click          \* the decisions: a request to verify/pass each

backend == <<decidedNodes, rejected>>
jars == <<payJar, purchaseJar, renewed, handledPayId>>
pages == <<view, items, shown>>
vars == <<backend, session, jars, pages, click>>

-------------------------------------------------------------------------------
(* The back end (external): what the code under src/ expects of it.          *)

IsOpen(order) == order \notin rejected /\ decidedNodes[order] < Len(Flow[order])
CurrentTask(order) == [order |-> order, at |-> decidedNodes[order] + 1]
IsCurrent(task) == IsOpen(task.order) /\ task = CurrentTask(task.order)

WaitingItems == {CurrentTask(o) : o \in {p \in Orders : IsOpen(p)}}
Handled(order) == order \in rejected \/ decidedNodes[order] > 0

\* Whether it finds the task by the order id or by the audit id is its own
\* business; an audit end point decides tasks of its own node and type only.
Targets(body, endpoint) ==
    {t \in WaitingItems : /\ t.order = body.order \/ t = body.task
                          /\ PoType(t.order) = endpoint.poType
                          /\ body.operation = Agree => Code(t) = endpoint.node}

-------------------------------------------------------------------------------
(* The list page.                                                            *)

\* A page that is left no longer sees the answers to its requests.
Left(t) == [c \in Clicks |-> IF click[c].tab = t /\ click[c].page = "waiting"
                             THEN [click[c] EXCEPT !.page = "unseen"]
                             ELSE click[c]]

\* list(): the order query; without a session (or on a failure) data is null
\* and the page stays empty.
LoadList(t) ==
    /\ view[t] = "list"
    /\ \/ session /\ items' = [items EXCEPT ![t] = WaitingItems]
       \/ /\ ~session \/ "transport" \in Environment
          /\ items' = [items EXCEPT ![t] = {}]
    /\ UNCHANGED <<backend, session, jars, view, shown, click>>

Goto(t, v) == /\ view' = [view EXCEPT ![t] = v]
              /\ items' = [items EXCEPT ![t] = {}]
              /\ shown' = [shown EXCEPT ![t] = None]

\* Mutated form: another number of the item for its state.
CookiesOf_wrongState(task) == [order |-> task.order, task |-> task, state |-> task.at]

CookiesOf(task) == [order |-> task.order, task |-> task, state |-> Code(task)]

\* detail(...) of a waiting item: writes all cookies of its page, then goes there.
OpenWaiting(t, task) ==
    /\ view[t] = "list" /\ task \in items[t]
    /\ IF task.order \in PayOrders
       THEN payJar' = CookiesOf(task) /\ UNCHANGED <<purchaseJar, renewed>>
       ELSE purchaseJar' = CookiesOf(task) /\ renewed' = FALSE /\ UNCHANGED payJar
    /\ Goto(t, DetailView(task.order))
    /\ UNCHANGED <<backend, session, handledPayId, click>>

\* detail(...) of a handled item (state 100): a purchase shares the cookie poId
\* with the waiting page, and auditId and state are left as they are.
OpenHandled(t, order) ==
    /\ view[t] = "list" /\ Handled(order)
    /\ IF order \in PayOrders
       THEN handledPayId' = order /\ UNCHANGED <<purchaseJar, renewed>>
       ELSE /\ purchaseJar' = [purchaseJar EXCEPT !.order = order]
            /\ renewed' = TRUE
            /\ UNCHANGED handledPayId
    /\ Goto(t, HandledView(order))
    /\ UNCHANGED <<backend, session, payJar, click>>

-------------------------------------------------------------------------------
(* The detail pages.                                                         *)

PageOrder(v) == CASE v = "pay" -> payJar.order
                  [] v = "handledPay" -> handledPayId
                  [] OTHER -> purchaseJar.order

\* mounted(): asks for the order the cookie names.  Until its answer is there
\* (or when it never comes) the page is blank.
Mount(t) ==
    /\ view[t] # "list" /\ shown[t] = None
    /\ shown' = [shown EXCEPT ![t] = PageOrder(view[t])]
    /\ UNCHANGED <<backend, session, jars, view, items, click>>

Back(t) ==
    /\ view[t] # "list"
    /\ Goto(t, "list")
    /\ click' = Left(t)
    /\ UNCHANGED <<backend, session, jars>>

\* Mutated form: the order id from the cookie of the handled page.
Body_handledId(t, operation) ==
    [order |-> handledPayId, task |-> payJar.task,
     state |-> IF operation = Agree THEN payJar.state ELSE None,
     poType |-> Pay, operation |-> operation]

\* verifyPass() / verifyRefuse(): the cookies are read now.
Body(t, operation) ==
    LET jar == IF view[t] = "pay" THEN payJar ELSE purchaseJar
    IN  [order |-> jar.order,
         task |-> jar.task,
         state |-> IF operation = Agree THEN jar.state ELSE None,
         poType |-> IF view[t] = "pay" THEN Pay ELSE Purchase,
         operation |-> operation]

IsNext(c) == \A d \in Clicks : d < c <=> click[d].server # "idle"

\* Nothing disables the buttons while a request is under way.
Press(t, operation) ==
    /\ view[t] \in {"pay", "purchase"}
    /\ \E c \in Clicks :
        /\ IsNext(c)
        /\ click' = [click EXCEPT ![c] =
                        [server |-> "sent", page |-> "waiting", tab |-> t,
                         shown |-> shown[t], body |-> Body(t, operation),
                         endpoint |-> None, decided |-> None]]
    /\ UNCHANGED <<backend, session, jars, pages>>

verifyPass(t) == Press(t, Agree)
verifyRefuse(t) == Press(t, Refuse)

\* Mutated forms: the answer comes before the back end's, or only on success.
PageClosed_early(c) ==
    /\ click[c].server \in {"posted", "answered"} /\ click[c].page = "waiting"
    /\ Goto(click[c].tab, "list")
    /\ click' = [Left(click[c].tab) EXCEPT ![c].page = "closed"]
    /\ UNCHANGED <<backend, session, jars>>
PageClosed_onSuccess(c) ==
    /\ click[c].decided # None /\ click[c].page = "waiting"
    /\ Goto(click[c].tab, "list")
    /\ click' = [Left(click[c].tab) EXCEPT ![c].page = "closed"]
    /\ UNCHANGED <<backend, session, jars>>

\* Any answer of status 2xx takes the page back to the list.
PageClosed(c) ==
    /\ click[c].server = "answered" /\ click[c].page = "waiting"
    /\ Goto(click[c].tab, "list")
    /\ click' = [Left(click[c].tab) EXCEPT ![c].page = "closed"]
    /\ UNCHANGED <<backend, session, jars>>

\* An error status (405), a lost request or a lost answer: the page says so and
\* stays, its buttons as before.
PageError(c) ==
    /\ click[c].page = "waiting"
    /\ click[c].server = "refused" \/ "transport" \in Environment
    /\ click' = [click EXCEPT ![c].page = "error"]
    /\ UNCHANGED <<backend, session, jars, pages>>

LoseRequest(c) ==
    /\ "transport" \in Environment /\ click[c].server = "sent"
    /\ click' = [click EXCEPT ![c].server = "lost",
                              ![c].page = IF @ = "waiting" THEN "error" ELSE @]
    /\ UNCHANGED <<backend, session, jars, pages>>

-------------------------------------------------------------------------------
(* The server: verify/pass.                                                  *)

\* verify/pass takes POST only; the pay page sends its refusal with GET.
IsGet(body) == body.poType = Pay /\ body.operation = Refuse

\* Mutated form: by the state the order is in now, not the one posted.
Endpoint_currentState(body) ==
    IF body.operation = Agree /\ body.order # None /\ IsOpen(body.order)
    THEN verify(Code(CurrentTask(body.order)), body.poType)
    ELSE unPass(body.poType)

Endpoint(body) == IF body.operation = Agree THEN verify(body.state, body.poType)
                                            ELSE unPass(body.poType)

MethodNotAllowed(c) ==
    /\ click[c].server = "sent" /\ IsGet(click[c].body)
    /\ click' = [click EXCEPT ![c].server = "refused"]
    /\ UNCHANGED <<backend, session, jars, pages>>

\* Mutated form: no answer where there is no session.
AnswerWithoutPosting_withSession(c) ==
    /\ click[c].server = "sent" /\ ~IsGet(click[c].body)
    /\ session /\ Endpoint(click[c].body) = None
    /\ click' = [click EXCEPT ![c].server = "answered"]
    /\ UNCHANGED <<backend, session, jars, pages>>

\* No session, no status, or no end point for it: success, nothing posted.
AnswerWithoutPosting(c) ==
    /\ click[c].server = "sent" /\ ~IsGet(click[c].body)
    /\ ~session \/ Endpoint(click[c].body) = None
    /\ click' = [click EXCEPT ![c].server = "answered"]
    /\ UNCHANGED <<backend, session, jars, pages>>

PostToBackend(c) ==
    /\ click[c].server = "sent" /\ ~IsGet(click[c].body)
    /\ session /\ Endpoint(click[c].body) # None
    /\ click' = [click EXCEPT ![c].server = "posted", ![c].endpoint = Endpoint(click[c].body)]
    /\ UNCHANGED <<backend, session, jars, pages>>

\* The back end decides the task and the handler answers success.
Decide(c) ==
    /\ click[c].server = "posted"
    /\ \E task \in Targets(click[c].body, click[c].endpoint) :
        /\ IF click[c].body.operation = Agree
           THEN /\ decidedNodes' = [decidedNodes EXCEPT ![task.order] = @ + 1]
                /\ UNCHANGED rejected
           ELSE /\ rejected' = rejected \cup {task.order}
                /\ UNCHANGED decidedNodes
        /\ click' = [click EXCEPT ![c].server = "answered", ![c].decided = task]
    /\ UNCHANGED <<session, jars, pages>>

\* It declines (a message the page ignores) or fails (an exception the handler
\* swallows): the handler answers success.  Assumed of scfs: a post that ended
\* in an exception (a reset connection, a gateway's 502 or 504) does not take
\* effect after it.
Decline(c) ==
    /\ click[c].server = "posted"
    /\ \/ Targets(click[c].body, click[c].endpoint) = {}
       \/ "backend" \in Environment
    /\ click' = [click EXCEPT ![c].server = "answered"]
    /\ UNCHANGED <<backend, session, jars, pages>>

-------------------------------------------------------------------------------
(* Outside events.                                                           *)

Colleague(order) ==
    /\ IsOpen(order)
    /\ \/ /\ "agreement" \in Environment
          /\ decidedNodes' = [decidedNodes EXCEPT ![order] = @ + 1]
          /\ UNCHANGED rejected
       \/ /\ "refusal" \in Environment
          /\ rejected' = rejected \cup {order}
          /\ UNCHANGED decidedNodes
    /\ UNCHANGED <<session, jars, pages, click>>

\* The token runs out in Redis; a later login binds a new one.
SessionChange ==
    /\ "session" \in Environment
    /\ session' = ~session
    /\ UNCHANGED <<backend, jars, pages, click>>

\* Cookies written together run out together; poId written later stays.
PurchaseCookiesExpire ==
    /\ "expiry" \in Environment /\ purchaseJar # NoCookies
    /\ purchaseJar' = IF renewed THEN [NoCookies EXCEPT !.order = purchaseJar.order]
                                 ELSE NoCookies
    /\ renewed' = FALSE
    /\ UNCHANGED <<backend, session, payJar, handledPayId, pages, click>>

-------------------------------------------------------------------------------
NoBody == [order |-> None, task |-> None, state |-> None, poType |-> Pay, operation |-> Agree]
NoClick == [server |-> "idle", page |-> "none", tab |-> None, shown |-> None,
            body |-> NoBody, endpoint |-> None, decided |-> None]

Init == /\ decidedNodes = [o \in Orders |-> 0]
        /\ rejected = {}
        /\ session = TRUE
        /\ payJar = NoCookies /\ purchaseJar = NoCookies
        /\ renewed = FALSE
        /\ handledPayId = None
        /\ view = [t \in Tabs |-> "list"]
        /\ items = [t \in Tabs |-> {}]
        /\ shown = [t \in Tabs |-> None]
        /\ click = [c \in Clicks |-> NoClick]

PageStep(t) == \/ LoadList(t)
               \/ \E task \in items[t] : OpenWaiting(t, task)
               \/ \E o \in Orders : OpenHandled(t, o)
               \/ Mount(t) \/ Back(t) \/ verifyPass(t) \/ verifyRefuse(t)

ServerStep(c) == \/ MethodNotAllowed(c) \/ AnswerWithoutPosting(c) \/ PostToBackend(c)
                 \/ Decide(c) \/ Decline(c)

AnswerStep(c) == PageClosed(c) \/ PageError(c)

OutsideStep == \/ \E o \in Orders : Colleague(o)
               \/ \E c \in Clicks : LoseRequest(c)
               \/ SessionChange
               \/ PurchaseCookiesExpire

Next == \/ \E t \in Tabs : PageStep(t)
        \/ \E c \in Clicks : ServerStep(c) \/ AnswerStep(c)
        \/ OutsideStep

Spec == Init /\ [][Next]_vars

\* A request that arrived is handled, the back end answers a post, and an
\* answer or an error reaches the page that waits for it.
FairSpec == Spec /\ \A c \in Clicks : WF_vars(ServerStep(c)) /\ WF_vars(AnswerStep(c))
===============================================================================
