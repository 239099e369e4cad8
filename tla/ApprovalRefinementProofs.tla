------------------------ MODULE ApprovalRefinementProofs ------------------------
(***************************************************************************)
(* What a decision is about, from the page that shows an order, over the   *)
(* cookies and the body, to the task it takes effect on; that it does so   *)
(* once; and that Approval implements Decisions.  For every number of      *)
(* orders and presses, every flow and every environment.                   *)
(***************************************************************************)
EXTENDS ApprovalRefinement, ApprovalProofs

-------------------------------------------------------------------------------
(* Hypotheses: what has to hold of an installation.                          *)

\* The browser has one live page.
OnePage == \A t, u \in Tabs : t = u

\* The cookies of purchases have one writer at a time, or none at all.
CookiesAreOwn == OnePage \/ PurchaseOrders = {}

\* No flow passes a node twice.
NodesDiffer == \A o \in Orders : \A i, j \in 1 .. Len(Flow[o]) : Flow[o][i] = Flow[o][j] => i = j

-------------------------------------------------------------------------------
(* The parts of the inductive invariants.                                    *)

\* A purchase page reads cookies of one order.
PurchaseJarCoherent == \A t \in Tabs : view[t] = "purchase" => Coherent(purchaseJar)

\* What was posted is about one order.
BodiesCoherent == \A c \in Clicks : click[c].server # "idle" => Coherent(click[c].body)

\* The cookies a page would post name the order it shows, or have run out.
PagesShowTheirJar == \A t \in Tabs : shown[t] # None =>
    /\ view[t] = "pay" => payJar.order = shown[t]
    /\ view[t] = "purchase" => purchaseJar.order \in {shown[t], None}

\* So do the bodies.
BodiesAreShown == \A c \in Clicks :
    click[c].shown # None => click[c].body.order \in {click[c].shown, None}

\* A request that is not made yet is blank; only an answered one took effect.
RequestPhases == \A c \in Clicks : /\ click[c].server = "idle" => click[c] = NoClick
                                   /\ Applied(c) => click[c].server = "answered"

\* A decision took effect on a task its end point and its body meant ...
DecidedAsPosted == \A c \in Clicks : Applied(c) =>
    /\ click[c].decided.order = click[c].body.order
    /\ click[c].body.operation = Agree => Code(click[c].decided) = Endpoint(click[c].body).node

\* ... and that task is over.
DecidedIsOver == \A c \in Clicks : Applied(c) =>
    LET t == click[c].decided
    IN  IF click[c].body.operation = Agree THEN t.at <= decidedNodes[t.order]
                                           ELSE t.order \in rejected
TaskDecidedOnce == \A c, d \in Clicks :
    c # d /\ Applied(c) /\ Applied(d) => click[c].decided # click[d].decided

-------------------------------------------------------------------------------
(* The pages and their cookies.                                              *)

\* A step that leaves the cookies alone, and the pages as they are or blank.
PagesKept == /\ UNCHANGED jars
             /\ \A t \in Tabs : /\ view'[t] \in {view[t], "list"}
                                /\ shown'[t] \in {shown[t], None}

(* Only opening an order, its answer and time are not of that kind.          *)
LEMMA PageSteps ==
    ASSUME TypeOK, [Next]_vars
    PROVE  \/ \E t \in Tabs : \E task \in items[t] : OpenWaiting(t, task)
           \/ \E t \in Tabs, o \in Orders : OpenHandled(t, o)
           \/ \E t \in Tabs : Mount(t)
           \/ PurchaseCookiesExpire
           \/ PagesKept
<1>1. ASSUME NEW t, Goto(t, "list"), UNCHANGED jars
      PROVE  PagesKept
  BY <1>1 DEF Goto, PagesKept, TypeOK
<1>2. ASSUME UNCHANGED <<jars, view, shown>>
      PROVE  PagesKept
  BY <1>2 DEF PagesKept
<1>3. ASSUME NEW t \in Tabs, LoadList(t) \/ Back(t) \/ verifyPass(t) \/ verifyRefuse(t)
      PROVE  PagesKept
  BY <1>1, <1>2, <1>3 DEF LoadList, Back, verifyPass, verifyRefuse, Press, pages
<1>4. ASSUME NEW c \in Clicks, ServerStep(c)
      PROVE  PagesKept
  BY <1>2, <1>4 DEF ServerStep, MethodNotAllowed, AnswerWithoutPosting, PostToBackend,
                    Decide, Decline, pages
<1>5. ASSUME NEW c \in Clicks, AnswerStep(c)
      PROVE  PagesKept
  BY <1>1, <1>2, <1>5 DEF AnswerStep, PageClosed, PageError, pages
<1>6. CASE UNCHANGED vars
  BY <1>2, <1>6 DEF vars, pages
<1>7. ASSUME OutsideStep, ~ PurchaseCookiesExpire
      PROVE  PagesKept
  BY <1>2, <1>7 DEF OutsideStep, Colleague, LoseRequest, SessionChange, pages
<1> QED
  BY <1>3, <1>4, <1>5, <1>6, <1>7 DEF Next, PageStep

(* What a list page writes is about one order.                               *)
LEMMA CookiesOfCoherent ==
    ASSUME NEW task
    PROVE  Coherent(CookiesOf(task))
BY DEF CookiesOf, Coherent

LEMMA ExpiredJar ==
    ASSUME TypeOK, PurchaseCookiesExpire
    PROVE  /\ Coherent(purchaseJar') /\ purchaseJar'.task = None
           /\ purchaseJar'.order \in {purchaseJar.order, None}
           /\ UNCHANGED <<payJar, view, shown>>
BY DEF PurchaseCookiesExpire, NoCookies, Coherent, TypeOK, Cookies, pages

LEMMA PurchaseJarStep ==
    ASSUME CookiesAreOwn, TypeOK, PurchaseJarCoherent, [Next]_vars
    PROVE  PurchaseJarCoherent'
<1>1. ASSUME NEW t \in Tabs, NEW task \in items[t], OpenWaiting(t, task)
      PROVE  PurchaseJarCoherent'
  <2>1. CASE task.order \in PayOrders
    <3>1. purchaseJar' = purchaseJar /\ view' = [view EXCEPT ![t] = "pay"]
      BY <1>1, <2>1 DEF OpenWaiting, Goto, DetailView
    <3> QED
      BY <3>1 DEF PurchaseJarCoherent, TypeOK, Coherent
  <2>2. CASE task.order \notin PayOrders
    <3>1. purchaseJar' = CookiesOf(task)
      BY <1>1, <2>2 DEF OpenWaiting
    <3>2. Coherent(purchaseJar')
      BY <3>1, CookiesOfCoherent
    <3> QED
      BY <3>2 DEF PurchaseJarCoherent, Coherent
  <2> QED
    BY <2>1, <2>2
<1>2. ASSUME NEW t \in Tabs, NEW o \in Orders, OpenHandled(t, o)
      PROVE  PurchaseJarCoherent'
  <2>1. view' = [view EXCEPT ![t] = HandledView(o)] /\ HandledView(o) # "purchase"
    BY <1>2 DEF OpenHandled, Goto, HandledView
  <2>2. CASE OnePage
    <3>1. \A u \in Tabs : view'[u] # "purchase"
      BY <2>1, <2>2 DEF OnePage, TypeOK
    <3> QED
      BY <3>1 DEF PurchaseJarCoherent
  <2>3. CASE PurchaseOrders = {}
    <3>1. purchaseJar' = purchaseJar
      BY <1>2, <2>3 DEF OpenHandled, Orders
    <3> QED
      BY <2>1, <3>1 DEF PurchaseJarCoherent, TypeOK, Coherent
  <2> QED
    BY <2>2, <2>3 DEF CookiesAreOwn
<1>3. ASSUME NEW t \in Tabs, Mount(t)
      PROVE  PurchaseJarCoherent'
  BY <1>3 DEF Mount, jars, PurchaseJarCoherent, Coherent
<1>4. CASE PurchaseCookiesExpire
  BY <1>4, ExpiredJar DEF PurchaseJarCoherent, Coherent
<1>5. CASE PagesKept
  BY <1>5 DEF PagesKept, jars, PurchaseJarCoherent, Coherent
<1> QED
  BY <1>1, <1>2, <1>3, <1>4, <1>5, PageSteps

LEMMA PagesShowTheirJarStep ==
    ASSUME OnePage, TypeOK, PagesShowTheirJar, [Next]_vars
    PROVE  PagesShowTheirJar'
<1>1. ASSUME NEW t \in Tabs, NEW v, Goto(t, v)
      PROVE  PagesShowTheirJar'
  <2>1. \A u \in Tabs : shown'[u] = None
    BY <1>1 DEF Goto, OnePage, TypeOK
  <2> QED
    BY <2>1 DEF PagesShowTheirJar
<1>2. ASSUME NEW t \in Tabs, NEW task \in items[t], OpenWaiting(t, task)
      PROVE  PagesShowTheirJar'
  BY <1>1, <1>2 DEF OpenWaiting
<1>3. ASSUME NEW t \in Tabs, NEW o \in Orders, OpenHandled(t, o)
      PROVE  PagesShowTheirJar'
  BY <1>1, <1>3 DEF OpenHandled
<1>4. ASSUME NEW t \in Tabs, Mount(t)
      PROVE  PagesShowTheirJar'
  <2>1. /\ shown'[t] = PageOrder(view[t])
        /\ UNCHANGED <<payJar, purchaseJar, view>>
    BY <1>4 DEF Mount, jars, TypeOK
  <2>2. \A u \in Tabs : u = t
    BY DEF OnePage
  <2> QED
    BY <2>1, <2>2 DEF PagesShowTheirJar, PageOrder
<1>5. CASE PurchaseCookiesExpire
  BY <1>5, ExpiredJar DEF PagesShowTheirJar
<1>6. CASE PagesKept
  BY <1>6 DEF PagesKept, jars, PagesShowTheirJar
<1> QED
  BY <1>2, <1>3, <1>4, <1>5, <1>6, PageSteps

-------------------------------------------------------------------------------
(* The bodies.                                                               *)

(* A page posts what its cookies say at the press.                           *)
LEMMA PressedBody ==
    ASSUME NEW t \in Tabs, NEW operation \in {Agree, Refuse}, Press(t, operation),
           PayInv, PurchaseJarCoherent
    PROVE  Coherent(Body(t, operation))
BY DEF Press, Body, PayInv, PurchaseJarCoherent, Coherent

LEMMA BodiesCoherentStep ==
    ASSUME TypeOK, PayInv, PurchaseJarCoherent, BodiesCoherent, [Next]_vars
    PROVE  BodiesCoherent'
<1>1. CASE UNCHANGED vars
  BY <1>1 DEF vars, BodiesCoherent, Coherent
<1>2. ASSUME NEW t \in Tabs, NEW operation \in {Agree, Refuse}, Press(t, operation)
      PROVE  BodiesCoherent'
  <2>1. PICK c \in Clicks : /\ click'[c].body = Body(t, operation)
                            /\ \A d \in Clicks \ {c} : click'[d] = click[d]
    BY <1>2, PressEffect
  <2>2. Coherent(Body(t, operation))
    BY <1>2, PressedBody
  <2> QED
    BY <2>1, <2>2 DEF BodiesCoherent, Coherent
<1>3. ASSUME NEW c \in Clicks, PostToBackend(c) \/ Decide(c)
      PROVE  BodiesCoherent'
  <2>1. click[c].server # "idle"
    BY <1>3 DEF PostToBackend, Decide
  <2>2. \A d \in Clicks : /\ click'[d].body = click[d].body
                          /\ click'[d].server # "idle" => click[d].server # "idle"
    BY <1>3, <2>1, PostEffect, DecideEffect
  <2> QED
    BY <2>2 DEF BodiesCoherent, Coherent
<1>4. CASE \A c \in Clicks : Kept(c)
  BY <1>4 DEF Kept, BodiesCoherent, Coherent
<1> QED
  BY <1>1, <1>2, <1>3, <1>4, RequestSteps

LEMMA BodiesAreShownStep ==
    ASSUME TypeOK, PagesShowTheirJar, BodiesAreShown, [Next]_vars
    PROVE  BodiesAreShown'
<1>1. CASE UNCHANGED vars
  BY <1>1 DEF vars, BodiesAreShown
<1>2. ASSUME NEW t \in Tabs, NEW operation \in {Agree, Refuse}, Press(t, operation)
      PROVE  BodiesAreShown'
  <2>1. PICK c \in Clicks : /\ click'[c].body = Body(t, operation) /\ click'[c].shown = shown[t]
                            /\ \A d \in Clicks \ {c} : click'[d] = click[d]
    BY <1>2, PressEffect
  <2>2. shown[t] # None => Body(t, operation).order \in {shown[t], None}
    BY <1>2 DEF Press, Body, PagesShowTheirJar
  <2> QED
    BY <2>1, <2>2 DEF BodiesAreShown
<1>3. ASSUME NEW c \in Clicks, PostToBackend(c) \/ Decide(c)
      PROVE  BodiesAreShown'
  BY <1>3, PostEffect, DecideEffect DEF BodiesAreShown
<1>4. CASE \A c \in Clicks : Kept(c)
  BY <1>4 DEF Kept, BodiesAreShown
<1> QED
  BY <1>1, <1>2, <1>3, <1>4, RequestSteps

-------------------------------------------------------------------------------
(* The decisions.                                                            *)

LEMMA RequestPhasesStep ==
    ASSUME TypeOK, RequestPhases, [Next]_vars
    PROVE  RequestPhases'
<1>1. CASE UNCHANGED vars
  BY <1>1 DEF vars, RequestPhases, Applied
<1>2. ASSUME NEW t \in Tabs, NEW operation \in {Agree, Refuse}, Press(t, operation)
      PROVE  RequestPhases'
  <2>1. PICK c \in Clicks : /\ click'[c].server = "sent" /\ click'[c].decided = None
                            /\ \A d \in Clicks \ {c} : click'[d] = click[d]
    BY <1>2, PressEffect
  <2> QED
    BY <2>1 DEF RequestPhases, Applied
<1>3. ASSUME NEW c \in Clicks, PostToBackend(c)
      PROVE  RequestPhases'
  <2>1. click[c].server = "sent"
    BY <1>3 DEF PostToBackend
  <2> QED
    BY <1>3, <2>1, PostEffect DEF RequestPhases, Applied
<1>4. ASSUME NEW c \in Clicks, Decide(c)
      PROVE  RequestPhases'
  BY <1>4, DecideEffect DEF RequestPhases, Applied
<1>5. CASE \A c \in Clicks : Kept(c)
  <2>1. \A c \in Clicks : click'[c].server = "idle" => click'[c] = NoClick
    BY <1>5 DEF Kept, RequestPhases
  <2>2. \A c \in Clicks : Applied(c)' => click'[c].server = "answered"
    BY <1>5 DEF Kept, RequestPhases, Applied
  <2> QED
    BY <2>1, <2>2 DEF RequestPhases
<1> QED
  BY <1>1, <1>2, <1>3, <1>4, <1>5, RequestSteps

(* What a decision that takes effect does to the orders.                     *)
LEMMA DecideProgress ==
    ASSUME TypeOK, NEW c \in Clicks, Decide(c)
    PROVE  LET t == click'[c].decided
           IN  /\ t \in Tasks /\ IsOpen(t.order) /\ t = CurrentTask(t.order)
               /\ t \in Targets(click[c].body, click[c].endpoint)
               /\ IF click[c].body.operation = Agree
                  THEN /\ decidedNodes' = [decidedNodes EXCEPT ![t.order] = @ + 1]
                       /\ UNCHANGED rejected
                  ELSE /\ rejected' = rejected \cup {t.order}
                       /\ UNCHANGED decidedNodes
<1>1. PICK task \in Targets(click[c].body, click[c].endpoint) :
        /\ IF click[c].body.operation = Agree
           THEN /\ decidedNodes' = [decidedNodes EXCEPT ![task.order] = @ + 1]
                /\ UNCHANGED rejected
           ELSE /\ rejected' = rejected \cup {task.order}
                /\ UNCHANGED decidedNodes
        /\ click' = [click EXCEPT ![c].server = "answered", ![c].decided = task]
  BY DEF Decide
<1>2. click'[c].decided = task
  BY <1>1 DEF TypeOK, ClickType
<1>3. PICK o \in Orders : IsOpen(o) /\ task = CurrentTask(o)
  BY DEF Targets, WaitingItems
<1>4. task.order = o /\ task \in Tasks
  BY <1>3, CurrentTaskType DEF CurrentTask
<1> QED
  BY <1>1, <1>2, <1>3, <1>4

(* Orders only move on.                                                      *)
LEMMA Progress ==
    ASSUME TypeOK, [Next]_vars
    PROVE  /\ \A o \in Orders : decidedNodes[o] <= decidedNodes'[o]
           /\ rejected \subseteq rejected'
<1>0. decidedNodes \in [Orders -> Nat]
  BY DEF TypeOK
<1>1. CASE UNCHANGED backend
  BY <1>0, <1>1 DEF backend
<1>2. ASSUME NEW c \in Clicks, Decide(c)
      PROVE  /\ \A o \in Orders : decidedNodes[o] <= decidedNodes'[o]
             /\ rejected \subseteq rejected'
  BY <1>0, <1>2, DecideProgress, TaskFacts
<1>3. ASSUME NEW o \in Orders, Colleague(o)
      PROVE  /\ \A p \in Orders : decidedNodes[p] <= decidedNodes'[p]
             /\ rejected \subseteq rejected'
  BY <1>0, <1>3 DEF Colleague
<1> QED
  BY <1>1, <1>2, <1>3
     DEF Next, vars, PageStep, LoadList, OpenWaiting, OpenHandled, Mount, Back, verifyPass,
         verifyRefuse, Press, ServerStep, MethodNotAllowed, AnswerWithoutPosting, PostToBackend,
         Decline, AnswerStep, PageClosed, PageError, OutsideStep, LoseRequest, SessionChange,
         PurchaseCookiesExpire

LEMMA DecidedIsOverStep ==
    ASSUME TypeOK, RequestPhases, DecidedIsOver, [Next]_vars
    PROVE  DecidedIsOver'
<1> DEFINE Over(b, t) == IF b.operation = Agree THEN t.at <= decidedNodes[t.order]
                                                ELSE t.order \in rejected
           OverNext(b, t) == IF b.operation = Agree THEN t.at <= decidedNodes'[t.order]
                                                    ELSE t.order \in rejected'
<1>0. \A c \in Clicks : Applied(c) => click[c].decided \in Tasks
  BY DEF TypeOK, ClickType, Applied
<1>1. ASSUME NEW c \in Clicks, Applied(c)
      PROVE  OverNext(click[c].body, click[c].decided)
  <2> DEFINE t == click[c].decided
  <2>1. t.order \in Orders /\ t.at \in Nat
    BY <1>0, <1>1, TaskFacts
  <2>2. decidedNodes[t.order] \in Nat /\ decidedNodes'[t.order] \in Nat
    BY <2>1, TypePreserved DEF TypeOK
  <2>3. Over(click[c].body, t)
    BY <1>1 DEF DecidedIsOver
  <2>4. decidedNodes[t.order] <= decidedNodes'[t.order] /\ rejected \subseteq rejected'
    BY <2>1, Progress
  <2> HIDE DEF t
  <2> QED
    BY <2>1, <2>2, <2>3, <2>4 DEF t
<1>2. ASSUME \A c \in Clicks : /\ click'[c].decided = click[c].decided
                               /\ Applied(c) => click'[c].body = click[c].body
      PROVE  DecidedIsOver'
  <2>1. ASSUME NEW c \in Clicks, Applied(c)'
        PROVE  OverNext(click'[c].body, click'[c].decided)
    <3>1. Applied(c) /\ click'[c].decided = click[c].decided /\ click'[c].body = click[c].body
      BY <1>2, <2>1 DEF Applied
    <3>2. OverNext(click[c].body, click[c].decided)
      BY <1>1, <3>1
    <3> QED
      BY <3>1, <3>2
  <2> QED
    BY <2>1 DEF DecidedIsOver
<1>3. CASE UNCHANGED vars
  BY <1>2, <1>3 DEF vars
<1>4. ASSUME NEW t \in Tabs, NEW operation \in {Agree, Refuse}, Press(t, operation)
      PROVE  DecidedIsOver'
  <2>1. PICK c \in Clicks : /\ click[c].server = "idle" /\ click'[c].decided = None
                            /\ \A d \in Clicks \ {c} : click'[d] = click[d]
    BY <1>4, PressEffect
  <2>2. ~ Applied(c) /\ click[c].decided = None
    BY <2>1 DEF RequestPhases, Applied
  <2> QED
    BY <1>2, <2>1, <2>2
<1>5. ASSUME NEW c \in Clicks, PostToBackend(c)
      PROVE  DecidedIsOver'
  BY <1>2, <1>5, PostEffect
<1>6. CASE \A c \in Clicks : Kept(c)
  BY <1>2, <1>6 DEF Kept
<1>7. ASSUME NEW c \in Clicks, Decide(c)
      PROVE  DecidedIsOver'
  <2> DEFINE t == click'[c].decided
  <2>1. /\ t \in Tasks /\ IsOpen(t.order) /\ t = CurrentTask(t.order)
        /\ IF click[c].body.operation = Agree
           THEN decidedNodes' = [decidedNodes EXCEPT ![t.order] = @ + 1]
           ELSE rejected' = rejected \cup {t.order}
    BY <1>7, DecideProgress
  <2>2. /\ t.order \in Orders /\ t.at = decidedNodes[t.order] + 1
        /\ decidedNodes[t.order] \in Nat /\ decidedNodes \in [Orders -> Nat]
    BY <2>1, TaskFacts DEF CurrentTask, TypeOK
  <2>3. OverNext(click[c].body, t)
    <3> HIDE DEF t
    <3> QED
      BY <2>1, <2>2
  <2>4. click'[c].body = click[c].body /\ \A d \in Clicks \ {c} : click'[d] = click[d]
    BY <1>7, DecideEffect
  <2> QED
    BY <1>1, <2>3, <2>4 DEF DecidedIsOver, Applied
<1> QED
  BY <1>3, <1>4, <1>5, <1>6, <1>7, RequestSteps

LEMMA TaskDecidedOnceStep ==
    ASSUME TypeOK, RequestPhases, DecidedIsOver, TaskDecidedOnce, [Next]_vars
    PROVE  TaskDecidedOnce'
<1>1. CASE \A c \in Clicks : click'[c].decided = click[c].decided
  BY <1>1 DEF TaskDecidedOnce, Applied
<1>2. ASSUME NEW t \in Tabs, NEW operation \in {Agree, Refuse}, Press(t, operation)
      PROVE  TaskDecidedOnce'
  <2>1. PICK c \in Clicks : /\ click[c].server = "idle" /\ click'[c].decided = None
                            /\ \A d \in Clicks \ {c} : click'[d] = click[d]
    BY <1>2, PressEffect
  <2> QED
    BY <2>1 DEF TaskDecidedOnce, Applied
<1>3. ASSUME NEW c \in Clicks, Decide(c)
      PROVE  TaskDecidedOnce'
  <2> DEFINE t == click'[c].decided
  <2>0. t \in Tasks /\ IsOpen(t.order) /\ t = CurrentTask(t.order)
    BY <1>3, DecideProgress
  <2>1. /\ t.order \in Orders /\ IsOpen(t.order) /\ t.at = decidedNodes[t.order] + 1
        /\ decidedNodes[t.order] \in Nat
    <3> HIDE DEF t
    <3> QED
      BY <2>0, TaskFacts DEF CurrentTask, TypeOK
  <2>2. ASSUME NEW d \in Clicks, Applied(d)
        PROVE  click[d].decided # t
    <3>1. IF click[d].body.operation = Agree
          THEN click[d].decided.at <= decidedNodes[click[d].decided.order]
          ELSE click[d].decided.order \in rejected
      BY <2>2 DEF DecidedIsOver
    <3> HIDE DEF t
    <3> QED
      BY <2>1, <3>1 DEF IsOpen
  <2>3. \A d \in Clicks \ {c} : click'[d] = click[d]
    BY <1>3, DecideEffect
  <2> QED
    BY <2>2, <2>3 DEF TaskDecidedOnce, Applied
<1>4. ASSUME NEW c \in Clicks, PostToBackend(c)
      PROVE  TaskDecidedOnce'
  BY <1>1, <1>4, PostEffect
<1> QED
  BY <1>1, <1>2, <1>3, <1>4, RequestSteps DEF Kept, vars

LEMMA DecidedAsPostedStep ==
    ASSUME TypeOK, PostedWhere, BodiesCoherent, RequestPhases, DecidedAsPosted, [Next]_vars
    PROVE  DecidedAsPosted'
<1>1. ASSUME \A c \in Clicks : click'[c].decided = click[c].decided /\ (Applied(c) => click'[c].body = click[c].body)
      PROVE  DecidedAsPosted'
  BY <1>1 DEF DecidedAsPosted, Applied, Endpoint, Code
<1>2. ASSUME NEW t \in Tabs, NEW operation \in {Agree, Refuse}, Press(t, operation)
      PROVE  DecidedAsPosted'
  <2>1. PICK c \in Clicks : /\ click[c].server = "idle" /\ click'[c].decided = None
                            /\ \A d \in Clicks \ {c} : click'[d] = click[d]
    BY <1>2, PressEffect
  <2> QED
    BY <2>1 DEF DecidedAsPosted, Applied, Endpoint, Code
<1>3. ASSUME NEW c \in Clicks, Decide(c)
      PROVE  DecidedAsPosted'
  <2> DEFINE b == click[c].body
             t == click'[c].decided
  <2>1. t \in Tasks /\ t \in Targets(b, click[c].endpoint)
    BY <1>3, DecideProgress
  <2>2. /\ t.order = b.order \/ t = b.task
        /\ b.operation = Agree => Code(t) = click[c].endpoint.node
    BY <2>1 DEF Targets
  <2>3. Coherent(b) /\ click[c].endpoint = Endpoint(b)
    BY <1>3 DEF Decide, BodiesCoherent, PostedWhere
  <2>4. t.order = b.order
    BY <2>1, <2>2, <2>3, TasksAssumption DEF Coherent
  <2>5. click'[c].body = b /\ \A d \in Clicks \ {c} : click'[d] = click[d]
    BY <1>3, DecideEffect
  <2> QED
    BY <2>2, <2>3, <2>4, <2>5 DEF DecidedAsPosted, Applied, Endpoint, Code
<1>4. ASSUME NEW c \in Clicks, PostToBackend(c)
      PROVE  DecidedAsPosted'
  BY <1>1, <1>4, PostEffect
<1> QED
  BY <1>1, <1>2, <1>3, <1>4, RequestSteps DEF Kept, vars

-------------------------------------------------------------------------------
(* The theorems.                                                             *)

\* What holds of the cookies and the bodies in every state.
CookiesInv == PayInv /\ PurchaseJarCoherent /\ BodiesCoherent

\* What holds of the requests and the tasks they decided.
OnceInv == RequestPhases /\ DecidedIsOver /\ TaskDecidedOnce

LEMMA OnceInvariant == Spec => []OnceInv
<1>1. Init => OnceInv
  BY DEF Init, OnceInv, RequestPhases, DecidedIsOver, TaskDecidedOnce, Applied, NoClick
<1>2. TypeOK /\ OnceInv /\ [Next]_vars => OnceInv'
  BY RequestPhasesStep, DecidedIsOverStep, TaskDecidedOnceStep DEF OnceInv
<1> QED
  BY <1>1, <1>2, TypeInvariant, PTL DEF Spec

LEMMA CookiesInvariant ==
    ASSUME CookiesAreOwn
    PROVE  Spec => []CookiesInv
<1>1. Init => CookiesInv
  BY DEF Init, CookiesInv, PayInv, PayBodyCoherent, PurchaseJarCoherent, BodiesCoherent,
         Coherent, NoCookies, NoClick
<1>2. TypeOK /\ CookiesInv /\ [Next]_vars => CookiesInv'
  BY PayInvStep, PurchaseJarStep, BodiesCoherentStep DEF CookiesInv
<1> QED
  BY <1>1, <1>2, TypeInvariant, PTL DEF Spec

LEMMA DecidedAsPostedInvariant ==
    ASSUME CookiesAreOwn
    PROVE  Spec => []DecidedAsPosted
<1>1. Init => PostedWhere /\ DecidedAsPosted
  BY DEF Init, PostedWhere, DecidedAsPosted, Applied, NoClick
<1>2. TypeOK /\ PostedWhere /\ [Next]_vars => PostedWhere'
  BY PostedWhereStep
<1>3. /\ TypeOK /\ PostedWhere /\ CookiesInv /\ OnceInv /\ DecidedAsPosted
      /\ [Next]_vars
      => DecidedAsPosted'
  BY DecidedAsPostedStep DEF CookiesInv, OnceInv
<1> QED
  BY <1>1, <1>2, <1>3, TypeInvariant, CookiesInvariant, OnceInvariant, PTL DEF Spec

(* In a browser with one live page the decision that takes effect is about   *)
(* the order shown at the press of the button, for every set of orders: the  *)
(* cookies read at the press are those the page was opened with, or gone.    *)
THEOREM DecisionsWereShown ==
    ASSUME OnePage
    PROVE  Spec => []DecisionWasShown
<1> DEFINE ShownInv == PagesShowTheirJar /\ BodiesAreShown
<1>1. Init => ShownInv
  BY DEF Init, PagesShowTheirJar, BodiesAreShown, NoClick
<1>2. TypeOK /\ ShownInv /\ [Next]_vars => ShownInv'
  BY PagesShowTheirJarStep, BodiesAreShownStep
<1>3. TypeOK /\ ShownInv /\ DecidedAsPosted => DecisionWasShown
  <2> SUFFICES ASSUME TypeOK, ShownInv, DecidedAsPosted,
                      NEW c \in Clicks, Applied(c), click[c].shown # None
               PROVE  click[c].decided.order = click[c].shown
    BY DEF DecisionWasShown
  <2>1. click[c].decided.order \in Orders
    BY TaskFacts DEF TypeOK, ClickType, Applied
  <2>2. /\ click[c].decided.order = click[c].body.order
        /\ click[c].body.order \in {click[c].shown, None}
    BY DEF DecidedAsPosted, BodiesAreShown
  <2> QED
    BY <2>1, <2>2, OrdersAssumption
<1>4. CookiesAreOwn
  BY DEF CookiesAreOwn
<1> HIDE DEF ShownInv
<1> QED
  BY <1>1, <1>2, <1>3, <1>4, TypeInvariant, DecidedAsPostedInvariant, PTL DEF Spec

(* Where no flow passes a node twice, the same approval posted again and     *)
(* again takes effect once.                                                  *)
THEOREM SameApprovalsCountOnce ==
    ASSUME NodesDiffer, CookiesAreOwn
    PROVE  Spec => []SameApprovalCountsOnce
<1>1. TypeOK /\ DecidedAsPosted /\ OnceInv => SameApprovalCountsOnce
  <2> SUFFICES ASSUME TypeOK, DecidedAsPosted, TaskDecidedOnce, NEW c \in Clicks, NEW d \in Clicks,
                      c # d, click[c].body = click[d].body, click[c].body.operation = Agree,
                      Applied(c), Applied(d)
               PROVE  FALSE
    BY DEF SameApprovalCountsOnce, OnceInv
  <2> DEFINE t == click[c].decided
             u == click[d].decided
  <2>1. t \in Tasks /\ u \in Tasks
    BY DEF TypeOK, ClickType, Applied
  <2>2. t.order = u.order /\ Code(t) = Code(u)
    BY DEF DecidedAsPosted
  <2>3. /\ t.order \in Orders /\ t.at \in 1 .. Len(Flow[t.order]) /\ t = [order |-> t.order, at |-> t.at]
        /\ u.at \in 1 .. Len(Flow[u.order]) /\ u = [order |-> u.order, at |-> u.at]
    BY <2>1, TaskFacts
  <2>4. t # u
    BY DEF TaskDecidedOnce
  <2> HIDE DEF t, u
  <2> QED
    BY <2>2, <2>3, <2>4 DEF NodesDiffer, Code
<1> QED
  BY <1>1, TypeInvariant, DecidedAsPostedInvariant, OnceInvariant, PTL

-------------------------------------------------------------------------------
(* Approval implements Decisions, step by step.                              *)

\* A refusal names no node.
RefusalsNameNoNode == \A c \in Clicks :
    click[c].body.operation # Agree => click[c].body.state = None

\* All that a step needs to know of the state before it and after it.
RefineInv == /\ TypeOK /\ RequestPhases /\ PostedWhere
             /\ RefusalsNameNoNode /\ DecidedAsPosted /\ AgreedAtPostedNode

LEMMA RefusalsNameNoNodeStep ==
    ASSUME TypeOK, RefusalsNameNoNode, [Next]_vars
    PROVE  RefusalsNameNoNode'
<1>1. CASE \A c \in Clicks : click'[c].body = click[c].body
  BY <1>1 DEF RefusalsNameNoNode
<1>2. ASSUME NEW t \in Tabs, NEW operation \in {Agree, Refuse}, Press(t, operation)
      PROVE  RefusalsNameNoNode'
  <2>1. PICK c \in Clicks : /\ click'[c].body = Body(t, operation)
                            /\ \A d \in Clicks \ {c} : click'[d] = click[d]
    BY <1>2, PressEffect
  <2>2. Body(t, operation).operation # Agree => Body(t, operation).state = None
    BY DEF Body
  <2> QED
    BY <2>1, <2>2 DEF RefusalsNameNoNode
<1> QED
  BY <1>1, <1>2, PostEffect, DecideEffect, RequestSteps DEF Kept, vars

(* What a request says, as a decision.                                       *)
AsDecision(c) == [status |-> Status(c), order |-> click[c].body.order, node |-> click[c].body.state]

\* Request c says the same before and after the step.
SaysTheSame(c) == /\ click'[c].body = click[c].body
                  /\ Status(c)' = Status(c)

LEMMA Undisturbed ==
    ASSUME \A c \in Clicks : SaysTheSame(c)
    PROVE  decisionOf' = decisionOf
BY DEF SaysTheSame, decisionOf

LEMMA OneDisturbed ==
    ASSUME NEW c \in Clicks, \A d \in Clicks \ {c} : SaysTheSame(d)
    PROVE  decisionOf' = [decisionOf EXCEPT ![c] = AsDecision(c)']
BY DEF SaysTheSame, decisionOf, AsDecision

(* A request that ends without effect.                                       *)
LEMMA EndsWithoutEffect ==
    ASSUME RefineInv, NEW c \in Clicks, NEW s \in {"answered", "refused", "lost"},
           click[c].server \in {"sent", "posted"}, click'[c].server = s,
           click'[c].body = click[c].body, click'[c].decided = click[c].decided,
           \A d \in Clicks \ {c} : click'[d] = click[d],
           UNCHANGED backend
    PROVE  D!ComeToNothing(c)
<1>1. Status(c) = "made" /\ click[c].decided = None
  BY DEF RefineInv, RequestPhases, Status, Applied
<1>2. Status(c)' = "void"
  BY <1>1 DEF Status, Applied
<1>3. decisionOf' = [decisionOf EXCEPT ![c] = AsDecision(c)']
  BY OneDisturbed DEF SaysTheSame, Status, Applied
<1>4. AsDecision(c)' = [decisionOf[c] EXCEPT !.status = "void"]
  BY <1>2 DEF AsDecision, decisionOf
<1>5. decisionOf[c].status = "made"
  BY <1>1 DEF decisionOf
<1> QED
  BY <1>3, <1>4, <1>5 DEF D!ComeToNothing, backend

(* A press makes a decision.                                                 *)
LEMMA PressMakes ==
    ASSUME RefineInv, NEW t \in Tabs, NEW operation \in {Agree, Refuse}, Press(t, operation)
    PROVE  \E c \in Clicks : D!Make(c)
<1> DEFINE b == Body(t, operation)
<1>1. PICK c \in Clicks : /\ click'[c].server = "sent" /\ click'[c].body = b
                          /\ click'[c].decided = None /\ click[c].server = "idle"
                          /\ \A d \in Clicks \ {c} : click'[d] = click[d]
  BY PressEffect DEF RefineInv
<1>2. b.order \in Orders \cup {None} /\ b.state \in StatusCodes \cup {None}
  BY BodyType DEF RefineInv, AuditVO
<1>3. click[c] = NoClick
  BY <1>1 DEF RefineInv, RequestPhases
<1>4. decisionOf[c] = D!NotMade
  <2>1. Status(c) = "not made"
    BY <1>1 DEF Status, RefineInv, RequestPhases, Applied
  <2>2. click[c].body = NoBody
    BY <1>3 DEF NoClick
  <2>3. click[c].body.order = None /\ click[c].body.state = None
    BY <2>2 DEF NoBody
  <2>4. decisionOf[c] = [status |-> "not made", order |-> None, node |-> None]
    BY <2>1, <2>3 DEF decisionOf
  <2> QED
    BY <2>4 DEF D!NotMade
<1>5. decisionOf' = [decisionOf EXCEPT ![c] = AsDecision(c)']
  BY <1>1, OneDisturbed DEF SaysTheSame, Status, Applied
<1>6. AsDecision(c)' = [status |-> "made", order |-> b.order, node |-> b.state]
  BY <1>1 DEF AsDecision, Status, Applied
<1>7. UNCHANGED backend
  BY DEF Press
<1>8. D!Make(c)
  BY <1>2, <1>4, <1>5, <1>6, <1>7 DEF D!Make, backend
<1> QED
  BY <1>8

(* A decision takes effect on the order it names, at the node it names.      *)
LEMMA DecideTakesEffect ==
    ASSUME RefineInv, RefineInv', NEW c \in Clicks, Decide(c)
    PROVE  D!TakeEffect(c)
<1> DEFINE b == click[c].body
           t == click'[c].decided
<1>1. /\ t \in Tasks /\ IsOpen(t.order) /\ t = CurrentTask(t.order)
      /\ IF b.operation = Agree
         THEN /\ decidedNodes' = [decidedNodes EXCEPT ![t.order] = @ + 1]
              /\ UNCHANGED rejected
         ELSE /\ rejected' = rejected \cup {t.order}
              /\ UNCHANGED decidedNodes
  BY DecideProgress DEF RefineInv
<1>2. /\ click'[c].body = b /\ click'[c].server = "answered"
      /\ \A d \in Clicks \ {c} : click'[d] = click[d]
  BY DecideEffect DEF RefineInv
<1>3. t # None
  BY <1>1, TasksAssumption
<1>4. /\ t.order = b.order
      /\ b.operation = Agree => Code(t) = b.state
  BY <1>2, <1>3 DEF RefineInv, DecidedAsPosted, AgreedAtPostedNode, Applied, Code
<1>5. Status(c) = "made" /\ Status(c)' = "effective"
  <2>1. click[c].server = "posted" /\ ~Applied(c)
    BY DEF Decide, RefineInv, RequestPhases
  <2>2. click'[c].server = "answered" /\ Applied(c)'
    BY <1>2, <1>3 DEF Applied
  <2>3. Status(c) = "made"
    BY <2>1 DEF Status
  <2>4. Status(c)' = "effective"
    BY <2>2 DEF Status
  <2> QED
    BY <2>3, <2>4
<1>6. decisionOf' = [decisionOf EXCEPT ![c] = AsDecision(c)']
  BY <1>2, OneDisturbed DEF SaysTheSame, Status, Applied
<1>7. AsDecision(c)' = [decisionOf[c] EXCEPT !.status = "effective"]
  BY <1>2, <1>5 DEF AsDecision, decisionOf
<1>8. decisionOf[c] = [status |-> "made", order |-> b.order, node |-> b.state]
  BY <1>5 DEF decisionOf
<1> HIDE DEF t
<1>9. t.order \in Orders /\ t.at = decidedNodes[t.order] + 1
  BY <1>1, TaskFacts DEF CurrentTask
<1>10. D!Open(b.order)
  BY <1>1, <1>4, <1>9 DEF D!Open, IsOpen
<1>11. CASE b.operation = Agree
  <2>1. b.state # None
    BY <1>1, <1>4, <1>11, TaskFacts, FlowAssumption
  <2>2. b.state = Flow[b.order][decidedNodes[b.order] + 1]
    BY <1>4, <1>9, <1>11 DEF Code
  <2>3. D!Pass(b.order)
    BY <1>1, <1>4, <1>11 DEF D!Pass
  <2> QED
    BY <1>6, <1>7, <1>8, <1>10, <2>1, <2>2, <2>3 DEF D!TakeEffect
<1>12. CASE b.operation # Agree
  <2>1. b.state = None
    BY <1>12 DEF RefineInv, RefusalsNameNoNode
  <2>2. D!RefuseOrder(b.order)
    BY <1>1, <1>4, <1>12 DEF D!RefuseOrder
  <2> QED
    BY <1>6, <1>7, <1>8, <1>10, <2>1, <2>2 DEF D!TakeEffect
<1> QED
  BY <1>11, <1>12

(* Nothing else a page does concerns the decisions.                          *)
LEMMA PageStepStutters ==
    ASSUME TypeOK, NEW t \in Tabs, PageStep(t),
           ~ \E operation \in {Agree, Refuse} : Press(t, operation)
    PROVE  UNCHANGED <<backend, decisionOf>>
<1>1. UNCHANGED backend /\ (UNCHANGED click \/ click' = Left(t))
  BY DEF PageStep, LoadList, OpenWaiting, OpenHandled, Mount, Back, verifyPass, verifyRefuse
<1>2. \A c \in Clicks : /\ Left(t)[c].server = click[c].server
                        /\ Left(t)[c].body = click[c].body
                        /\ Left(t)[c].decided = click[c].decided
  BY DEF Left, TypeOK, ClickType
<1>3. \A c \in Clicks : SaysTheSame(c)
  BY <1>1, <1>2 DEF SaysTheSame, Status, Applied
<1> QED
  BY <1>1, <1>3, Undisturbed

LEMMA AnswerStepStutters ==
    ASSUME TypeOK, NEW c \in Clicks, AnswerStep(c)
    PROVE  UNCHANGED <<backend, decisionOf>>
<1> DEFINE L == Left(click[c].tab)
<1>1. UNCHANGED backend /\ (\/ click' = [click EXCEPT ![c].page = "error"]
                            \/ click' = [L EXCEPT ![c].page = "closed"])
  BY DEF AnswerStep, PageClosed, PageError
<1>2. L \in [Clicks -> ClickType]
  BY LeftType
<1>3. \A d \in Clicks : /\ L[d].server = click[d].server
                        /\ L[d].body = click[d].body
                        /\ L[d].decided = click[d].decided
  BY DEF Left, TypeOK, ClickType
<1>4. \A d \in Clicks : /\ click'[d].server = click[d].server
                        /\ click'[d].body = click[d].body
                        /\ click'[d].decided = click[d].decided
  <2>1. CASE click' = [click EXCEPT ![c].page = "error"]
    BY <2>1 DEF TypeOK, ClickType
  <2>2. CASE click' = [L EXCEPT ![c].page = "closed"]
    <3> HIDE DEF L
    <3>1. \A d \in Clicks : /\ click'[d].server = L[d].server
                            /\ click'[d].body = L[d].body
                            /\ click'[d].decided = L[d].decided
      BY <1>2, <2>2 DEF ClickType
    <3> QED
      BY <1>3, <3>1
  <2> QED
    BY <1>1, <2>1, <2>2
<1>5. \A d \in Clicks : SaysTheSame(d)
  BY <1>4 DEF SaysTheSame, Status, Applied
<1> QED
  BY <1>1, <1>5, Undisturbed

(* The handler posts a decision on, has it decided, or drops it.             *)
LEMMA ServerStepConcludes ==
    ASSUME RefineInv, RefineInv', NEW c \in Clicks, ServerStep(c)
    PROVE  D!Conclude(c) \/ UNCHANGED <<backend, decisionOf>>
<1>0. click[c] \in ClickType /\ TypeOK
  BY DEF RefineInv, TypeOK
<1>1. CASE MethodNotAllowed(c)
  <2>1. /\ click[c].server = "sent" /\ click'[c].server = "refused"
        /\ click'[c].body = click[c].body /\ click'[c].decided = click[c].decided
        /\ \A d \in Clicks \ {c} : click'[d] = click[d]
        /\ UNCHANGED backend
    BY <1>0, <1>1 DEF MethodNotAllowed, TypeOK, ClickType
  <2> QED
    BY <2>1, EndsWithoutEffect DEF D!Conclude
<1>2. CASE AnswerWithoutPosting(c) \/ Decline(c)
  <2>1. /\ click[c].server \in {"sent", "posted"} /\ click'[c].server = "answered"
        /\ click'[c].body = click[c].body /\ click'[c].decided = click[c].decided
        /\ \A d \in Clicks \ {c} : click'[d] = click[d]
        /\ UNCHANGED backend
    BY <1>0, <1>2 DEF AnswerWithoutPosting, Decline, TypeOK, ClickType
  <2> QED
    BY <2>1, EndsWithoutEffect DEF D!Conclude
<1>3. CASE PostToBackend(c)
  <2>1. /\ click[c].server = "sent" /\ click'[c].server = "posted"
        /\ click'[c].body = click[c].body /\ click'[c].decided = click[c].decided
        /\ \A d \in Clicks \ {c} : click'[d] = click[d]
        /\ UNCHANGED backend
    BY <1>0, <1>3, PostEffect DEF PostToBackend
  <2>2. ~ Applied(c) /\ ~ Applied(c)'
    BY <2>1 DEF RefineInv, RequestPhases, Applied
  <2>3. Status(c)' = Status(c)
    BY <2>1, <2>2 DEF Status
  <2>4. \A d \in Clicks : SaysTheSame(d)
    BY <2>1, <2>3 DEF SaysTheSame, Status, Applied
  <2> QED
    BY <2>1, <2>4, Undisturbed
<1>4. CASE Decide(c)
  BY <1>4, DecideTakesEffect DEF D!Conclude
<1> QED
  BY <1>1, <1>2, <1>3, <1>4 DEF ServerStep

(* Outside, a colleague decides an order, or a request is lost.              *)
LEMMA OutsideStepElsewhere ==
    ASSUME RefineInv, OutsideStep
    PROVE  \/ \E o \in Orders : D!Elsewhere(o)
           \/ \E c \in Clicks : D!ComeToNothing(c)
           \/ UNCHANGED <<backend, decisionOf>>
<1>1. ASSUME UNCHANGED click
      PROVE  decisionOf' = decisionOf
  BY <1>1, Undisturbed DEF SaysTheSame, Status, Applied
<1>2. ASSUME NEW o \in Orders, Colleague(o)
      PROVE  D!Elsewhere(o)
  BY <1>1, <1>2 DEF Colleague, IsOpen, D!Elsewhere, D!Open, D!Pass, D!RefuseOrder
<1>3. ASSUME NEW c \in Clicks, LoseRequest(c)
      PROVE  D!ComeToNothing(c)
  <2>1. \E p : click' = [click EXCEPT ![c].server = "lost", ![c].page = p]
    BY <1>3 DEF LoseRequest, RefineInv, TypeOK, ClickType
  <2>2. /\ click[c].server = "sent" /\ click'[c].server = "lost"
        /\ click'[c].body = click[c].body /\ click'[c].decided = click[c].decided
        /\ \A d \in Clicks \ {c} : click'[d] = click[d]
        /\ UNCHANGED backend
    BY <1>3, <2>1 DEF LoseRequest, RefineInv, TypeOK, ClickType
  <2> QED
    BY <2>2, EndsWithoutEffect
<1>4. CASE SessionChange \/ PurchaseCookiesExpire
  BY <1>1, <1>4 DEF SessionChange, PurchaseCookiesExpire
<1> QED
  BY <1>2, <1>3, <1>4 DEF OutsideStep

LEMMA StepsImplement ==
    ASSUME RefineInv, RefineInv', [Next]_vars
    PROVE  [D!Next]_(D!vars)
<1>1. ASSUME UNCHANGED <<backend, decisionOf>>
      PROVE  UNCHANGED D!vars
  BY <1>1 DEF backend, D!vars
<1>2. CASE UNCHANGED vars
  <2>1. \A c \in Clicks : SaysTheSame(c)
    BY <1>2 DEF vars, SaysTheSame, Status, Applied
  <2> QED
    BY <1>1, <1>2, <2>1, Undisturbed DEF vars
<1>3. ASSUME NEW t \in Tabs, PageStep(t)
      PROVE  [D!Next]_(D!vars)
  <2>1. CASE \E operation \in {Agree, Refuse} : Press(t, operation)
    BY <2>1, PressMakes DEF D!Next
  <2>2. CASE ~ \E operation \in {Agree, Refuse} : Press(t, operation)
    BY <1>1, <1>3, <2>2, PageStepStutters DEF RefineInv
  <2> QED
    BY <2>1, <2>2
<1>4. ASSUME NEW c \in Clicks, ServerStep(c) \/ AnswerStep(c)
      PROVE  [D!Next]_(D!vars)
  BY <1>1, <1>4, ServerStepConcludes, AnswerStepStutters DEF RefineInv, D!Next
<1>5. CASE OutsideStep
  BY <1>1, <1>5, OutsideStepElsewhere DEF D!Next, D!Conclude
<1> QED
  BY <1>2, <1>3, <1>4, <1>5 DEF Next

(* Whatever the pages, the handler, the network and other auditors do, the   *)
(* requests of the auditor's buttons and the orders they leave behind are a  *)
(* behaviour of Decisions: each takes effect at most once, on the order and  *)
(* at the node it names, or comes to nothing, and nothing else happens to an *)
(* order than such decisions and those of other auditors.                    *)
THEOREM DecisionsAreImplemented ==
    ASSUME FlowsAreRouted, CookiesAreOwn
    PROVE  Spec => ImplementsDecisions
<1>1. Init => D!Init
  <2> SUFFICES ASSUME Init PROVE D!Init
    OBVIOUS
  <2>1. \A c \in Clicks : Status(c) = "not made" /\ click[c].body = NoBody
    BY DEF Init, NoClick, Status, Applied
  <2>2. NoBody.order = None /\ NoBody.state = None
    BY DEF NoBody
  <2>3. decisionOf = [c \in Clicks |-> D!NotMade]
    BY <2>1, <2>2 DEF decisionOf, D!NotMade
  <2> QED
    BY <2>3 DEF Init, D!Init
<1>2. Init => PostedWhere /\ RefusalsNameNoNode
  BY DEF Init, PostedWhere, RefusalsNameNoNode, NoClick, NoBody
<1>3. TypeOK /\ PostedWhere /\ [Next]_vars => PostedWhere'
  BY PostedWhereStep
<1>4. TypeOK /\ RefusalsNameNoNode /\ [Next]_vars => RefusalsNameNoNode'
  BY RefusalsNameNoNodeStep
<1>5. /\ TypeOK /\ OnceInv /\ PostedWhere /\ RefusalsNameNoNode
      /\ DecidedAsPosted /\ AgreedAtPostedNode
      => RefineInv
  BY DEF OnceInv, RefineInv
<1>6. RefineInv /\ RefineInv' /\ [Next]_vars => [D!Next]_(D!vars)
  BY StepsImplement
<1> QED
  BY <1>1, <1>2, <1>3, <1>4, <1>5, <1>6, TypeInvariant, OnceInvariant, DecidedAsPostedInvariant,
     ApprovalsStayAtTheirNode, PTL DEF Spec, ImplementsDecisions, D!Spec
===============================================================================
