---------------------------- MODULE ApprovalProofs ----------------------------
(***************************************************************************)
(* Theorems about Approval for every number of pages, orders and presses,  *)
(* every flow and every environment.                                       *)
(***************************************************************************)
EXTENDS ApprovalProperties, TLAPS

-------------------------------------------------------------------------------
(* The functions the model is built from.                                    *)

(* A task is a position in the flow of its order, and has a node's code.     *)
LEMMA TaskFacts ==
    ASSUME NEW t \in Tasks
    PROVE  /\ t.order \in Orders
           /\ t.at \in 1 .. Len(Flow[t.order])
           /\ t = [order |-> t.order, at |-> t.at]
           /\ Code(t) \in StatusCodes
<1>1. PICK o \in Orders : t \in [order : {o}, at : 1 .. Len(Flow[o])]
  BY DEF Tasks
<1>2. Flow[o] \in Seq(StatusCodes)
  BY FlowAssumption
<1>3. t.order = o /\ t.at \in 1 .. Len(Flow[o])
  BY <1>1
<1>4. Flow[o][t.at] \in StatusCodes
  BY <1>2, <1>3
<1> QED
  BY <1>1, <1>3, <1>4 DEF Code

(* Among cases that are reached one stands first.                            *)
LEMMA LeastLabel ==
    ASSUME NEW S, S # {}, \A e \in S : e.node \in CaseLabels
    PROVE  \E e \in S : \A f \in S : e.node <= f.node
<1> DEFINE At(n) == \E e \in S : e.node = n
<1>1. CASE At(10)
  BY <1>1 DEF CaseLabels
<1>2. CASE ~At(10) /\ At(25)
  BY <1>2 DEF CaseLabels
<1>3. CASE ~At(10) /\ ~At(25) /\ At(30)
  BY <1>3 DEF CaseLabels
<1>4. CASE ~At(10) /\ ~At(25) /\ ~At(30) /\ At(35)
  BY <1>4 DEF CaseLabels
<1>5. CASE ~At(10) /\ ~At(25) /\ ~At(30) /\ ~At(35) /\ At(40)
  BY <1>5 DEF CaseLabels
<1>6. CASE ~At(10) /\ ~At(25) /\ ~At(30) /\ ~At(35) /\ ~At(40)
  BY <1>6 DEF CaseLabels
<1> QED
  BY <1>1, <1>2, <1>3, <1>4, <1>5, <1>6

(* An end point that verify picks takes orders of the type it was asked for. *)
LEMMA VerifyType ==
    ASSUME NEW code, NEW poType
    PROVE  verify(code, poType) \in AuditEndpoints \cup {None}
<1>1. CASE verify(code, poType) = None
  BY <1>1
<1>2. CASE verify(code, poType) # None
  <2> DEFINE S == Reachable(code, poType)
  <2>1. /\ S # {}
        /\ verify(code, poType) = CHOOSE e \in S : \A f \in S : e.node <= f.node
    BY <1>2 DEF verify
  <2>2. \A e \in S : e \in AuditEndpoints /\ e.node \in CaseLabels
    BY DEF Reachable, AuditEndpoints, CaseLabels
  <2>3. \E e \in S : \A f \in S : e.node <= f.node
    BY <2>1, <2>2, LeastLabel
  <2> QED
    BY <2>1, <2>2, <2>3
<1> QED
  BY <1>1, <1>2

(* unPass picks an end point for refusals, or none.                          *)
LEMMA EndpointType ==
    ASSUME NEW body
    PROVE  Endpoint(body) \in AuditEndpoints \cup UnpassEndpoints \cup {None}
BY VerifyType DEF Endpoint, unPass, UnpassEndpoints

(* The task an open order waits at is a task.                                *)
LEMMA CurrentTaskType ==
    ASSUME TypeOK, NEW o \in Orders, IsOpen(o)
    PROVE  CurrentTask(o) \in Tasks
<1>1. decidedNodes[o] \in Nat /\ decidedNodes[o] < Len(Flow[o])
  BY DEF TypeOK, IsOpen
<1>2. Len(Flow[o]) \in Nat
  BY FlowAssumption
<1>3. decidedNodes[o] + 1 \in 1 .. Len(Flow[o])
  BY <1>1, <1>2
<1> QED
  BY <1>3 DEF CurrentTask, Tasks

LEMMA WaitingItemsType ==
    ASSUME TypeOK
    PROVE  WaitingItems \subseteq Tasks
BY CurrentTaskType DEF WaitingItems

(* Leaving a page changes what its requests' answers find, nothing else.     *)
LEMMA LeftType ==
    ASSUME TypeOK, NEW t
    PROVE  Left(t) \in [Clicks -> ClickType]
<1>1. \A c \in Clicks : click[c] \in ClickType
  BY DEF TypeOK
<1>2. \A c \in Clicks : [click[c] EXCEPT !.page = "unseen"] \in ClickType
  BY <1>1 DEF ClickType, PagePhases
<1> QED
  BY <1>1, <1>2 DEF Left

LEMMA BodyType ==
    ASSUME TypeOK, NEW t, NEW operation \in {Agree, Refuse}
    PROVE  Body(t, operation) \in AuditVO
BY DEF TypeOK, Body, Cookies, AuditVO

LEMMA CookiesOfType ==
    ASSUME NEW task \in Tasks
    PROVE  CookiesOf(task) \in Cookies
BY TaskFacts DEF CookiesOf, Cookies

-------------------------------------------------------------------------------
(* Types.                                                                    *)

(* An update of one request by fields of the right types stays a request.    *)
LEMMA ClickUpdate ==
    ASSUME TypeOK, NEW c \in Clicks, NEW r \in ClickType, click' = [click EXCEPT ![c] = r]
    PROVE  click' \in [Clicks -> ClickType]
BY DEF TypeOK

LEMMA PageStepType ==
    ASSUME TypeOK, NEW t \in Tabs, PageStep(t)
    PROVE  TypeOK'
<1>1. CASE LoadList(t)
  BY <1>1, WaitingItemsType DEF LoadList, TypeOK, backend, jars
<1>2. ASSUME NEW task \in items[t], OpenWaiting(t, task)
      PROVE  TypeOK'
  <2>1. task \in Tasks
    BY DEF TypeOK
  <2>2. /\ CookiesOf(task) \in Cookies
        /\ DetailView(task.order) \in Views
    BY <2>1, CookiesOfType DEF DetailView, Views
  <2> QED
    BY <1>2, <2>2 DEF OpenWaiting, Goto, TypeOK, backend
<1>3. ASSUME NEW o \in Orders, OpenHandled(t, o)
      PROVE  TypeOK'
  <2>1. /\ [purchaseJar EXCEPT !.order = o] \in Cookies
        /\ HandledView(o) \in Views
    BY DEF TypeOK, Cookies, HandledView, Views
  <2> QED
    BY <1>3, <2>1 DEF OpenHandled, Goto, TypeOK, backend
<1>4. CASE Mount(t)
  <2>1. PageOrder(view[t]) \in Orders \cup {None}
    BY DEF TypeOK, PageOrder, Cookies
  <2> QED
    BY <1>4, <2>1 DEF Mount, TypeOK, backend, jars
<1>5. CASE Back(t)
  <2>1. Left(t) \in [Clicks -> ClickType]
    BY LeftType
  <2> QED
    BY <1>5, <2>1 DEF Back, Goto, TypeOK, backend, jars, Views
<1>6. ASSUME NEW operation \in {Agree, Refuse}, Press(t, operation)
      PROVE  TypeOK'
  <2> DEFINE r == [server |-> "sent", page |-> "waiting", tab |-> t, shown |-> shown[t],
                   body |-> Body(t, operation), endpoint |-> None, decided |-> None]
  <2>1. r \in ClickType
    <3>1. Body(t, operation) \in AuditVO /\ shown[t] \in Orders \cup {None}
      BY BodyType DEF TypeOK
    <3> QED
      BY <3>1 DEF ClickType, ServerPhases, PagePhases
  <2>2. \E c \in Clicks : click' = [click EXCEPT ![c] = r]
    BY <1>6 DEF Press
  <2>3. click' \in [Clicks -> ClickType]
    BY <2>1, <2>2, ClickUpdate
  <2> QED
    BY <1>6, <2>3 DEF Press, TypeOK, backend, jars, pages
<1> QED
  BY <1>1, <1>2, <1>3, <1>4, <1>5, <1>6 DEF PageStep, verifyPass, verifyRefuse

LEMMA ServerStepType ==
    ASSUME TypeOK, NEW c \in Clicks, ServerStep(c)
    PROVE  TypeOK'
<1> USE DEF ClickType
<1>0. click[c] \in ClickType
  BY DEF TypeOK
<1>1. CASE MethodNotAllowed(c)
  <2>1. [click[c] EXCEPT !.server = "refused"] \in ClickType
    BY <1>0 DEF ServerPhases
  <2>2. click' \in [Clicks -> ClickType]
    BY <1>1, <2>1, ClickUpdate DEF MethodNotAllowed, TypeOK
  <2> QED
    BY <1>1, <2>2 DEF MethodNotAllowed, TypeOK, backend, jars, pages
<1>2. CASE AnswerWithoutPosting(c) \/ Decline(c)
  <2>1. [click[c] EXCEPT !.server = "answered"] \in ClickType
    BY <1>0 DEF ServerPhases
  <2>2. click' \in [Clicks -> ClickType]
    BY <1>2, <2>1 DEF AnswerWithoutPosting, Decline, TypeOK
  <2> QED
    BY <1>2, <2>2 DEF AnswerWithoutPosting, Decline, TypeOK, backend, jars, pages
<1>3. CASE PostToBackend(c)
  <2> DEFINE e == Endpoint(click[c].body)
  <2>1. e \in AuditEndpoints \cup UnpassEndpoints \cup {None}
    BY EndpointType
  <2>2. [click[c] EXCEPT !.server = "posted", !.endpoint = e] \in ClickType
    BY <1>0, <2>1 DEF ServerPhases
  <2>3. click' \in [Clicks -> ClickType]
    BY <1>3, <2>2 DEF PostToBackend, TypeOK
  <2> QED
    BY <1>3, <2>3 DEF PostToBackend, TypeOK, backend, jars, pages
<1>4. CASE Decide(c)
  <2>1. PICK task \in Targets(click[c].body, click[c].endpoint) :
          /\ IF click[c].body.operation = Agree
             THEN /\ decidedNodes' = [decidedNodes EXCEPT ![task.order] = @ + 1]
                  /\ UNCHANGED rejected
             ELSE /\ rejected' = rejected \cup {task.order}
                  /\ UNCHANGED decidedNodes
          /\ click' = [click EXCEPT ![c].server = "answered", ![c].decided = task]
    BY <1>4 DEF Decide
  <2>2. PICK o \in Orders : IsOpen(o) /\ task = CurrentTask(o)
    BY DEF Targets, WaitingItems
  <2>3. task \in Tasks /\ task.order = o
    BY <2>2, CurrentTaskType DEF CurrentTask
  <2>4. [click[c] EXCEPT !.server = "answered", !.decided = task] \in ClickType
    BY <1>0, <2>3 DEF ServerPhases
  <2>5. click' \in [Clicks -> ClickType]
    BY <2>1, <2>4 DEF TypeOK
  <2>6. /\ decidedNodes' \in [Orders -> Nat]
        /\ \A p \in Orders : decidedNodes'[p] <= Len(Flow[p])
    <3>1. decidedNodes[o] + 1 <= Len(Flow[o])
      BY <2>2, FlowAssumption DEF IsOpen, TypeOK
    <3>2. \/ decidedNodes' = decidedNodes
          \/ decidedNodes' = [decidedNodes EXCEPT ![o] = decidedNodes[o] + 1]
      BY <2>1, <2>3
    <3>3. decidedNodes \in [Orders -> Nat] /\ decidedNodes[o] + 1 \in Nat
      BY DEF TypeOK
    <3>4. decidedNodes' \in [Orders -> Nat]
      BY <3>2, <3>3
    <3>5. \A p \in Orders : decidedNodes'[p] <= Len(Flow[p])
      BY <3>1, <3>2, <3>3 DEF TypeOK
    <3> QED
      BY <3>4, <3>5
  <2>7. rejected' \subseteq Orders
    BY <2>1, <2>3 DEF TypeOK
  <2> QED
    BY <1>4, <2>5, <2>6, <2>7 DEF Decide, TypeOK, jars, pages
<1> QED
  BY <1>1, <1>2, <1>3, <1>4 DEF ServerStep

LEMMA AnswerStepType ==
    ASSUME TypeOK, NEW c \in Clicks, AnswerStep(c)
    PROVE  TypeOK'
<1> USE DEF ClickType
<1>1. CASE PageClosed(c)
  <2> DEFINE t == click[c].tab
  <2>1. Left(t) \in [Clicks -> ClickType]
    BY LeftType
  <2>2. [Left(t)[c] EXCEPT !.page = "closed"] \in ClickType
    BY <2>1 DEF PagePhases
  <2>3. click' \in [Clicks -> ClickType]
    BY <1>1, <2>1, <2>2 DEF PageClosed
  <2> QED
    BY <1>1, <2>3 DEF PageClosed, Goto, TypeOK, backend, jars, Views
<1>2. CASE PageError(c)
  <2>1. [click[c] EXCEPT !.page = "error"] \in ClickType
    BY DEF TypeOK, PagePhases
  <2>2. click' \in [Clicks -> ClickType]
    BY <1>2, <2>1 DEF PageError, TypeOK
  <2> QED
    BY <1>2, <2>2 DEF PageError, TypeOK, backend, jars, pages
<1> QED
  BY <1>1, <1>2 DEF AnswerStep

LEMMA OutsideStepType ==
    ASSUME TypeOK, OutsideStep
    PROVE  TypeOK'
<1>1. ASSUME NEW o \in Orders, Colleague(o)
      PROVE  TypeOK'
  <2>1. decidedNodes[o] + 1 <= Len(Flow[o])
    BY <1>1, FlowAssumption DEF Colleague, IsOpen, TypeOK
  <2>2. /\ decidedNodes' \in [Orders -> Nat]
        /\ \A p \in Orders : decidedNodes'[p] <= Len(Flow[p])
        /\ rejected' \subseteq Orders
    BY <1>1, <2>1 DEF Colleague, TypeOK
  <2> QED
    BY <1>1, <2>2 DEF Colleague, TypeOK, jars, pages
<1>2. ASSUME NEW c \in Clicks, LoseRequest(c)
      PROVE  TypeOK'
  <2>1. \A p \in {click[c].page, "error"} :
          [click[c] EXCEPT !.server = "lost", !.page = p] \in ClickType
    BY DEF TypeOK, ClickType, ServerPhases, PagePhases
  <2>2. click' \in [Clicks -> ClickType]
    BY <1>2, <2>1 DEF LoseRequest, TypeOK
  <2> QED
    BY <1>2, <2>2 DEF LoseRequest, TypeOK, backend, jars, pages
<1>3. CASE SessionChange
  BY <1>3 DEF SessionChange, TypeOK, backend, jars, pages
<1>4. CASE PurchaseCookiesExpire
  <2>1. NoCookies \in Cookies /\ [NoCookies EXCEPT !.order = purchaseJar.order] \in Cookies
    BY DEF NoCookies, Cookies, TypeOK
  <2> QED
    BY <1>4, <2>1 DEF PurchaseCookiesExpire, TypeOK, backend, pages
<1> QED
  BY <1>1, <1>2, <1>3, <1>4 DEF OutsideStep

LEMMA TypePreserved ==
    ASSUME TypeOK, [Next]_vars
    PROVE  TypeOK'
<1>1. CASE UNCHANGED vars
  BY <1>1 DEF vars, backend, jars, pages, TypeOK
<1>2. CASE Next
  BY <1>2, PageStepType, ServerStepType, AnswerStepType, OutsideStepType DEF Next
<1> QED
  BY <1>1, <1>2

(* The variables keep their types: cookies, bodies and end points are what   *)
(* the pages and the handler write, and no order passes its last node twice. *)
THEOREM TypeInvariant == Spec => []TypeOK
<1>1. Init => TypeOK
  <2> SUFFICES ASSUME Init PROVE TypeOK
    OBVIOUS
  <2>1. NoClick \in ClickType
    BY DEF NoClick, NoBody, ClickType, ServerPhases, PagePhases, AuditVO
  <2>2. NoCookies \in Cookies
    BY DEF NoCookies, Cookies
  <2>3. \A o \in Orders : 0 <= Len(Flow[o])
    BY FlowAssumption
  <2> QED
    BY <2>1, <2>2, <2>3 DEF Init, TypeOK, Views
<1>2. TypeOK /\ [Next]_vars => TypeOK'
  BY TypePreserved
<1> QED
  BY <1>1, <1>2, PTL DEF Spec

-------------------------------------------------------------------------------
(* What is posted.                                                           *)

(* A step that neither makes request c, nor posts it, nor decides its task:  *)
(* all it may do is bring c closer to its end.                               *)
Kept(c) ==
    /\ click'[c].body = click[c].body /\ click'[c].shown = click[c].shown
    /\ click'[c].endpoint = click[c].endpoint
    /\ click'[c].decided = click[c].decided
    /\ click[c].server = "idle" <=> click'[c].server = "idle"
    /\ click[c] = NoClick => click'[c] = NoClick
    /\ click'[c].server = "posted" => click[c].server = "posted"
    /\ click[c].server = "answered" => click'[c].server = "answered"
    /\ click'[c].page = "closed" => click[c].page = "closed" \/ click[c].server = "answered"

(* Only three operations are not of that kind.                               *)
LEMMA RequestSteps ==
    ASSUME TypeOK, Next
    PROVE  \/ \E t \in Tabs, operation \in {Agree, Refuse} : Press(t, operation)
           \/ \E c \in Clicks : PostToBackend(c)
           \/ \E c \in Clicks : Decide(c)
           \/ \A c \in Clicks : Kept(c)
<1> DEFINE AllKept == \A c \in Clicks : Kept(c)
<1> USE DEF Kept
<1>0. click \in [Clicks -> ClickType]
  BY DEF TypeOK
<1>n. NoClick.page = "none" /\ NoClick.server = "idle"
  BY DEF NoClick
<1> DEFINE Forgot(r, q) == /\ r.body = q.body /\ r.endpoint = q.endpoint
                           /\ r.decided = q.decided /\ r.server = q.server
                           /\ r.shown = q.shown
                           /\ r.page \in {q.page, "unseen"}
                           /\ q.page # "waiting" => r = q
<1>1. \A t : /\ Left(t) \in [Clicks -> ClickType]
             /\ \A c \in Clicks : Forgot(Left(t)[c], click[c])
  <2>1. \A c \in Clicks : click[c].page = "waiting"
                            => Forgot([click[c] EXCEPT !.page = "unseen"], click[c])
    BY <1>0 DEF ClickType
  <2> QED
    BY <2>1, LeftType DEF Left
<1>2. ASSUME NEW t \in Tabs, PageStep(t), ~\E operation \in {Agree, Refuse} : Press(t, operation)
      PROVE  AllKept
  <2>1. UNCHANGED click \/ click' = Left(t)
    BY <1>2 DEF PageStep, LoadList, OpenWaiting, OpenHandled, Mount, Back, verifyPass, verifyRefuse
  <2> QED
    BY <2>1, <1>0, <1>1, <1>n DEF ClickType
<1>3. ASSUME NEW c \in Clicks, MethodNotAllowed(c)
      PROVE  AllKept
  BY <1>3, <1>0, <1>n DEF MethodNotAllowed, ClickType
<1>4. ASSUME NEW c \in Clicks, AnswerWithoutPosting(c)
      PROVE  AllKept
  BY <1>4, <1>0, <1>n DEF AnswerWithoutPosting, ClickType
<1>5. ASSUME NEW c \in Clicks, Decline(c)
      PROVE  AllKept
  BY <1>5, <1>0, <1>n DEF Decline, ClickType
<1>6. ASSUME NEW c \in Clicks, PageClosed(c)
      PROVE  AllKept
  <2> DEFINE L == Left(click[c].tab)
  <2>1. L \in [Clicks -> ClickType] /\ \A d \in Clicks : Forgot(L[d], click[d])
    BY <1>1
  <2>2. click' = [L EXCEPT ![c].page = "closed"] /\ click[c].server = "answered"
    BY <1>6 DEF PageClosed
  <2> HIDE DEF L
  <2>3. \A d \in Clicks \ {c} : click'[d] = L[d]
    BY <2>1, <2>2
  <2>4. /\ click'[c].body = L[c].body /\ click'[c].endpoint = L[c].endpoint
        /\ click'[c].decided = L[c].decided /\ click'[c].server = L[c].server
        /\ click'[c].shown = L[c].shown
    BY <2>1, <2>2 DEF ClickType
  <2>5. \A d \in Clicks : click[d] = NoClick => L[d] = NoClick
    BY <2>1, <1>n
  <2>6. click[c] # NoClick
    BY <2>2, <1>n
  <2> QED
    BY <2>1, <2>2, <2>3, <2>4, <2>5, <2>6
<1>7. ASSUME NEW c \in Clicks, PageError(c)
      PROVE  AllKept
  BY <1>7, <1>0, <1>n DEF PageError, ClickType
<1>8. ASSUME NEW c \in Clicks, LoseRequest(c)
      PROVE  AllKept
  <2>1. click[c].server = "sent"
    BY <1>8 DEF LoseRequest
  <2>2. \E p \in {click[c].page, "error"} :
          click' = [click EXCEPT ![c].server = "lost", ![c].page = p]
    BY <1>8, <1>0 DEF LoseRequest
  <2> QED
    BY <2>1, <2>2, <1>0, <1>n DEF ClickType
<1>9. CASE UNCHANGED click
  BY <1>9
<1> QED
  BY <1>2, <1>3, <1>4, <1>5, <1>6, <1>7, <1>8, <1>9
     DEF Next, ServerStep, AnswerStep, OutsideStep, Colleague, SessionChange, PurchaseCookiesExpire

(* What the press of a button, the post and the decision do to the requests. *)
LEMMA PressEffect ==
    ASSUME TypeOK, NEW t \in Tabs, NEW operation \in {Agree, Refuse}, Press(t, operation)
    PROVE  \E c \in Clicks :
              /\ click'[c].server = "sent" /\ click'[c].page = "waiting"
              /\ click'[c].body = Body(t, operation) /\ click'[c].shown = shown[t]
              /\ click'[c].endpoint = None /\ click'[c].decided = None
              /\ click[c].server = "idle"
              /\ \A d \in Clicks \ {c} : click'[d] = click[d]
<1>1. PICK c \in Clicks : IsNext(c) /\
        click' = [click EXCEPT ![c] =
                    [server |-> "sent", page |-> "waiting", tab |-> t,
                     shown |-> shown[t], body |-> Body(t, operation),
                     endpoint |-> None, decided |-> None]]
  BY DEF Press
<1>2. click'[c] = [server |-> "sent", page |-> "waiting", tab |-> t,
                   shown |-> shown[t], body |-> Body(t, operation),
                   endpoint |-> None, decided |-> None]
  BY <1>1 DEF TypeOK
<1>3. \A d \in Clicks \ {c} : click'[d] = click[d]
  BY <1>1 DEF TypeOK
<1>4. click[c].server = "idle"
  BY <1>1 DEF IsNext, Clicks
<1> QED
  BY <1>2, <1>3, <1>4

LEMMA PostEffect ==
    ASSUME TypeOK, NEW c \in Clicks, PostToBackend(c)
    PROVE  /\ click'[c].body = click[c].body /\ click'[c].shown = click[c].shown
           /\ click'[c].endpoint = Endpoint(click[c].body)
           /\ click'[c].decided = click[c].decided
           /\ click'[c].page = click[c].page
           /\ click'[c].server = "posted"
           /\ \A d \in Clicks \ {c} : click'[d] = click[d]
BY DEF PostToBackend, TypeOK, ClickType

LEMMA DecideEffect ==
    ASSUME TypeOK, NEW c \in Clicks, Decide(c)
    PROVE  /\ click'[c].body = click[c].body /\ click'[c].shown = click[c].shown
           /\ click'[c].endpoint = click[c].endpoint
           /\ click'[c].decided \in Targets(click[c].body, click[c].endpoint)
           /\ click'[c].page = click[c].page
           /\ click'[c].server = "answered"
           /\ \A d \in Clicks \ {c} : click'[d] = click[d]
<1>1. \E task \in Targets(click[c].body, click[c].endpoint) :
        click' = [click EXCEPT ![c].server = "answered", ![c].decided = task]
  BY DEF Decide
<1> QED
  BY <1>1 DEF TypeOK, ClickType

(* The pay cookies name one order, a task of it and that task's node, and so *)
(* does every body a pay page posted.                                        *)
PayInv == Coherent(payJar) /\ PayBodyCoherent

LEMMA PayInvStep ==
    ASSUME TypeOK, PayInv, [Next]_vars
    PROVE  PayInv'
<1>1. Coherent(payJar)'
  <2>1. CASE UNCHANGED payJar
    BY <2>1 DEF PayInv, Coherent
  <2>2. ASSUME NEW t \in Tabs, NEW task \in items[t], OpenWaiting(t, task)
        PROVE  Coherent(payJar)'
    BY <2>1, <2>2 DEF OpenWaiting, CookiesOf, Coherent
  <2>3. UNCHANGED payJar \/ \E t \in Tabs : \E task \in items[t] : OpenWaiting(t, task)
    BY DEF Next, vars, jars, PageStep, LoadList, OpenHandled, Mount, Back, verifyPass,
           verifyRefuse, Press, ServerStep, MethodNotAllowed, AnswerWithoutPosting,
           PostToBackend, Decide, Decline, AnswerStep, PageClosed, PageError, OutsideStep,
           Colleague, LoseRequest, SessionChange, PurchaseCookiesExpire
  <2> QED
    BY <2>1, <2>2, <2>3
<1>2. PayBodyCoherent'
  <2>1. CASE UNCHANGED vars
    BY <2>1 DEF vars, PayInv, PayBodyCoherent, Coherent
  <2>2. ASSUME NEW t \in Tabs, NEW operation \in {Agree, Refuse}, Press(t, operation)
        PROVE  PayBodyCoherent'
    <3>1. view[t] = "pay" => Coherent(Body(t, operation))
      BY DEF PayInv, Coherent, Body
    <3>2. view[t] # "pay" => Body(t, operation).poType = Purchase
      BY DEF Body
    <3>3. PICK c \in Clicks :
              /\ click'[c].server = "sent" /\ click'[c].page = "waiting"
              /\ click'[c].body = Body(t, operation)
              /\ click'[c].endpoint = None /\ click'[c].decided = None
              /\ \A d \in Clicks \ {c} : click'[d] = click[d]
      BY <2>2, PressEffect
    <3> QED
      BY <3>1, <3>2, <3>3 DEF PayInv, PayBodyCoherent, Coherent, Pay, Purchase
  <2>3. ASSUME NEW c \in Clicks, PostToBackend(c) \/ Decide(c)
        PROVE  PayBodyCoherent'
    <3>1. click[c].server # "idle"
      BY <2>3 DEF PostToBackend, Decide
    <3>2. \A d \in Clicks : click'[d].body = click[d].body
      BY <2>3, PostEffect, DecideEffect
    <3>3. \A d \in Clicks : click'[d].server # "idle" => click[d].server # "idle"
      BY <2>3, <3>1, PostEffect, DecideEffect
    <3> QED
      BY <3>2, <3>3 DEF PayInv, PayBodyCoherent, Coherent
  <2>4. CASE \A c \in Clicks : Kept(c)
    BY <2>4 DEF Kept, PayInv, PayBodyCoherent, Coherent
  <2> QED
    BY <2>1, <2>2, <2>3, <2>4, RequestSteps
<1> QED
  BY <1>1, <1>2 DEF PayInv

(* A body posted by a pay page names one order, a task of that order and the *)
(* node of that task, whatever other pages of the browser do to the cookies  *)
(* meanwhile and however many there are.                                     *)
THEOREM PayBodiesAreCoherent == Spec => []PayBodyCoherent
<1>1. Init => PayInv
  BY DEF Init, PayInv, NoCookies, NoClick, NoBody, Coherent, PayBodyCoherent
<1>2. TypeOK /\ PayInv /\ [Next]_vars => PayInv'
  BY PayInvStep
<1>3. PayInv => PayBodyCoherent
  BY DEF PayInv
<1> QED
  BY <1>1, <1>2, <1>3, TypeInvariant, PTL DEF Spec

-------------------------------------------------------------------------------
(* When a decision is final.                                                 *)

(* A page is closed by the handler's answer, which ends the request.         *)
ClosedInv == \A c \in Clicks : click[c].page = "closed" => click[c].server = "answered"

LEMMA ClosedInvStep ==
    ASSUME TypeOK, ClosedInv, [Next]_vars
    PROVE  ClosedInv'
<1>1. CASE UNCHANGED vars
  BY <1>1 DEF vars, ClosedInv
<1>2. ASSUME NEW t \in Tabs, NEW operation \in {Agree, Refuse}, Press(t, operation)
      PROVE  ClosedInv'
  <2>1. PICK c \in Clicks : /\ click'[c].page = "waiting"
                            /\ \A d \in Clicks \ {c} : click'[d] = click[d]
    BY <1>2, PressEffect
  <2> QED
    BY <2>1 DEF ClosedInv
<1>3. ASSUME NEW c \in Clicks, PostToBackend(c)
      PROVE  ClosedInv'
  <2>1. click[c].page # "closed"
    BY <1>3 DEF PostToBackend, ClosedInv
  <2> QED
    BY <1>3, <2>1, PostEffect DEF ClosedInv
<1>4. ASSUME NEW c \in Clicks, Decide(c)
      PROVE  ClosedInv'
  BY <1>4, DecideEffect DEF ClosedInv
<1>5. CASE \A c \in Clicks : Kept(c)
  BY <1>5 DEF Kept, ClosedInv
<1> QED
  BY <1>1, <1>2, <1>3, <1>4, <1>5, RequestSteps

(* A page that went back to the list shows a decision that is over: no later *)
(* step makes it take effect, or effect anything else.                       *)
THEOREM ClosedDecisionsAreFinal == Spec => ClosedIsFinal
<1> DEFINE Final == \A c \in Clicks : click[c].page = "closed"
                                        => click'[c].decided = click[c].decided
<1>1. Init => ClosedInv
  BY DEF Init, ClosedInv, NoClick
<1>2. TypeOK /\ ClosedInv /\ [Next]_vars => ClosedInv'
  BY ClosedInvStep
<1>3. TypeOK /\ ClosedInv /\ [Next]_vars => [Final]_vars
  <2> SUFFICES ASSUME TypeOK, ClosedInv, Next
               PROVE  Final
    OBVIOUS
  <2>1. ASSUME NEW t \in Tabs, NEW operation \in {Agree, Refuse}, Press(t, operation)
        PROVE  Final
    <3>1. PICK c \in Clicks : /\ click[c].server = "idle"
                              /\ \A d \in Clicks \ {c} : click'[d] = click[d]
      BY <2>1, PressEffect
    <3> QED
      BY <3>1 DEF ClosedInv
  <2>2. ASSUME NEW c \in Clicks, PostToBackend(c)
        PROVE  Final
    BY <2>2, PostEffect
  <2>3. ASSUME NEW c \in Clicks, Decide(c)
        PROVE  Final
    <3>1. click[c].page # "closed"
      BY <2>3 DEF Decide, ClosedInv
    <3> QED
      BY <2>3, <3>1, DecideEffect
  <2>4. CASE \A c \in Clicks : Kept(c)
    BY <2>4 DEF Kept
  <2> QED
    BY <2>1, <2>2, <2>3, <2>4, RequestSteps
<1> QED
  BY <1>1, <1>2, <1>3, TypeInvariant, PTL DEF Spec, ClosedIsFinal

-------------------------------------------------------------------------------
(* Where an approval takes effect.                                           *)

\* Every node of every flow has an end point of its own in VerifyUtil.
FlowsAreRouted ==
    \A t \in Tasks : [node |-> Code(t), poType |-> PoType(t.order)] \in AuditEndpoints

\* The nodes that the orders of a type pass.
NodesOf(poType) == {Code(t) : t \in {u \in Tasks : PoType(u.order) = poType}}

(* Falling through never passes over a node's own end point.                 *)
LEMMA OwnEndpoint ==
    ASSUME NEW code, NEW poType, [node |-> code, poType |-> poType] \in AuditEndpoints
    PROVE  verify(code, poType) = [node |-> code, poType |-> poType]
<1> DEFINE own == [node |-> code, poType |-> poType]
           S == Reachable(code, poType)
<1>1. /\ code \in CaseLabels
      /\ code \in Nat
      /\ getAuditStatus(code) = code
  BY DEF AuditEndpoints, CaseLabels, getAuditStatus, StatusCodes
<1>2. own \in S /\ own.node = code
  BY <1>1 DEF Reachable
<1>3. \A e \in S : own.node <= e.node /\ e.node \in Nat
  BY DEF Reachable, AuditEndpoints
<1>4. \A e \in S : e.node = code => e = own
  BY DEF Reachable, AuditEndpoints
<1>5. verify(code, poType) = CHOOSE e \in S : \A f \in S : e.node <= f.node
  BY <1>1, <1>2 DEF verify
<1> HIDE DEF S
<1>6. /\ verify(code, poType) \in S
      /\ \A f \in S : verify(code, poType).node <= f.node
  BY <1>2, <1>3, <1>5
<1>7. verify(code, poType).node = code
  BY <1>1, <1>2, <1>3, <1>6
<1> QED
  BY <1>4, <1>6, <1>7

(* The cookies and bodies of a type hold nodes of that type's flows, and a   *)
(* posted request went to the end point of its state.                        *)
JarNodes == /\ payJar.state \in NodesOf(Pay) \cup {None}
            /\ purchaseJar.state \in NodesOf(Purchase) \cup {None}
BodyNodes == \A c \in Clicks :
    click[c].server # "idle" =>
        click[c].body.state \in NodesOf(click[c].body.poType) \cup {None}
PostedWhere == \A c \in Clicks :
    click[c].server = "posted" => /\ click[c].endpoint = Endpoint(click[c].body)
                                  /\ click[c].endpoint # None
NodeInv == JarNodes /\ BodyNodes /\ PostedWhere /\ AgreedAtPostedNode

LEMMA PostedWhereStep ==
    ASSUME TypeOK, PostedWhere, [Next]_vars
    PROVE  PostedWhere'
<1>1. CASE UNCHANGED vars
  BY <1>1 DEF vars, PostedWhere, Endpoint
<1>2. ASSUME NEW t \in Tabs, NEW operation \in {Agree, Refuse}, Press(t, operation)
      PROVE  PostedWhere'
  <2>1. PICK c \in Clicks : /\ click'[c].server = "sent"
                            /\ \A d \in Clicks \ {c} : click'[d] = click[d]
    BY <1>2, PressEffect
  <2> QED
    BY <2>1 DEF PostedWhere, Endpoint
<1>3. ASSUME NEW c \in Clicks, PostToBackend(c)
      PROVE  PostedWhere'
  <2>1. Endpoint(click[c].body) # None
    BY <1>3 DEF PostToBackend
  <2> QED
    BY <1>3, <2>1, PostEffect DEF PostedWhere, Endpoint
<1>4. ASSUME NEW c \in Clicks, Decide(c)
      PROVE  PostedWhere'
  BY <1>4, DecideEffect DEF PostedWhere, Endpoint
<1>5. CASE \A c \in Clicks : Kept(c)
  BY <1>5 DEF Kept, PostedWhere, Endpoint
<1> QED
  BY <1>1, <1>2, <1>3, <1>4, <1>5, RequestSteps

LEMMA JarNodesStep ==
    ASSUME TypeOK, JarNodes, [Next]_vars
    PROVE  JarNodes'
<1>1. CASE UNCHANGED jars
  BY <1>1 DEF jars, JarNodes
<1>2. ASSUME NEW t \in Tabs, NEW task \in items[t], OpenWaiting(t, task)
      PROVE  JarNodes'
  <2>1. task \in Tasks
    BY DEF TypeOK
  <2>2. /\ task.order \in PayOrders => Code(task) \in NodesOf(Pay)
        /\ task.order \notin PayOrders => Code(task) \in NodesOf(Purchase)
    BY <2>1 DEF NodesOf, PoType
  <2> QED
    BY <1>2, <2>2 DEF OpenWaiting, CookiesOf, JarNodes
<1>3. ASSUME NEW t \in Tabs, NEW o \in Orders, OpenHandled(t, o)
      PROVE  JarNodes'
  <2>1. /\ payJar' = payJar
        /\ \E p : purchaseJar' = [purchaseJar EXCEPT !.order = p]
    BY <1>3 DEF OpenHandled, TypeOK, Cookies
  <2>2. purchaseJar'.state = purchaseJar.state
    BY <2>1 DEF TypeOK, Cookies
  <2> QED
    BY <2>1, <2>2 DEF JarNodes
<1>4. CASE PurchaseCookiesExpire
  BY <1>4 DEF PurchaseCookiesExpire, NoCookies, JarNodes
<1> QED
  BY <1>1, <1>2, <1>3, <1>4
     DEF Next, vars, PageStep, LoadList, Mount, Back, verifyPass, verifyRefuse, Press,
         ServerStep, MethodNotAllowed, AnswerWithoutPosting, PostToBackend, Decide, Decline,
         AnswerStep, PageClosed, PageError, OutsideStep, Colleague, LoseRequest, SessionChange

(* The task decided is one that the end point of the posted state decides.   *)
LEMMA DecidedNode ==
    ASSUME FlowsAreRouted, TypeOK, NodeInv, NEW c \in Clicks, Decide(c),
           click[c].body.operation = Agree
    PROVE  Code(click'[c].decided) = click[c].body.state
<1> DEFINE b == click[c].body
<1>1. /\ click[c].server = "posted"
      /\ click[c].endpoint = verify(b.state, b.poType)
      /\ verify(b.state, b.poType) # None
  BY DEF Decide, NodeInv, PostedWhere, Endpoint
<1>2. b.state # None
  <2>1. None \notin StatusCodes /\ None \notin CaseLabels
    BY FlowAssumption DEF CaseLabels, StatusCodes
  <2> QED
    BY <1>1, <2>1 DEF verify, getAuditStatus
<1>3. PICK t \in Tasks : PoType(t.order) = b.poType /\ b.state = Code(t)
  BY <1>1, <1>2 DEF NodeInv, BodyNodes, NodesOf
<1>4. verify(b.state, b.poType).node = b.state
  <2>1. [node |-> b.state, poType |-> b.poType] \in AuditEndpoints
    BY <1>3 DEF FlowsAreRouted
  <2>2. verify(b.state, b.poType) = [node |-> b.state, poType |-> b.poType]
    BY <2>1, OwnEndpoint
  <2> QED
    BY <2>2
<1>5. Code(click'[c].decided) = click[c].endpoint.node
  BY DecideEffect DEF Targets
<1> QED
  BY <1>1, <1>4, <1>5

LEMMA NodeInvStep ==
    ASSUME FlowsAreRouted, TypeOK, NodeInv, [Next]_vars
    PROVE  NodeInv'
<1>1. JarNodes' /\ PostedWhere'
  BY JarNodesStep, PostedWhereStep DEF NodeInv
<1>2. ASSUME UNCHANGED vars
      PROVE  (BodyNodes /\ AgreedAtPostedNode)'
  BY <1>2 DEF vars, NodeInv, BodyNodes, AgreedAtPostedNode, Applied
<1>3. ASSUME NEW t \in Tabs, NEW operation \in {Agree, Refuse}, Press(t, operation)
      PROVE  (BodyNodes /\ AgreedAtPostedNode)'
  <2>1. PICK c \in Clicks :
              /\ click'[c].server = "sent" /\ click'[c].page = "waiting"
              /\ click'[c].body = Body(t, operation)
              /\ click'[c].endpoint = None /\ click'[c].decided = None
              /\ \A d \in Clicks \ {c} : click'[d] = click[d]
    BY <1>3, PressEffect
  <2>2. Body(t, operation).state \in NodesOf(Body(t, operation).poType) \cup {None}
    BY DEF NodeInv, JarNodes, Body
  <2> QED
    BY <2>1, <2>2 DEF NodeInv, BodyNodes, AgreedAtPostedNode, Applied
<1>4. ASSUME NEW c \in Clicks, PostToBackend(c)
      PROVE  (BodyNodes /\ AgreedAtPostedNode)'
  <2>1. click[c].server = "sent" /\ Endpoint(click[c].body) # None
    BY <1>4 DEF PostToBackend
  <2>2. \A d \in Clicks : /\ click'[d].body = click[d].body
                          /\ click'[d].decided = click[d].decided
    BY <1>4, PostEffect
  <2>3. \A d \in Clicks : click'[d].server # "idle" => click[d].server # "idle"
    BY <1>4, <2>1, PostEffect
  <2> QED
    BY <2>2, <2>3 DEF NodeInv, BodyNodes, AgreedAtPostedNode, Applied
<1>5. ASSUME NEW c \in Clicks, Decide(c)
      PROVE  (BodyNodes /\ AgreedAtPostedNode)'
  <2>1. click[c].server = "posted"
    BY <1>5 DEF Decide
  <2>2. \A d \in Clicks : /\ click'[d].body = click[d].body
                          /\ click'[d].server # "idle" => click[d].server # "idle"
    BY <1>5, <2>1, DecideEffect
  <2>3. AgreedAtPostedNode'
    BY <1>5, DecidedNode, DecideEffect DEF NodeInv, AgreedAtPostedNode, Applied
  <2> QED
    BY <2>2, <2>3 DEF NodeInv, BodyNodes
<1>6. ASSUME \A c \in Clicks : Kept(c)
      PROVE  (BodyNodes /\ AgreedAtPostedNode)'
  BY <1>6 DEF Kept, NodeInv, BodyNodes, AgreedAtPostedNode, Applied
<1> QED
  BY <1>1, <1>2, <1>3, <1>4, <1>5, <1>6, RequestSteps DEF NodeInv

(* Where every node has its own end point, an approval never takes effect at *)
(* another node than the one it was given for: a stale list, a stale cookie, *)
(* another auditor or a second press cannot make it count for a later node.  *)
THEOREM ApprovalsStayAtTheirNode ==
    ASSUME FlowsAreRouted
    PROVE  Spec => []AgreedAtPostedNode
<1>1. Init => NodeInv
  BY DEF Init, NodeInv, JarNodes, BodyNodes, PostedWhere, AgreedAtPostedNode, Applied,
         NoCookies, NoClick
<1>2. TypeOK /\ NodeInv /\ [Next]_vars => NodeInv'
  BY NodeInvStep
<1>3. NodeInv => AgreedAtPostedNode
  BY DEF NodeInv
<1> QED
  BY <1>1, <1>2, <1>3, TypeInvariant, PTL DEF Spec
===============================================================================
