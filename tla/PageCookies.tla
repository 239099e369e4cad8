----------------------------- MODULE PageCookies -----------------------------
(***************************************************************************)
(* The cookies the list pages write and the detail pages read, as calls of *)
(* jquery.cookie.  Names are shared (auditId and state by payments and     *)
(* purchases, projectId by purchases and reports); paths and life times    *)
(* are what keeps them apart.  A value stands for the row it comes from.   *)
(***************************************************************************)
EXTENDS Integers, FiniteSets

CONSTANTS PayRows, HandledPayRows, PurchaseRows, HandledPurchaseRows, Projects,
          Undefined, Day,
          MaxTime    \* bound: how far the clock runs

Rows == PayRows \cup HandledPayRows \cup PurchaseRows \cup HandledPurchaseRows \cup Projects

ASSUME TimeAssumption == Day \in Nat \ {0} /\ MaxTime \in Nat
ASSUME RowsAssumption ==
    /\ Undefined \notin Rows
    /\ PurchaseRows \cap HandledPurchaseRows = {}
    /\ Undefined \notin {"pay", "purchase", "report", "/"} /\ Undefined # 1

\* /pay/portal, /purchase/portal, /report
PageDirs == {"pay", "purchase", "report"}
CookieNames == {"payId", "handledPayId", "poId", "auditId", "projectId", "state"}

JQ == INSTANCE JQueryCookie WITH
        Names <- CookieNames, Values <- Rows, Dirs <- PageDirs, Root <- "/"

VARIABLES jar,  \* the browser's cookies, by name and path
          now   \* the time in seconds; a day is a few of them

vars == <<jar, now>>

Read(dir, name) == JQ!cookie(jar, now, dir, name)

\* { expires: 1, path: '/' }, and no options
OneDay == [expires |-> 1, path |-> "/"]
NoOptions == [expires |-> Undefined, path |-> Undefined]

Init == /\ jar = [slot \in CookieNames \X JQ!Paths |-> JQ!NoCookie]
        /\ now = 0

-------------------------------------------------------------------------------
(* detail(...) of pay/waitingPayOrderList.html, a page of /pay/portal.  Every *)
(* call of $.cookie reads the clock again: after the first cookies of a row   *)
(* the second may turn.                                                       *)

WrittenAt(before, call) == IF call <= before THEN now ELSE now + 1

PutPurchase(j, name, r, before, call) ==
    JQ!write(j, WrittenAt(before, call), "pay", name, r, OneDay)

\* Mutated form: the number is written last and outlives the rest.
PurchaseCookies_idLast(r, before) ==
    LET auditId == PutPurchase(jar, "auditId", r, before, 1)
        projectId == PutPurchase(auditId, "projectId", r, before, 2)
        state == PutPurchase(projectId, "state", r, before, 3)
    IN  PutPurchase(state, "poId", r, before, 4)

PurchaseCookies(r, before) ==
    LET poId == PutPurchase(jar, "poId", r, before, 1)
        auditId == PutPurchase(poId, "auditId", r, before, 2)
        projectId == PutPurchase(auditId, "projectId", r, before, 3)
    IN  PutPurchase(projectId, "state", r, before, 4)

OpenPurchase(r) ==
    /\ \E before \in 1 .. 4 : jar' = PurchaseCookies(r, before)
    /\ UNCHANGED now

OpenHandledPurchase(r) ==
    /\ \E before \in 1 .. 2 :
         jar' = PutPurchase(PutPurchase(jar, "poId", r, before, 1), "projectId", r, before, 2)
    /\ UNCHANGED now

\* Mutated form: with the options of a purchase, as templates/test has it.
PayCookies_everywhere(r) ==
    JQ!write(JQ!write(JQ!write(jar, now, "pay", "payId", r, OneDay),
                      now, "pay", "auditId", r, OneDay),
             now, "pay", "state", r, OneDay)

PayCookies(r) ==
    JQ!write(JQ!write(JQ!write(jar, now, "pay", "payId", r, NoOptions),
                      now, "pay", "auditId", r, NoOptions),
             now, "pay", "state", r, NoOptions)

OpenPay(r) == jar' = PayCookies(r) /\ UNCHANGED now

OpenHandledPay(r) ==
    /\ jar' = JQ!write(jar, now, "pay", "handledPayId", r, NoOptions)
    /\ UNCHANGED now

\* handleDetail(row) of report/stockReportList.html, a page of /report.
OpenProject(p) ==
    /\ jar' = JQ!write(jar, now, "report", "projectId", p, NoOptions)
    /\ UNCHANGED now

-------------------------------------------------------------------------------
(* The browser (external).                                                   *)

Tick == now < MaxTime /\ now' = now + 1 /\ UNCHANGED jar

\* Closing it ends the session; pages opened later, from a notice or a bookmark,
\* find the cookies that have a date.
CloseBrowser ==
    /\ jar' = [slot \in CookieNames \X JQ!Paths |->
                 IF jar[slot].session THEN JQ!NoCookie ELSE jar[slot]]
    /\ UNCHANGED now

Next == \/ \E r \in PurchaseRows : OpenPurchase(r)
        \/ \E r \in HandledPurchaseRows : OpenHandledPurchase(r)
        \/ \E r \in PayRows : OpenPay(r)
        \/ \E r \in HandledPayRows : OpenHandledPay(r)
        \/ \E p \in Projects : OpenProject(p)
        \/ Tick
        \/ CloseBrowser

Spec == Init /\ [][Next]_vars

-------------------------------------------------------------------------------
(* Every cookie is one of these, by name and path, and none is dated later   *)
(* than a day after the last call that may have written it (a second ahead). *)
TypeOK ==
    /\ jar \in [CookieNames \X JQ!Paths -> JQ!Cookie]
    /\ now \in Nat
    /\ \A slot \in CookieNames \X JQ!Paths : jar[slot].until <= now + 1 + Day

(* The payment page reads payId, auditId and state when a button is pressed  *)
(* (paySubstituteDetail.html verifyPass).  The last two names exist for      *)
(* purchases too, valid on every page and alive after the browser was        *)
(* closed: a page that has its payId has the three of one row, and a page    *)
(* that lost it reads no payment's task, only a waiting purchase's together  *)
(* with that one's state, or none.                                           *)
PayCookiesTogether ==
    LET payId == Read("pay", "payId")
        auditId == Read("pay", "auditId")
        state == Read("pay", "state")
    IN  /\ payId # Undefined => auditId = payId /\ state = payId
        /\ payId = Undefined => /\ auditId \in PurchaseRows \cup {Undefined}
                                /\ auditId # Undefined => state = auditId

(* The purchase page reads four cookies when a button is pressed             *)
(* (orderDetail.html verifyPass).  They run out one after the other: a page  *)
(* that still has the number of a waiting row has the rest of that row.      *)
PurchaseRowComplete ==
    Read("purchase", "poId") \in PurchaseRows
        => /\ Read("purchase", "auditId") = Read("purchase", "poId")
           /\ Read("purchase", "projectId") = Read("purchase", "poId")
           /\ Read("purchase", "state") = Read("purchase", "poId")

(* The variables of CookieJars: the last two are all that the payment page   *)
(* and the report page read.  project is what was written for a report page, *)
(* as the page itself cannot tell it from a purchase's.                      *)
AbstractPayRow == Read("pay", "payId")
AbstractHandledPay == Read("pay", "handledPayId")
AbstractProject == JQ!ValueAt(jar[<<"projectId", "report">>], now)
AbstractPurchase == [poId |-> Read("purchase", "poId"), auditId |-> Read("purchase", "auditId"),
                     projectId |-> Read("purchase", "projectId"),
                     state |-> Read("purchase", "state")]
AbstractPayPage == [payId |-> Read("pay", "payId"), auditId |-> Read("pay", "auditId"),
                    state |-> Read("pay", "state")]
AbstractReportPage == Read("report", "projectId")

Jars == INSTANCE CookieJars WITH
    payRow <- AbstractPayRow, handledPay <- AbstractHandledPay,
    project <- AbstractProject, purchase <- AbstractPurchase,
    payPage <- AbstractPayPage, reportPage <- AbstractReportPage

(* What the detail pages read through the browser's cookies is what the      *)
(* separate jars say: their own row if it is there, a purchase's task, state *)
(* or project in the cases named there, and never anything else              *)
(* (waitingPayOrderList.html detail, stockReportList.html handleDetail, and  *)
(* the pages they lead to).                                                  *)
ImplementsJars == Jars!Spec
===============================================================================
