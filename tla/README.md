# wechat-cp: specifications, model checking and proofs

The program is a WeChat Work ("企业微信") front end to an approval and reporting
system called scfs.  Auditors log in through WeChat, see the orders that wait for
them, agree or refuse; the Spring application resolves who they are and passes
their decision on to scfs, which is *not* in this repository.  This directory
holds TLA+ modules for its core, the TLC runs over small instances, and TLAPS
proofs for all instances.

Paths below are relative to `src/src/main/java/com/wx/cp/` (Java),
`src/src/main/resources/templates/` (pages) and
`src/src/main/resources/static/js/` (scripts).

## 1. Inventory

| Part | State | Operations | Talks to | What makes it correct |
|---|---|---|---|---|
| Decision routing: `utils/VerifyUtil`, `StatusUtil.getAuditStatus`, `URLConstant` | none | `verify` (a switch without breaks), `unPass` (two ifs) | scfs, by one POST | each decision reaches at most one end point, that of its own node and type |
| Decision handler: `VerifyController.verifyPass`, `HttpUtil`, `ServerResponse` | none; a thread per request | `POST /verify/pass` | session, routing | the answer comes after the back end decided; what it says is true |
| Approval pages: `pay/waitingPayOrderList`, `pay/paySubstituteDetail`, `purchase/orderDetail`, the two `handled…` pages | cookies `payId`, `poId`, `auditId`, `state`, `handledPayId`, shared by all pages of a browser; what each page shows | open a waiting or handled order, agree, refuse, go back | order queries, `/verify/pass` | what is decided is the order shown, at the node shown, once |
| Cookies: `jquery.cookie.js`, as all list and detail pages use it | the browser's cookies, by name and path | `$.cookie(name, value, options)`, `$.cookie(name)` | browser | each kind of page reads the row its own kind wrote last, and what it reads without one is the same for all; text is read back as written |
| Payment page: the parts of `pay/paySubstituteDetail` | pending requests, parts shown | mount, toggle of the lines, answers | order queries, cookies | all parts are of one payment |
| Saving a file: `FileSaver.js`, called by `test/product-detail` | object URLs, timers, popups, readers | `saveAs` in three implementations, `exportExcel` | browser | the data is saved, in the popup opened for it, and its address is given back |
| Back end scfs (external) | orders, audit tasks, who audits | order queries, audit end points, refusal end points | – | – |
| Login and session: `WechatController.userInfo`, `TokenUtil`, `CookieUtil`, Redis | Redis keys `token_…`, cookie `token` | login by code, `setToken`, `getToken` | WeChat, every handler | requests act for whoever logged in with that browser |
| Order queries: `PayController`, `PurchaseController`, `auditRecords` | none | waiting list, resolved list, details, records | scfs | lists neither lose nor invent orders |
| Notifications: `sendMessageText/TextCard/Markdown` | none | one message each | WeChat | a notice is delivered or the caller learns that it was not |
| WeChat callback: `WxPortalController`, `WxCpConfiguration.newRouter`, `handler/`, `builder/` | message router, its executor | verify URL, receive message, route | WeChat, library | the right rule answers; a repeated message is answered once |
| Reports: `controller/report/`, `report/*.html`, `DateUtil` | none | stock and goods reports, totals | scfs | the totals are totals of what is shown |
| SQL queries in `doc/` | none | stock, purchase, sale reports | a database elsewhere | stock is conserved |
| Configuration, error pages, value objects, empty services, demos, vendored scripts | – | – | – | – |

Parts interact in three ways.  Pages and handlers by HTTP, where requests and
answers are lost and repeated; pages among themselves **by cookies only** (the
list page writes the order it opens, the detail page reads it when it loads and
again when a button is pressed); handlers and scfs by synchronous POSTs.

Hard behaviours: several live pages over one set of cookies; the time between
list, page, press, post and decision, in which other auditors work on the same
order; buttons that stay live; failures that are swallowed and answered with
success; a switch that falls through; tokens and cookies that run out at different
times; logins at the same time; cookies of one name written by different pages for
different paths; answers that come in any order; timers that race the browser;
reads that fail.  `PROJECT.json` lists them as hazards, each at its line, with the
properties aimed at it.

## 2. Modules

| Module | What it is |
|---|---|
| `VerifyRouting` | The end point a (node, type) pair is posted to, in closed form; a pure module used by all others. |
| `VerifySwitch`, `MCVerifySwitch` | The Java switch as a state machine: one behaviour is one call. Checked against `VerifyRouting`. |
| `VerifySwitchProofs` | Theorems about `VerifySwitch`: the closed form is what the switch does. |
| `Approval` | Pages, cookies, handler and back end together. The core. |
| `ApprovalProperties` | Type invariant, safety, action and liveness properties of `Approval`. |
| `Decisions` | Abstract: an auditor's decision takes effect at most once, on its order and at its node, or comes to nothing. |
| `ApprovalRefinement` | The mapping from `Approval` to `Decisions`. |
| `MCApproval` | Small flows for the runs of `Approval`. |
| `ApprovalProofs` | Theorems about `Approval`: types, bodies, nodes, closed pages. |
| `ApprovalRefinementProofs` | Theorems about what is decided, and that repeating an approval counts once; the refinement of `Decisions`. |
| `Session`, `MCSession` | Logins, tokens in Redis, token cookies, their expiry. |
| `SessionProofs` | Theorems about `Session`. |
| `JQueryCookie` | `$.cookie` over names, paths and expiry: pure operators. |
| `CookieText` | `$.cookie` over the text of values: pure operators. |
| `CookieJars` | Abstract: a jar for each kind of page, and what a page reads where its own is empty. |
| `PageCookies`, `MCPageCookies` | All pages that write or read cookies, through `JQueryCookie`; implements `CookieJars`. The MC module also checks `CookieText`. |
| `PageCookiesProofs` | Theorems about `PageCookies`, the refinement among them, and about `CookieText`. |
| `PayDetail`, `MCPayDetail` | The payment page's parts, their requests and answers. |
| `PayDetailProofs` | Theorems about `PayDetail`. |
| `OrderLists`, `MCOrderLists` | The waiting and the resolved list. |
| `OrderListsProofs` | Theorems about `OrderLists` and its loops. |
| `FileSaver`, `MCFileSaver` | `saveAs` and its callbacks in every kind of browser. |
| `FileSaverProofs` | Theorems about `FileSaver`. |

`Approval` has one jar for the cookies of payments and one for those of
purchases.  `PageCookies` and its refinement of `CookieJars` say when this is
right: a payment page that still has its `payId` reads a payment's cookies only
(`PayCookiesTogether`), and a purchase page never reads a payment's.  A payment
page that lost its cookies would read the task and state of a purchase; `Approval`
does not reach this, since its browser is never closed.  `PayDetail` is finer than
`Approval` where the latter mounts a page in one step, and `OrderLists` where it
shows a set of tasks.

Operators whose comment says *mutated form* (`verify_last`, `Body_handledId`, …)
are not part of the model.  Each is a plausible bug in the definition after it; a
run with that definition replaced by it must fail, which shows that the property
the run checks depends on the code.

### How `Approval` corresponds to the code

* **Tab** = a live page of the auditor's browser.  Two tabs may also stand for a
  page kept alive by the browser's back/forward cache, or the two windows WeChat's
  built-in browser opens from two notices.  A page is blank until `Mount`.
* `payJar`, `purchaseJar`: the cookies.  Those of payments are written without a
  path, so they belong to `/pay/portal`; those of purchases are written for `/`
  with one day to live.  As long as the payment cookies are there, which they are
  until the browser is closed, they hide the purchase's.  The handled *purchase*
  page uses the waiting page's `poId` (`OpenHandled`), the handled *payment* page
  has a cookie of its own.  `renewed` remembers that `poId` will outlive the
  cookies written before it (`PurchaseCookiesExpire`).
* `OpenWaiting`, `OpenHandled`: the two branches of `detail(...)`.
* `Mount`: `mounted()`; `verifyPass`, `verifyRefuse`: the buttons; the body is
  built from the cookies **at that moment** (`Body`).
* A press is a record `click[c]` that goes through the server's phases `sent` →
  `posted` → `answered` (or `refused`, `lost`) while the page that waits for it
  goes `waiting` → `closed` | `error` | `unseen`.
* `MethodNotAllowed`: GET to a POST mapping.  `AnswerWithoutPosting`: no token, no
  status name, no case, or a null state whose unboxing throws into the handler's
  catch.  `PostToBackend`: the session and the end point are settled, the POST
  leaves.  `Decide`/`Decline`: scfs acts and the handler answers.
* `PageClosed`: the `then` branch, taken on *any* 2xx answer; `PageError`:
  `catch`.
* Back end, external: orders pass the nodes of `Flow` one by one; an audit end
  point decides tasks of its own node and order type, whether it finds them by the
  order's id or the audit's (`Targets`, which takes either); a refusal closes the
  order.  `Colleague` is any other auditor.  A handled order stays on the resolved
  list.
* Assumed of scfs: a POST that ends in an exception for the handler (a reset
  connection, a gateway's 502 or 504; `VerifyController.java:65–68`) does not take
  effect afterwards (`Decline`).  If scfs decided later all the same, the page
  would already be back at the list, and `ClosedIsFinal` would not hold.

Left out of `Approval`: the suggestion text and its length check, `projectId`, the
audit records and line items (display only), closing the browser (see
`PageCookies`: a payment page opened without its cookies posts a purchase's task
and state, with a payment's type and no payment's id, and what scfs makes of that
is not in this repository), the auditor's rights at each node (scfs's business),
the two `…Sale…` pages no page leads to.

### How `Session` corresponds to the code

`Authorize` is the redirect to `/userInfo` with the cookies the browser had.
`CodeAccepted`/`CodeRejected` are the outcomes of `getUserInfo(code)`; the
accepted branch asks `isBlank(getToken(request))` at that moment, `setToken`
(`Store`) writes Redis and the response, `Redirected` is the response's arrival in
the browser.  A tick is longer than any request, so a request lives through at
most one.  `Lost` covers connections, restarts and an exception from Redis, which
`userInfo` does not catch (a user who is not a member, for whom WeChat returns no
`userId`, ends there too).  UUIDs are taken to be fresh.

### How `PageCookies` and `CookieText` correspond to the code

* A cookie is known by name and path (`jar`).  `JQueryCookie!write` is the writing
  half of `$.cookie`: `expires: 1` becomes a date a day later, no `expires` a
  cookie of the session; no `path` means the directory of the page. `cookie` is
  the reading half: the first of that name in `document.cookie`, where browsers
  put longer paths first.
* `OpenPurchase`, `OpenHandledPurchase`, `OpenPay`, `OpenHandledPay` are the four
  branches of `detail(...)`, `OpenProject` is `handleDetail` of the stock report.
  A value stands for the row it comes from, so that "these cookies are of one row"
  is equality.  Every call of `$.cookie` reads the clock: the second may turn
  after any of the four (`before`).
* `Tick` and `CloseBrowser` are the browser's.
* `CookieJars` has a variable per kind of page and no names, paths or dates;
  `RunOut` there is the running out of the purchase cookies one after the other.
  Its `payPage` and `reportPage` are all that the payment page and the report page
  read (`Shown`): their own row, or, when that is gone, the task and state, or the
  project, of a purchase.  The mapping takes both from the browser's cookies as
  the pages read them.
* `CookieText`: a text is a sequence of characters, an escaped character counts as
  one.  `parseCookieValue` is the unquoting, the replacement of pluses and the
  decoding, in that order.  `MCPageCookies` starts either with the pages or with
  one text, which is read and not changed.

Left out: cookies of other pages of the host (the loop over `document.cookie` ends
at the first of the wanted name, which is what `JQueryCookie!cookie` picks);
`$.cookie()` without a name and `$.removeCookie`, which no page calls; `raw`,
`json` and converters, which no page sets; the domain and secure options; the
loader at the top.

### How `PayDetail` corresponds to the code

`mounted()` asks for the payment (`list`) and its records (`auditRecords`) in one
step of the browser; `Toggle` is `payPoRelationDetail`, which folds or unfolds the
lines and asks for them either way, with the cookie as it is then. `Answer` takes
any request that is pending.  `AnswerEmpty` is the handler's catch, which answers
with success and no data.  A request that fails or is never answered stays
pending.  A new page (`NewPage`) gets no answers to the old one.

### How `OrderLists` corresponds to the code

`waitingAuditOrder` cuts the first page (`PageVO`) and then filters by type, in
this order.  `payOrderQuery` keeps the first audit of each `poId`.  `RowsAt` is
the loop both are written with: it adds the rows it keeps to a new list.  `Load`
is the page opened or loaded again, with new, empty data; `mounted()` then calls
`list`, once (`stage`).  Without data (a failed query, no session) `list` throws
inside `then` and the page stays empty, as if nothing waited.  `resolved` is the
second tab, at any time; without data it shows nothing.  `Arrives` and `Decided`
are scfs.

### How `FileSaver` corresponds to the code

`saveAsAnchor`, `saveAsMs`, `saveAsPopup` are the three implementations, chosen by
what `browser` offers.  A save is in the state of the callback it waits for
(`doing`): a timer that clicks (`click`, `link`), the browser's reading of an
object URL (`pick`), a GET (`get`, `denied`), a reader (`read`).  `urls` are the
object URLs that live, `age` the time since each was made.  A popup opens on a
user's action or without a blocker (`Opened`); the popup a save holds is `popup`.
`exportExcel` is the call in `test/product-detail.html`; with a script tag
`FileSaver` is `{}` and the call throws.  A page whose own address was replaced
may be gone (`GoTo`).  The browser may fail to read the data, from an object URL
or with a reader: the outcome is then `unread`.  `onloadend` runs in that case
too, with null for the result: in Chrome on iOS the popup, or the page, is sent to
that (`Goes`), elsewhere the replacement in it throws and the popup stays as it
was.

Left out: `bom` (off unless asked for), the noop of a web worker, names and types
of files, leaving the page by the user.

## 3. Runs

| Run | Checks | Shows |
|---|---|---|
| `verify_switch` | `TypeOK`, `PostsClosedForm`, `OwnEndpointIsUsed` | the switch and the ifs do what `VerifyRouting` says, also for a body without a state |
| `one_page` | `TypeOK`, `DecisionWasShown`, `ApprovalTakesEffect`, `PurchaseRefusalTakesEffect`, `ClickIsAnswered` | with one live page the order decided is the order shown, and decisions take effect |
| `two_pages` | `PayBodyCoherent`, `ClosedIsFinal`, `ImplementsDecisions`, `DecisionsAreConcluded` | two pages, one press: payment bodies never mix two orders; a closed page's outcome is final; refinement of `Decisions`; every decision is concluded |
| `retries` | `AgreedAtPostedNode`, `SameApprovalCountsOnce`, `ClosedIsFinal`, `ImplementsDecisions` | one page, two presses, an order of two nodes, every outside event: repeated decisions count once and at their node, and a closed page's outcome is final, also when the back end fails |
| `pay_refusal` | `PayRefusalTakesEffect` (violated) | a payment cannot be refused: GET to a POST handler |
| `closed_not_decided` | `ClosedMeansDecided` (violated) | the page leaves as if decided when nothing was |
| `shared_cookies` | `DecisionWasShown` (violated) | two live pages: the button under one order decides the other |
| `session` | `TypeOK`, `ResolvedWasAuthenticated`, `SessionLastsAsItsCookie`, `LiveSessionIsKept`, `LoginGivesSession` | concurrent logins: tokens keep their owners, and a session lasts as long as its cookie |
| `cookies` | `TypeOK`, `PayCookiesTogether`, `PurchaseRowComplete`, `ImplementsJars`; `OwnValueIsReadBack`, `QuotedValueIsReadBack`, `FormEncodedIsReadBack` | one browser's cookies behave as the jars of `CookieJars`, fallback reads included; their text survives writing and reading |
| `pay_detail` | `TypeOK`, `RecordsAreOfTheOrder` | the records under a payment are its own, however answers arrive |
| `order_lists` | `TypeOK`, `DecidedIsListedOnce`, `WaitingIsReachable` | one row per number decided; a waiting list that comes back empty is so for a reason |
| `file_saver` | `TypeOK`, `PickedUpIsLive`, `SentToItsPopup`, `BlobIsSaved`, `UrlsAreRevoked` | overlapping saves in every kind of browser |

`DecisionWasShown` holds in `one_page` and fails in `shared_cookies`: the second
live page is the whole difference.

**Disagreements without a run.**  Each of these is visible at its line and was met
while modelling; those that are hazards are listed as such.

* `VerifyUtil.java:78`: a purchase at node 80 ("部门主管审核") falls through to the
  general manager's end point; a payment at node 10 to the financial specialist's.
* `WechatController.java:109`: a live token outlasts the login of another user.
* `paySubstituteDetail.html:202`, `inventoryReportDetail.html:77`: without their
  own cookies the payment page reads a purchase's task and state, the report page
  a purchase's project.
* `paySubstituteDetail.html:157`: the lines are asked for with the cookie as it is
  at the toggle, so with two pages they may be another payment's.
* `PayController.java:115`: a decided payment and purchase of one number hide each
  other.
* `waitingPayOrderList.html:123`: a failed query or a request without a session
  leaves the list as empty as if nothing waited.
* `waitingPayOrderList.html:121`: only the first 25 documents are asked for, while
  `URLConstant.java:20` says "所有".
* `StockReportController.java:52`: the locked stock is set from the total stock.
* `jquery.cookie.js:87`: a name that cannot be decoded throws, while the comment
  at :43 says that what cannot be decoded is ignored.
* `FileSaver.js:160–162`: after a read error the popup is sent to null, or the
  replacement throws and it says "downloading..." for ever.
* `FileSaver.js:149`: for an address, the popup that was opened at once is
  dropped; `product-detail.html:576` calls a `FileSaver` that its loader leaves
  empty.

**Bounds.**  `verify_switch` is exhaustive over the codes and types
`StatusConstant` names (0–100, 1–30), one or two beyond, and null for the code.
In `Approval`, two pages suffice for one page to write between another's read and
press; two orders of a type for them to be confused; flows of two nodes for an
order to move on (`Short` orders have one and are finished sooner); two presses
for a repetition.  The flows of `MCApproval` use the nodes 10, 25 and 90, which
all have an end point: what unrouted codes post is `verify_switch`'s question.
`MaxClicks` bounds presses, nothing else is bounded: lists are reloaded and pages
reopened without limit.  `Environment` selects the outside events of a run;
`retries` has all of them, but only one page and one order.  `one_page` has
colleagues and expiring cookies but neither lost messages nor a failing back end,
since these are outcomes nobody can promise against; a colleague's decision counts
as the order's having passed.  `two_pages` needs payments: purchases could post an
order and a task of another (see `DecisionWasShown`), and the mapping takes the
order from the body.  `DecisionWasShown` says nothing of a page that is still
blank (`shown` = `None`): its buttons work, but it shows no order.  In `Session`,
three logins are enough for two concurrent ones followed by a third; `Expire` = 3
and `MaxTime` = 5 let a token run out and be replaced, and a token stored for one
tick too few be noticed; tokens, logins, users and browsers are interchangeable
(SYMMETRY).

In `cookies`, two rows of a kind let one replace another, a day of two seconds and
a clock to four let a row run out, be replaced while it does and run out again;
texts of five characters hold every pair that unquoting and decoding rewrite, with
something on both sides.  `pay_detail` has two pages, two payments and four
pending requests a page (a mount and two toggles).  `order_lists` has pages of two
rows, two orders with one number and a document of a type the list drops; four
tasks let an order come back after its first node.  `file_saver` has two saves to
overlap, eleven kinds of browser, a revocation after three steps and timers late
by one; the real ratio (40 seconds) is larger, and the proofs hold for any.

`CHECK_DEADLOCK FALSE` stands where behaviours end: `verify_switch` (the call
returned), `session` (logins and time are used up), `cookies` (a text is only
read) and `file_saver` (all saves are done).

**Fairness** (`FairSpec`).  In `Approval`: a request that arrived is handled by
its thread and the back end answers a post (`ServerStep`); the browser delivers an
answer to the page that waits for it (`AnswerStep`).  Nothing is assumed of the
auditor, of colleagues, or of expiry.  The code justifies the first for its own
steps: the handler has no loop, lock or wait except the POST.  For the POST it is
an assumption about scfs, as the `RestTemplate` sets no timeout; it is listed with
the hazards.  In `FileSaver`: the browser runs timers, ends readers and reads the
object URLs it was sent to (`Served`, `Revoke`), and time passes while the page is
there.  No GET is assumed to be answered, so nothing is promised for the saving of
addresses.

## 4. Proofs

`ApprovalProofs` proves, for all sets of pages and orders, all flows, any number
of presses and any environment:

* `TypeInvariant`: `Spec => []TypeOK`.  One lemma per group of actions.  Its
  substance is `decidedNodes[o] <= Len(Flow[o])`: no order passes more nodes than
  it has, since `Decide` takes a waiting task and `Colleague` an open order.
* `PayBodiesAreCoherent`: `Spec => []PayBodyCoherent`.  The bodies alone are not
  inductive, as they come from the cookies; `PayInv` adds that the payment cookies
  themselves are coherent, which only `OpenWaiting` could disturb.
* `ClosedDecisionsAreFinal`: `Spec => ClosedIsFinal`.  Strengthening: `ClosedInv`,
  a closed page's request is `answered`.
* `ApprovalsStayAtTheirNode`: if `FlowsAreRouted` (every node of every flow has an
  end point for its order's type) then `Spec => []AgreedAtPostedNode`. `NodeInv`
  carries the node from the cookies to the body, from the body to the end point
  (lemma `OwnEndpoint`: `verify` finds a node's own end point, whatever falls
  through below it) and from there to the task decided.  The assumption is needed:
  a node without an end point of its own (purchases at node 80) falls through to
  the next one's, see the disagreements in section 3.

`ApprovalRefinementProofs` adds what a decision is about:

* `DecisionsWereShown`: with one live page (`OnePage`), `Spec =>
  []DecisionWasShown`.  The property is about the end of a chain: the cookies a
  page would post name the order it shows or have run out (`PagesShowTheirJar`),
  so does the body (`BodiesAreShown`), and the task decided is of the body's order
  (`DecidedAsPosted`).
* `SameApprovalsCountOnce`: `Spec => []SameApprovalCountsOnce`, if no flow passes
  a node twice (`NodesDiffer`) and the cookies of purchases have one writer at a
  time (`CookiesAreOwn`: one live page, or payments only).  Two equal approvals
  that count are two tasks of one order with one code, hence one task. That no
  task is decided twice (`TaskDecidedOnce`) is not a result about this code: it
  follows from what is assumed of scfs, which decides waiting tasks only.
* `DecisionsAreImplemented`: if `FlowsAreRouted` and `CookiesAreOwn` then `Spec =>
  ImplementsDecisions`.  Initial states map to initial states and every action to
  a decision being made, taking effect or coming to nothing, to another auditor's
  decision, or to a stutter.

The hypotheses are needed.  With two live pages and purchases, a body can name the
order of one and the task of another, and scfs may take either; this is what
`shared_cookies` shows for `OnePage`.  A flow that passes a node twice lets an
approval repeated at its second passage count again.  The instances of the passing
runs satisfy them: `one_page` and `retries` have one page, `two_pages` payments
only, and the flows of `MCApproval` are routed and do not repeat.

`VerifySwitchProofs`, for any sets of codes and order types:

* `SwitchTypes`, `CallsPostTheClosedForm` (`PostsClosedForm`) and
  `OwnEndpointsAreUsed` (`OwnEndpointIsUsed`).  `CallInv` says that where the
  control has come to, nothing is posted yet and the end point still to be found
  is the one the closed form gives for the call.  The theorems of `Approval` rest
  on the closed form only.

`SessionProofs` does the same for `Session`, for any browsers, users, tokens,
logins and life of a token:

* `SessionTypes`: `Spec => []TypeOK`.
* `SessionsAreAuthenticated`: `Spec => []ResolvedWasAuthenticated`.  `OwnerInv`
  says that a token in a request is stored in Redis for that request's user (kept
  by the freshness of UUIDs), and that a token in a browser was brought there by a
  finished login of that browser.
* `LoginsGiveSessions`: `Spec => LoginGivesSession`.  `Young` bounds the age of a
  request by one tick and `StoredLonger` relates the token's expiry in Redis to
  the time its request was made, so that it is still there when the redirect
  arrives.  It uses `Expire > 1` (`TimeAssumption`): a token lives 30 days, a
  request seconds.
* `SessionsLastAsTheirCookies`: `Spec => []SessionLastsAsItsCookie`.  `DatedAlike`
  says that a cookie is dated at most a tick later than its token in Redis; it
  needs the age of requests again, and that no login stores an old token anew.
* `LiveSessionsAreKept`: `Spec => LiveSessionIsKept`.  Only a login whose request
  did not carry the live cookie may replace it, as the second of two concurrent
  ones does.  `SentInv` relates a login to the token its browser sent: once a
  login makes a token of its own, the one sent is over, and a token that is over
  does not come to life again.

`PageCookiesProofs`, for any rows, any length of a day and of the clock's run:

* `CookiesTyped`, `PayPagesReadOneRow` (`PayCookiesTogether`) and
  `PurchasePagesReadOneRow` (`PurchaseRowComplete`).  The inductive invariant
  `IInv` says which slots are in use and relates them: no page writes below
  `/purchase`; the three payment cookies are equal and end with the session
  (`PaysApart`); the four purchase cookies are dated, each is of the row of `poId`
  or of an earlier one, and `poId` never outlives the cookies written after it
  (`PurchasesApart`).  The properties alone are not inductive: they only speak of
  cookies that are alive at the moment.
* `PagesReadTheirJars`: `Spec => ImplementsJars`, every step mapped to a step of
  `CookieJars` or a stutter.  The two halves of a purchase row and the tick that
  ends some of its cookies are the long cases; what the payment page and the
  report page read, own or not, is one fact about every state (`Shown` of
  `CookieJars`).
* About `CookieText`, for texts of any length: `OwnValuesAreReadBack`,
  `FormValuesAreReadBack` and `QuotedValuesAreReadBack`.  The last is the deep
  one: `Undone` says how the two replacements stand after each character of the
  text, the first with a backslash possibly held back, the second with the text so
  far and nothing held back.

`FileSaverProofs`, for any saves, browsers and delays with `LateBy + PickUpTime <
RevokeDelay` (`DelayAssumption`: the revocation comes 40 seconds after the click's
timer of 0):

* `SavesTyped`, `UrlsOutliveTheirRead` (`PickedUpIsLive`), `FilesReachTheirPopup`
  (`SentToItsPopup`).  `IInv` bounds the age of an object URL by the time its
  callback has been due (`InTime`) and says that only a save by popup holds one,
  and that it shows the file before it is read (`ByPopup`).

`PayDetailProofs`, for any pages and orders:

* `DetailTyped`, `RecordsMatchTheirOrder` (`RecordsAreOfTheOrder`). `RecordsInv`:
  all that a page shows or waits for, the lines aside, is about one order, and a
  page that is not mounted shows and waits for nothing.
* `OnePageShowsOneOrder`: if there is one live page (`Alone`) then `Spec =>
  []LinesAreOfTheOrder`.  `LinesInv` adds that this order is the cookie's.  No run
  checks this property: it fails as soon as there are two pages.

`OrderListsProofs`, for lists of any length and pages of any size:

* `ListTypes`, `WaitingOrdersAreReachable` (`WaitingIsReachable`) and
  `DecidedOrdersAreListedOnce` (`DecidedIsListedOnce`).  `RowsAtPicks` is what the
  loop computes: the rows kept, each once, in their order (`Picks`, with the
  position each row came from).  `FirstRows`: of every number exactly one row is
  the first.

The loops of `OrderLists` and `CookieText` are functions defined by recursion on
the position.  The library's induction theorems take an operator and cannot be
instantiated here; the proofs use its theorem on well-founded relations, which
takes a set, in the form "every set of positions has a least one"
(`LeastPosition`): a claim that fails somewhere fails at a first position.

Assumptions on constants are those the modules declare, each as weak as the proofs
allow: orders of two disjoint types, flows of known status codes, `None`,
`Undefined` and `NoOrder` different from all values (`NullAssumption` among them:
null is no status code and no end point), `Expire > 1`, a day of at least a
second, pages of at least one row, `DelayAssumption`.  TLC evaluates them in the
runs of `MCVerifySwitch`, `MCApproval`, `MCSession`, `MCPageCookies`,
`MCFileSaver`, `MCPayDetail` and `MCOrderLists`.

Only model-checked: liveness under fairness, which is beyond the provers
(`ApprovalTakesEffect`, `PurchaseRefusalTakesEffect`, `ClickIsAnswered`,
`DecisionsAreConcluded`, `BlobIsSaved`, `UrlsAreRevoked`), and the three
violations.  Every invariant of a passing run and every action property is a
theorem, and so are both refinements.

## 5. Order of the work, and what is left

`VerifyRouting`, `VerifySwitch`, `Approval` with its properties, the refinement
and its proofs came first, being where decisions are made; then `Session`; then
the cookies, the payment page, the lists and the saving of files.

Left, in this order:

1. `SessionApproval`: `Approval` with the Boolean `session` replaced by
   `Session`'s Redis and cookie; it should refine `Approval`.
2. The same theorems once more over `SessionApproval`, where a decision would be
   that of a user rather than of a browser.
3. Weaker hypotheses: `SameApprovalsCountOnce` for two live pages that open
   different purchases, which needs the history of the cookies.

## 6. Not modelled

* Notifications (`sendMessageText`, `sendMessageTextCard`, `sendMessageMarkdown`):
  one stateless remote call each; nothing interleaves with it.
* The WeChat callback: the repository only lists rules.  Matching, the check for
  repeated messages and the executor of asynchronous rules are the weixin-java
  library's, whose source is not here.
* Reports, beyond the project their pages open: roundings, totals, default dates
  and number formats are formulas without state.  Rounding of amounts to cents in
  the details likewise.
* The parts of the other detail pages: the purchase page and the handled pages ask
  for their parts, and re-read their cookies at a toggle, in the same way as the
  payment page; `PayDetail` models the payment page only.
* The queries in `doc/`: no code here runs them, and their tables are not here.
* Configuration, error pages, API documentation, value objects, empty services,
  minified libraries (Vue, axios, jQuery, Element, layer), demo pages other than
  the export, tests: no state of their own, or not this program's code.
