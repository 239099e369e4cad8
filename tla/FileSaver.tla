------------------------------- MODULE FileSaver -------------------------------
(***************************************************************************)
(* saveAs of FileSaver.js in a page: what is saved passes through timers,  *)
(* object URLs, requests, readers and popups, each with its callback.      *)
(* Time is counted since an object URL was made and since a callback was   *)
(* due.  Whether the blob is of the type `force' asks for is a choice.     *)
(***************************************************************************)
EXTENDS Integers, Sequences

CONSTANTS Saves,        \* calls of saveAs
          Browsers,     \* the browsers considered
          Loader,       \* what loads the script: a script tag is "global"
          RevokeDelay,  \* 4E4 milliseconds, in steps of time
          LateBy,       \* how late the browser may run a timer
          PickUpTime    \* how long it may take to read an object URL it was sent to

\* download: HTMLAnchorElement has that attribute; ms: navigator.msSaveOrOpenBlob;
\* blocker: popups open on a user's action only; reader: typeof FileReader.
BrowserType == [download : BOOLEAN, ms : BOOLEAN, blocker : BOOLEAN, safari : BOOLEAN,
                chromeIOS : BOOLEAN, reader : {"object", "function"}]

ASSUME BrowsersAssumption == Browsers \subseteq BrowserType
ASSUME LoaderAssumption == Loader \in {"amd", "commonjs", "global"}
ASSUME TimeAssumption == RevokeDelay \in Nat /\ LateBy \in Nat /\ PickUpTime \in Nat
ASSUME DelayAssumption == LateBy + PickUpTime < RevokeDelay

\* What saveAs is given: a blob, or the address of a file here, of one elsewhere
\* that may be read from here (CORS), of one elsewhere that may not.
Things == {"blob", "here", "shared", "elsewhere"}
Addresses == Things \ {"blob"}

VARIABLES
    browser,
    here,     \* the page is still there
    doing,    \* the callback each save waits for
    waits,    \* for how long it has been due
    urls,     \* saves whose object URL is live
    age,      \* time since it was made
    windows,  \* popups each save opened, and what they show
    popup,    \* the popup its file goes to; 0: the page itself
    outcome   \* how each save ended

vars == <<browser, here, doing, waits, urls, age, windows, popup, outcome>>

Callbacks == {"idle", "click", "pick", "link", "get", "denied", "read", "done"}
Outcomes == {"none", "file", "link", "error", "unread"}  \* unread: by the browser
Shows == {"downloading...", "file", "null"}

Init == /\ browser \in Browsers
        /\ here = TRUE
        /\ doing = [s \in Saves |-> "idle"] /\ waits = [s \in Saves |-> 0]
        /\ urls = {} /\ age = [s \in Saves |-> 0]
        /\ windows = [s \in Saves |-> <<>>] /\ popup = [s \in Saves |-> 0]
        /\ outcome = [s \in Saves |-> "none"]

-------------------------------------------------------------------------------
WaitFor(s, callback) == /\ doing' = [doing EXCEPT ![s] = callback]
                        /\ waits' = [waits EXCEPT ![s] = 0]

Await(s, callback) == WaitFor(s, callback) /\ UNCHANGED outcome

End(s, result) == WaitFor(s, "done") /\ outcome' = [outcome EXCEPT ![s] = result]

NoURL == UNCHANGED <<urls, age>>
NoPopup == UNCHANGED <<windows, popup>>

\* A HEAD request that waits for its answer; a failed one says no.
corsEnabled(thing) == IF thing = "elsewhere" THEN {FALSE} ELSE BOOLEAN

\* The GET answers by onload or onerror, by onerror alone where reading is refused.
download(s, thing) == Await(s, IF thing = "elsewhere" THEN "denied" ELSE "get")

\* URL.createObjectURL, and the timer that revokes it.
createObjectURL(s) == urls' = urls \cup {s} /\ age' = [age EXCEPT ![s] = 0]

\* The download attribute: a link is clicked now, an object URL by a timer of 0.
saveAsAnchor(s, thing) ==
    /\ \/ thing = "blob" /\ createObjectURL(s) /\ Await(s, "click")
       \/ thing = "here" /\ End(s, "file") /\ NoURL
       \/ /\ thing \in Addresses \ {"here"} /\ NoURL
          /\ \E enabled \in corsEnabled(thing) :
                IF enabled THEN download(s, thing) ELSE End(s, "link")
    /\ NoPopup

saveAsMs(s, thing) ==
    /\ \/ thing = "blob" /\ End(s, "file")
       \/ /\ thing \in Addresses
          /\ \E enabled \in corsEnabled(thing) :
                IF enabled THEN download(s, thing) ELSE Await(s, "link")
    /\ NoURL /\ NoPopup

\* Mutated form: counts on a popup that was blocked.
Held_always(s, gesture) == Len(windows[s]) + 1

\* popup || open('', '_blank'): none opens when popups need a user's action.
Opened(s, gesture) ==
    IF gesture \/ ~browser.blocker THEN Append(windows[s], "downloading...") ELSE windows[s]
Held(s, gesture) == IF gesture \/ ~browser.blocker THEN Len(windows[s]) + 1 ELSE 0

ReadsAsData(force) ==
    (browser.chromeIOS \/ (force /\ browser.safari)) /\ browser.reader = "object"

\* popup.location = url, or location = url where there is none.
Sent(shown, to, what) == IF to = 0 THEN shown ELSE [shown EXCEPT ![to] = what]

saveAsPopup(s, thing, gesture) ==
    \/ /\ thing \in Addresses         \* download(blob, name, opts) gets no popup
       /\ windows' = [windows EXCEPT ![s] = Opened(s, gesture)]
       /\ popup' = [popup EXCEPT ![s] = 0]
       /\ download(s, thing) /\ NoURL
    \/ /\ thing = "blob"
       /\ popup' = [popup EXCEPT ![s] = Held(s, gesture)]
       /\ \E force \in BOOLEAN :
            IF ReadsAsData(force)
            THEN /\ windows' = [windows EXCEPT ![s] = Opened(s, gesture)]
                 /\ Await(s, "read") /\ NoURL
            ELSE /\ windows' = [windows EXCEPT ![s] = Sent(Opened(s, gesture), Held(s, gesture), "file")]
                 /\ Await(s, "pick") /\ createObjectURL(s)

saveAs(s, thing, gesture) ==
    \/ browser.download /\ saveAsAnchor(s, thing)
    \/ ~browser.download /\ browser.ms /\ saveAsMs(s, thing)
    \/ ~browser.download /\ ~browser.ms /\ saveAsPopup(s, thing, gesture)
-------------------------------------------------------------------------------
\* The user's action calls saveAs, which the script made global.
CallSaveAs(s, thing) == /\ here /\ doing[s] = "idle"
                        /\ saveAs(s, thing, TRUE)
                        /\ UNCHANGED <<browser, here>>

\* mod.exports stays {}: saveAs is put into module.exports only, where there is one.
FileSaverHasSaveAs == Loader = "commonjs"

\* The page calls FileSaver.saveAs, and logs what that throws.
exportExcel(s) ==
    /\ here /\ doing[s] = "idle"
    /\ IF FileSaverHasSaveAs THEN saveAs(s, "blob", TRUE)
                             ELSE End(s, "error") /\ NoURL /\ NoPopup
    /\ UNCHANGED <<browser, here>>

\* saveAs(xhr.response, name, opts), long after the user acted.
onload(s) == /\ here /\ doing[s] = "get"
             /\ saveAs(s, "blob", FALSE)
             /\ UNCHANGED <<browser, here>>

onerror(s) == /\ here /\ doing[s] \in {"get", "denied"}
              /\ End(s, "error")
              /\ NoURL /\ NoPopup /\ UNCHANGED <<browser, here>>

\* The timer of 0: the link to the object URL is clicked.
click(s) == /\ here /\ doing[s] = "click"
            /\ Await(s, "pick")
            /\ NoURL /\ NoPopup /\ UNCHANGED <<browser, here>>

clickLink(s) == /\ here /\ doing[s] = "link"
                /\ End(s, "link")
                /\ NoURL /\ NoPopup /\ UNCHANGED <<browser, here>>

\* A page sent to a file goes away if the browser shows the file: its object
\* URLs go with it.
Leaves(s) == ~browser.download /\ popup[s] = 0
GoTo(s) == /\ here' \in (IF Leaves(s) THEN BOOLEAN ELSE {TRUE})
           /\ urls' = IF here' THEN urls ELSE {}

\* The browser reads the object URL it was sent to, if it can read the data.
PickUp(s) == /\ here /\ doing[s] = "pick"
             /\ \E result \in (IF s \in urls THEN {"file", "unread"} ELSE {"error"}) :
                   End(s, result)
             /\ GoTo(s)
             /\ UNCHANGED <<browser, age, windows, popup>>

\* Mutated form: what was read goes to a popup or nowhere.
Goes_popupOnly(s, what) == /\ popup[s] # 0
                           /\ windows' = [windows EXCEPT ![s] = Sent(windows[s], popup[s], what)]
                           /\ GoTo(s)

\* Mutated form: what was read goes to the page, whatever was opened.
Goes_page(s, what) == GoTo(s) /\ UNCHANGED windows

\* popup.location.href = url, or location = url.
Goes(s, what) == /\ windows' = [windows EXCEPT ![s] = Sent(windows[s], popup[s], what)]
                 /\ GoTo(s)

\* After an error reader.result is null, which is an address for Chrome on iOS and
\* elsewhere has no replace: that throws, and the popup stays as it was.
onloadend(s) == /\ here /\ doing[s] = "read"
                /\ \/ End(s, "file") /\ Goes(s, "file")
                   \/ End(s, "unread") /\ browser.chromeIOS /\ Goes(s, "null")
                   \/ End(s, "unread") /\ ~browser.chromeIOS /\ UNCHANGED <<here, urls, windows>>
                /\ UNCHANGED <<browser, age, popup>>

\* Mutated form: revoked by a timer of 0, as the click is.
Revoke_atOnce(s) == /\ here /\ s \in urls
                    /\ urls' = urls \ {s}
                    /\ UNCHANGED <<browser, here, doing, waits, age, windows, popup, outcome>>

\* Mutated form: the branch of the popup arms no timer.
Revoke_links(s) == /\ here /\ s \in urls /\ age[s] >= RevokeDelay /\ browser.download
                   /\ urls' = urls \ {s}
                   /\ UNCHANGED <<browser, here, doing, waits, age, windows, popup, outcome>>

Revoke(s) == /\ here /\ s \in urls /\ age[s] >= RevokeDelay
             /\ urls' = urls \ {s}
             /\ UNCHANGED <<browser, here, doing, waits, age, windows, popup, outcome>>

\* What the browser may take: LateBy for a timer, PickUpTime to read a URL.
Limit(s) == IF doing[s] = "pick" THEN PickUpTime ELSE LateBy
Timed == {s \in Saves : doing[s] \in {"click", "link", "pick"}}

Tick == /\ here
        /\ \A s \in Timed : waits[s] < Limit(s)
        /\ \A s \in urls : age[s] < RevokeDelay + LateBy
        /\ waits' = [s \in Saves |-> IF s \in Timed THEN waits[s] + 1 ELSE waits[s]]
        /\ age' = [s \in Saves |-> IF s \in urls THEN age[s] + 1 ELSE age[s]]
        /\ UNCHANGED <<browser, here, doing, urls, windows, popup, outcome>>

Next == \/ \E s \in Saves :
             \/ \E thing \in Things : CallSaveAs(s, thing)
             \/ exportExcel(s) \/ onload(s) \/ onerror(s) \/ click(s) \/ clickLink(s)
             \/ PickUp(s) \/ onloadend(s) \/ Revoke(s)
        \/ Tick

\* Timers, the reader and a URL the browser was sent to are served; a GET may
\* stay unanswered, for the request has no timeout.
Served(s) == click(s) \/ clickLink(s) \/ PickUp(s) \/ onloadend(s)

Spec == Init /\ [][Next]_vars
FairSpec == Spec /\ WF_vars(Tick) /\ \A s \in Saves : WF_vars(Served(s)) /\ WF_vars(Revoke(s))
-------------------------------------------------------------------------------
\* Types and ranges: no object URL outlives its timer (lines 113-115), and a popup is
\* held only when it opened (lines 143-147).
TypeOK == /\ browser \in Browsers /\ here \in BOOLEAN
          /\ doing \in [Saves -> Callbacks] /\ outcome \in [Saves -> Outcomes]
          /\ waits \in [Saves -> Nat] /\ age \in [Saves -> Nat]
          /\ urls \subseteq Saves
          /\ windows \in [Saves -> Seq(Shows)] /\ popup \in [Saves -> Nat]
          /\ \A s \in Saves : /\ age[s] <= RevokeDelay + LateBy
                              /\ popup[s] <= Len(windows[s])

\* While the page is there, the object URL a save was sent to is live until the
\* browser has read it, although the timer that revokes it was armed before the
\* one that clicks the link (FileSaver.js lines 113-119, 170-176).
PickedUpIsLive == here => \A s \in Saves : doing[s] \in {"click", "pick"} => s \in urls

\* Data of the page, once taken, is saved: its timer, reader or read of the URL
\* ends with the file, unless the browser itself cannot read the data or another
\* save takes the page away (lines 112-119, 158-167, 169-176).
BlobIsSaved == \A s \in Saves :
    doing[s] \in {"click", "pick", "read"} ~> outcome[s] \in {"file", "unread"} \/ ~here

\* No object URL outlives its use: each is revoked in the end (lines 113, 174).
UrlsAreRevoked == \A s \in Saves : s \in urls ~> s \notin urls

\* A file that a popup is there for is shown in that popup, whichever way it was made
\* and however long after the user acted (lines 143, 163, 171).
SentToItsPopup == \A s \in Saves :
    outcome[s] = "file" /\ popup[s] # 0 => windows[s][popup[s]] = "file"
===============================================================================
