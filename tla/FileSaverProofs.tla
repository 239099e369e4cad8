---------------------------- MODULE FileSaverProofs ----------------------------
(***************************************************************************)
(* Proofs about FileSaver: an object URL is not revoked before it is read, *)
(* and a file sent to a popup is shown there, for any saves, browsers and  *)
(* delays that satisfy DelayAssumption.                                    *)
(***************************************************************************)
EXTENDS FileSaver, TLAPS

(* How old the object URL of a save is, against how long its callback has    *)
(* been due: the URL was made when the timer of the click was armed.         *)
InTime(s) ==
    /\ here /\ doing[s] = "click" => s \in urls /\ age[s] <= waits[s] /\ waits[s] <= LateBy
    /\ here /\ doing[s] = "pick" => /\ s \in urls /\ age[s] <= LateBy + waits[s]
                                    /\ waits[s] <= PickUpTime

(* Only a save by popup holds one; what it is sent to shows the file.        *)
ByPopup(s) ==
    /\ popup[s] # 0 => ~browser.download /\ ~browser.ms
    /\ doing[s] = "click" => popup[s] = 0
    /\ outcome[s] = "file" => doing[s] = "done"
    /\ doing[s] = "pick" /\ popup[s] # 0 => windows[s][popup[s]] = "file"

SaveInv(s) == InTime(s) /\ ByPopup(s)

IInv == TypeOK /\ (\A s \in Saves : SaveInv(s)) /\ SentToItsPopup

-------------------------------------------------------------------------------
LEMMA Sending ==
    ASSUME NEW shown \in Seq(Shows), NEW to \in 0 .. Len(shown), NEW what \in Shows
    PROVE  /\ Sent(shown, to, what) \in Seq(Shows) /\ Len(Sent(shown, to, what)) = Len(shown)
           /\ to # 0 => Sent(shown, to, what)[to] = what
<1>1. CASE to = 0  BY <1>1 DEF Sent
<1>2. CASE to # 0
  <2>1. Sent(shown, to, what) = [shown EXCEPT ![to] = what]  BY <1>2 DEF Sent
  <2>2. to \in 1 .. Len(shown)  BY <1>2
  <2>3. [shown EXCEPT ![to] = what] \in Seq(Shows)
        /\ Len([shown EXCEPT ![to] = what]) = Len(shown)
        /\ [shown EXCEPT ![to] = what][to] = what
    BY <2>2
  <2> QED BY <2>1, <2>3
<1> QED BY <1>1, <1>2

LEMMA Opening ==
    ASSUME TypeOK, NEW s \in Saves, NEW gesture \in BOOLEAN
    PROVE  Opened(s, gesture) \in Seq(Shows) /\ Held(s, gesture) \in 0 .. Len(Opened(s, gesture))
<1>1. windows[s] \in Seq(Shows) /\ "downloading..." \in Shows  BY DEF TypeOK, Shows
<1>2. /\ Append(windows[s], "downloading...") \in Seq(Shows)
      /\ Len(Append(windows[s], "downloading...")) = Len(windows[s]) + 1
      /\ Len(windows[s]) \in Nat
  BY <1>1
<1> QED BY <1>1, <1>2 DEF Opened, Held

(* What an action of one save leaves as it was.                              *)
OthersKeep(s) == \A r \in Saves \ {s} :
    /\ doing'[r] = doing[r] /\ waits'[r] = waits[r] /\ age'[r] = age[r]
    /\ windows'[r] = windows[r] /\ popup'[r] = popup[r] /\ outcome'[r] = outcome[r]

(* What saveAs leaves of its save, by any of its three ways.                 *)
Started(s) ==
    /\ doing'[s] # "idle"
    /\ doing'[s] \in {"click", "pick"} => s \in urls' /\ age'[s] = 0 /\ waits'[s] = 0
    /\ doing'[s] = "click" => browser.download /\ popup'[s] = popup[s]
    /\ doing'[s] = "pick" /\ popup'[s] # 0 => windows'[s][popup'[s]] = "file"
    /\ popup'[s] = popup[s] \/ (~browser.download /\ ~browser.ms)
    /\ outcome'[s] = "file" /\ outcome[s] # "file" =>
          doing'[s] = "done" /\ popup'[s] = popup[s] /\ (browser.download \/ browser.ms)

LEMMA Waiting ==
    ASSUME TypeOK, NEW s \in Saves, NEW c \in Callbacks, Await(s, c)
    PROVE  /\ doing' \in [Saves -> Callbacks] /\ waits' \in [Saves -> Nat]
           /\ outcome' = outcome /\ doing'[s] = c /\ waits'[s] = 0
           /\ \A r \in Saves \ {s} : doing'[r] = doing[r] /\ waits'[r] = waits[r]
BY DEF TypeOK, Await, WaitFor

LEMMA Ending ==
    ASSUME TypeOK, NEW s \in Saves, NEW o \in Outcomes, End(s, o)
    PROVE  /\ doing' \in [Saves -> Callbacks] /\ waits' \in [Saves -> Nat]
           /\ outcome' \in [Saves -> Outcomes] /\ doing'[s] = "done" /\ outcome'[s] = o
           /\ \A r \in Saves \ {s} : /\ doing'[r] = doing[r] /\ waits'[r] = waits[r]
                                     /\ outcome'[r] = outcome[r]
BY DEF TypeOK, End, WaitFor, Callbacks

LEMMA Creating ==
    ASSUME TypeOK, NEW s \in Saves, createObjectURL(s)
    PROVE  /\ urls' \subseteq Saves /\ s \in urls' /\ urls \subseteq urls'
           /\ age' \in [Saves -> Nat] /\ age'[s] = 0
           /\ \A r \in Saves \ {s} : age'[r] = age[r]
           /\ \A r \in Saves : age'[r] <= RevokeDelay + LateBy
BY TimeAssumption DEF TypeOK, createObjectURL

LEMMA Names ==
    /\ {"idle", "click", "pick", "link", "get", "denied", "read", "done"} \subseteq Callbacks
    /\ {"none", "file", "link", "error", "unread"} \subseteq Outcomes
    /\ {"downloading...", "file", "null"} \subseteq Shows
BY DEF Callbacks, Outcomes, Shows

LEMMA Downloading ==
    ASSUME NEW s \in Saves, NEW thing \in Things, download(s, thing)
    PROVE  Await(s, "get") \/ Await(s, "denied")
BY DEF download

(* A step of the actions that touch neither URLs nor popups, up to WaitFor.  *)
LEMMA AnchorStep ==
    ASSUME TypeOK, NEW s \in Saves, NEW thing \in Things, saveAsAnchor(s, thing),
           browser.download, UNCHANGED <<browser, here>>
    PROVE  TypeOK' /\ OthersKeep(s) /\ Started(s) /\ urls \subseteq urls'
<1>0. UNCHANGED <<windows, popup>>  BY DEF saveAsAnchor, NoPopup
<1>1. CASE createObjectURL(s) /\ Await(s, "click")
  <2>1. /\ doing' \in [Saves -> Callbacks] /\ waits' \in [Saves -> Nat]
        /\ outcome' = outcome /\ doing'[s] = "click" /\ waits'[s] = 0
        /\ \A r \in Saves \ {s} : doing'[r] = doing[r] /\ waits'[r] = waits[r]
    BY <1>1, Waiting, Names
  <2>2. /\ urls' \subseteq Saves /\ s \in urls' /\ urls \subseteq urls'
        /\ age' \in [Saves -> Nat] /\ age'[s] = 0
        /\ \A r \in Saves \ {s} : age'[r] = age[r]
        /\ \A r \in Saves : age'[r] <= RevokeDelay + LateBy
    BY <1>1, Creating
  <2>3. TypeOK'  BY <1>0, <2>1, <2>2 DEF TypeOK
  <2>4. OthersKeep(s)  BY <1>0, <2>1, <2>2 DEF OthersKeep
  <2>5. Started(s)  BY <1>0, <2>1, <2>2 DEF Started
  <2> QED BY <2>2, <2>3, <2>4, <2>5
<1>2. CASE NoURL /\ (End(s, "file") \/ End(s, "link"))
  BY <1>0, <1>2, Ending, Names DEF TypeOK, OthersKeep, Started, NoURL
<1>3. CASE NoURL /\ download(s, thing)
  BY <1>0, <1>3, Downloading, Waiting, Names DEF TypeOK, OthersKeep, Started, NoURL
<1> QED BY <1>1, <1>2, <1>3 DEF saveAsAnchor

LEMMA MsStep ==
    ASSUME TypeOK, NEW s \in Saves, NEW thing \in Things, saveAsMs(s, thing),
           browser.ms, UNCHANGED <<browser, here>>
    PROVE  TypeOK' /\ OthersKeep(s) /\ Started(s) /\ urls \subseteq urls'
<1>0. UNCHANGED <<windows, popup, urls, age>>  BY DEF saveAsMs, NoPopup, NoURL
<1>1. CASE End(s, "file")
  BY <1>0, <1>1, Ending, Names DEF TypeOK, OthersKeep, Started
<1>2. CASE Await(s, "link")
  BY <1>0, <1>2, Waiting, Names DEF TypeOK, OthersKeep, Started
<1>3. CASE download(s, thing)
  BY <1>0, <1>3, Downloading, Waiting, Names DEF TypeOK, OthersKeep, Started
<1> QED BY <1>1, <1>2, <1>3 DEF saveAsMs

LEMMA PopupStep ==
    ASSUME TypeOK, NEW s \in Saves, NEW thing \in Things, NEW gesture \in BOOLEAN,
           saveAsPopup(s, thing, gesture), ~browser.download, ~browser.ms,
           UNCHANGED <<browser, here>>
    PROVE  TypeOK' /\ OthersKeep(s) /\ Started(s) /\ urls \subseteq urls'
<1> DEFINE opened == Opened(s, gesture)
           held == Held(s, gesture)
<1>0. opened \in Seq(Shows) /\ held \in 0 .. Len(opened) /\ Len(opened) \in Nat  BY Opening
<1>1. /\ Sent(opened, held, "file") \in Seq(Shows)
      /\ Len(Sent(opened, held, "file")) = Len(opened)
      /\ held # 0 => Sent(opened, held, "file")[held] = "file"
  BY <1>0, Sending, Names
<1> HIDE DEF opened, held
<1>2. ASSUME NEW w \in Seq(Shows), NEW p \in 0 .. Len(w),
             windows' = [windows EXCEPT ![s] = w], popup' = [popup EXCEPT ![s] = p]
      PROVE  /\ windows' \in [Saves -> Seq(Shows)] /\ popup' \in [Saves -> Nat]
             /\ windows'[s] = w /\ popup'[s] = p
             /\ \A r \in Saves \ {s} : windows'[r] = windows[r] /\ popup'[r] = popup[r]
             /\ \A r \in Saves : popup'[r] <= Len(windows'[r])
  BY <1>2 DEF TypeOK
<1>3. CASE /\ windows' = [windows EXCEPT ![s] = opened] /\ popup' = [popup EXCEPT ![s] = 0]
           /\ download(s, thing) /\ NoURL
  BY <1>0, <1>2, <1>3, Downloading, Waiting, Names DEF TypeOK, OthersKeep, Started, NoURL
<1>4. CASE /\ windows' = [windows EXCEPT ![s] = opened] /\ popup' = [popup EXCEPT ![s] = held]
           /\ Await(s, "read") /\ NoURL
  BY <1>0, <1>2, <1>4, Waiting, Names DEF TypeOK, OthersKeep, Started, NoURL
<1>5. CASE /\ windows' = [windows EXCEPT ![s] = Sent(opened, held, "file")]
           /\ popup' = [popup EXCEPT ![s] = held]
           /\ Await(s, "pick") /\ createObjectURL(s)
  <2>1. /\ windows' \in [Saves -> Seq(Shows)] /\ popup' \in [Saves -> Nat]
        /\ windows'[s] = Sent(opened, held, "file") /\ popup'[s] = held
        /\ \A r \in Saves \ {s} : windows'[r] = windows[r] /\ popup'[r] = popup[r]
        /\ \A r \in Saves : popup'[r] <= Len(windows'[r])
    <3> DEFINE sent == Sent(opened, held, "file")
    <3>1. sent \in Seq(Shows) /\ held \in 0 .. Len(sent)  BY <1>0, <1>1
    <3>2. windows' = [windows EXCEPT ![s] = sent]  BY <1>5
    <3> HIDE DEF sent
    <3>3. /\ windows' \in [Saves -> Seq(Shows)] /\ popup' \in [Saves -> Nat]
          /\ windows'[s] = sent /\ popup'[s] = held
          /\ \A r \in Saves \ {s} : windows'[r] = windows[r] /\ popup'[r] = popup[r]
          /\ \A r \in Saves : popup'[r] <= Len(windows'[r])
      BY <1>2, <1>5, <3>1, <3>2
    <3> QED BY <3>3 DEF sent
  <2>2. /\ doing' \in [Saves -> Callbacks] /\ waits' \in [Saves -> Nat]
        /\ outcome' = outcome /\ doing'[s] = "pick" /\ waits'[s] = 0
        /\ \A r \in Saves \ {s} : doing'[r] = doing[r] /\ waits'[r] = waits[r]
    BY <1>5, Waiting, Names
  <2>3. /\ urls' \subseteq Saves /\ s \in urls' /\ urls \subseteq urls'
        /\ age' \in [Saves -> Nat] /\ age'[s] = 0
        /\ \A r \in Saves \ {s} : age'[r] = age[r]
        /\ \A r \in Saves : age'[r] <= RevokeDelay + LateBy
    BY <1>5, Creating
  <2>4. TypeOK'  BY <2>1, <2>2, <2>3 DEF TypeOK
  <2>5. OthersKeep(s)  BY <2>1, <2>2, <2>3 DEF OthersKeep
  <2>6. Started(s)  BY <1>1, <2>1, <2>2, <2>3 DEF Started
  <2> QED BY <2>3, <2>4, <2>5, <2>6
<1> QED BY <1>3, <1>4, <1>5 DEF saveAsPopup, opened, held

LEMMA SaveStep ==
    ASSUME TypeOK, NEW s \in Saves, NEW thing \in Things, NEW gesture \in BOOLEAN,
           saveAs(s, thing, gesture), UNCHANGED <<browser, here>>
    PROVE  TypeOK' /\ OthersKeep(s) /\ Started(s) /\ urls \subseteq urls'
BY AnchorStep, MsStep, PopupStep DEF saveAs
-------------------------------------------------------------------------------
LEMMA Initially == Init => IInv
<1> SUFFICES ASSUME Init PROVE IInv OBVIOUS
<1>1. <<>> \in Seq(Shows) /\ Len(<<>>) = 0  OBVIOUS
<1>2. TypeOK
  BY <1>1, Names, TimeAssumption DEF Init, TypeOK
<1> QED BY <1>2 DEF Init, IInv, SaveInv, InTime, ByPopup, SentToItsPopup

(* An action of one save disturbs the invariant of that save only.           *)
LEMMA OneSave ==
    ASSUME IInv, NEW s \in Saves, TypeOK', OthersKeep(s), browser' = browser,
           here' => here /\ urls \ {s} \subseteq urls',
           SaveInv(s)',
           outcome'[s] = "file" /\ popup'[s] # 0 => windows'[s][popup'[s]] = "file"
    PROVE  IInv'
<1>1. ASSUME NEW r \in Saves \ {s}
      PROVE  SaveInv(r)' /\ (outcome'[r] = "file" /\ popup'[r] # 0 => windows'[r][popup'[r]] = "file")
  <2>1. SaveInv(r) /\ SentToItsPopup  BY <1>1 DEF IInv
  <2>2. /\ doing'[r] = doing[r] /\ waits'[r] = waits[r] /\ age'[r] = age[r]
        /\ windows'[r] = windows[r] /\ popup'[r] = popup[r] /\ outcome'[r] = outcome[r]
    BY <1>1 DEF OthersKeep
  <2>3. here' => here /\ (r \in urls => r \in urls')  BY <1>1
  <2>4. InTime(r)'  BY <2>1, <2>2, <2>3 DEF SaveInv, InTime
  <2>5. ByPopup(r)'  BY <2>1, <2>2 DEF SaveInv, ByPopup
  <2> QED BY <1>1, <2>1, <2>2, <2>4, <2>5 DEF SaveInv, SentToItsPopup
<1> QED BY <1>1 DEF IInv, SentToItsPopup

LEMMA StartStep ==
    ASSUME IInv, NEW s \in Saves, doing[s] # "done", NEW thing \in Things, NEW gesture \in BOOLEAN,
           saveAs(s, thing, gesture), UNCHANGED <<browser, here>>
    PROVE  IInv'
<1>1. TypeOK' /\ OthersKeep(s) /\ Started(s) /\ urls \subseteq urls'
  BY SaveStep DEF IInv
<1>2. SaveInv(s)  BY DEF IInv
<1>3. outcome[s] # "file"  BY <1>2 DEF SaveInv, ByPopup
<1>4. InTime(s)'  BY <1>1, TimeAssumption DEF Started, InTime
<1>5. ByPopup(s)'  BY <1>1, <1>2, <1>3 DEF Started, SaveInv, ByPopup
<1>6. outcome'[s] = "file" => popup'[s] = 0
  BY <1>1, <1>2, <1>3 DEF Started, SaveInv, ByPopup
<1> QED BY <1>1, <1>4, <1>5, <1>6, OneSave DEF SaveInv

(* A callback that ends its save with nothing for a popup.                   *)
LEMMA EndStep ==
    ASSUME IInv, NEW s \in Saves, NEW o \in Outcomes, o # "file", End(s, o), NoURL, NoPopup,
           UNCHANGED <<browser, here>>
    PROVE  IInv'
<1>0. TypeOK /\ SaveInv(s)  BY DEF IInv
<1>1. /\ doing' \in [Saves -> Callbacks] /\ waits' \in [Saves -> Nat]
      /\ outcome' \in [Saves -> Outcomes] /\ doing'[s] = "done" /\ outcome'[s] = o
      /\ \A r \in Saves \ {s} : /\ doing'[r] = doing[r] /\ waits'[r] = waits[r]
                                /\ outcome'[r] = outcome[r]
  BY <1>0, Ending
<1>2. TypeOK'  BY <1>0, <1>1 DEF TypeOK, NoURL, NoPopup
<1>3. OthersKeep(s)  BY <1>1 DEF OthersKeep, NoURL, NoPopup
<1>4. SaveInv(s)'  BY <1>0, <1>1 DEF SaveInv, InTime, ByPopup, NoURL, NoPopup
<1> QED BY <1>1, <1>2, <1>3, <1>4, OneSave DEF NoURL

LEMMA ClickStep ==
    ASSUME IInv, NEW s \in Saves, click(s)
    PROVE  IInv'
<1>0. TypeOK /\ SaveInv(s)  BY DEF IInv
<1>1. Await(s, "pick") /\ UNCHANGED <<urls, age, windows, popup, browser, here>>
      /\ doing[s] = "click"
  BY DEF click, NoURL, NoPopup
<1>2. /\ doing' \in [Saves -> Callbacks] /\ waits' \in [Saves -> Nat]
      /\ outcome' = outcome /\ doing'[s] = "pick" /\ waits'[s] = 0
      /\ \A r \in Saves \ {s} : doing'[r] = doing[r] /\ waits'[r] = waits[r]
  BY <1>0, <1>1, Waiting, Names
<1>3. TypeOK'  BY <1>0, <1>1, <1>2 DEF TypeOK
<1>4. OthersKeep(s)  BY <1>1, <1>2 DEF OthersKeep
<1>5. waits[s] \in Nat /\ age[s] \in Nat  BY <1>0 DEF TypeOK
<1>6. InTime(s)'  BY <1>0, <1>1, <1>2, <1>5, TimeAssumption DEF SaveInv, InTime
<1>7. ByPopup(s)'  BY <1>0, <1>1, <1>2 DEF SaveInv, ByPopup
<1>8. outcome'[s] # "file"  BY <1>0, <1>1, <1>2 DEF SaveInv, ByPopup
<1> QED BY <1>1, <1>3, <1>4, <1>6, <1>7, <1>8, OneSave DEF SaveInv

LEMMA PickUpStep ==
    ASSUME IInv, NEW s \in Saves, PickUp(s)
    PROVE  IInv'
<1>0. TypeOK /\ SaveInv(s)  BY DEF IInv
<1>1. /\ here /\ doing[s] = "pick" /\ (End(s, "file") \/ End(s, "unread"))
      /\ UNCHANGED <<browser, age, windows, popup>>
  BY <1>0 DEF PickUp, SaveInv, InTime
<1>2. here' \in BOOLEAN /\ (here' => urls' = urls) /\ urls' \subseteq Saves
  BY <1>0 DEF PickUp, GoTo, TypeOK
<1>3. /\ doing' \in [Saves -> Callbacks] /\ waits' \in [Saves -> Nat]
      /\ outcome' \in [Saves -> Outcomes] /\ doing'[s] = "done"
      /\ \A r \in Saves \ {s} : /\ doing'[r] = doing[r] /\ waits'[r] = waits[r]
                                /\ outcome'[r] = outcome[r]
  BY <1>0, <1>1, Ending, Names
<1>4. TypeOK'  BY <1>0, <1>1, <1>2, <1>3 DEF TypeOK
<1>5. OthersKeep(s)  BY <1>1, <1>3 DEF OthersKeep
<1>6. SaveInv(s)'  BY <1>0, <1>1, <1>3 DEF SaveInv, InTime, ByPopup
<1>7. popup'[s] # 0 => windows'[s][popup'[s]] = "file"
  BY <1>0, <1>1 DEF SaveInv, ByPopup
<1>8. here' => here /\ urls \ {s} \subseteq urls'  BY <1>1, <1>2
<1> QED BY <1>1, <1>4, <1>5, <1>6, <1>7, <1>8, OneSave

(* A read that failed with nothing to show for it.                           *)
LEMMA ThrownStep ==
    ASSUME IInv, NEW s \in Saves, End(s, "unread"),
           UNCHANGED <<browser, here, urls, age, windows, popup>>
    PROVE  IInv'
BY EndStep, Names DEF NoURL, NoPopup

LEMMA ReadStep ==
    ASSUME IInv, NEW s \in Saves, onloadend(s)
    PROVE  IInv'
<1>0. TypeOK /\ SaveInv(s)  BY DEF IInv
<1>t. CASE End(s, "unread") /\ UNCHANGED <<here, urls, windows>>
  BY <1>t, ThrownStep DEF onloadend
<1>g. ASSUME NEW result \in {"file", "unread"}, NEW what \in Shows,
             End(s, result), Goes(s, what), result = "file" => what = "file"
      PROVE  IInv'
  <2> DEFINE sent == Sent(windows[s], popup[s], what)
  <2>1. /\ here /\ doing[s] = "read"
        /\ windows' = [windows EXCEPT ![s] = sent]
        /\ UNCHANGED <<browser, age, popup>>
    BY <1>g DEF onloadend, Goes
  <2>2. here' \in BOOLEAN /\ (here' => urls' = urls) /\ urls' \subseteq Saves
    BY <1>0, <1>g DEF Goes, GoTo, TypeOK
  <2>3. /\ doing' \in [Saves -> Callbacks] /\ waits' \in [Saves -> Nat]
        /\ outcome' \in [Saves -> Outcomes] /\ doing'[s] = "done" /\ outcome'[s] = result
        /\ \A r \in Saves \ {s} : /\ doing'[r] = doing[r] /\ waits'[r] = waits[r]
                                  /\ outcome'[r] = outcome[r]
    <3>1. result \in Outcomes  BY Names
    <3> QED BY <1>0, <1>g, <3>1, Ending
  <2>4. /\ sent \in Seq(Shows) /\ Len(sent) = Len(windows[s])
        /\ popup[s] # 0 => sent[popup[s]] = what
    <3>1. windows[s] \in Seq(Shows) /\ popup[s] \in Nat /\ popup[s] <= Len(windows[s])
      BY <1>0 DEF TypeOK
    <3>2. popup[s] \in 0 .. Len(windows[s])  BY <3>1
    <3> QED BY <3>1, <3>2, Sending
  <2> HIDE DEF sent
  <2>5. windows' \in [Saves -> Seq(Shows)] /\ windows'[s] = sent
        /\ \A r \in Saves \ {s} : windows'[r] = windows[r]
    BY <1>0, <2>1, <2>4 DEF TypeOK
  <2>6. TypeOK'
    <3>1. \A r \in Saves : popup'[r] <= Len(windows'[r])
      BY <1>0, <2>1, <2>4, <2>5 DEF TypeOK
    <3> QED BY <1>0, <2>1, <2>2, <2>3, <2>5, <3>1 DEF TypeOK
  <2>7. OthersKeep(s)  BY <2>1, <2>3, <2>5 DEF OthersKeep
  <2>8. SaveInv(s)'  BY <1>0, <2>1, <2>3 DEF SaveInv, InTime, ByPopup
  <2>9. outcome'[s] = "file" /\ popup'[s] # 0 => windows'[s][popup'[s]] = "file"
    BY <1>g, <2>1, <2>3, <2>4, <2>5
  <2>10. here' => here /\ urls \ {s} \subseteq urls'  BY <2>1, <2>2
  <2> QED BY <2>1, <2>6, <2>7, <2>8, <2>9, <2>10, OneSave
<1>1. \/ End(s, "unread") /\ UNCHANGED <<here, urls, windows>>
      \/ End(s, "file") /\ Goes(s, "file")
      \/ End(s, "unread") /\ Goes(s, "null")
  BY DEF onloadend
<1>2. "file" \in Shows /\ "null" \in Shows  BY Names
<1>3. CASE End(s, "file") /\ Goes(s, "file")  BY <1>g, <1>2, <1>3
<1>4. CASE End(s, "unread") /\ Goes(s, "null")  BY <1>g, <1>2, <1>4
<1> QED BY <1>1, <1>t, <1>3, <1>4

(* The timer that revokes finds no save that still needs its URL: DelayAssumption. *)
LEMMA RevokeStep ==
    ASSUME IInv, NEW s \in Saves, Revoke(s)
    PROVE  IInv'
<1>0. TypeOK /\ SaveInv(s)  BY DEF IInv
<1>1. /\ here /\ age[s] >= RevokeDelay /\ urls' = urls \ {s}
      /\ UNCHANGED <<browser, here, doing, waits, age, windows, popup, outcome>>
  BY DEF Revoke
<1>2. age[s] \in Nat /\ waits[s] \in Nat  BY <1>0 DEF TypeOK
<1>3. doing[s] \notin {"click", "pick"}
  BY <1>0, <1>1, <1>2, TimeAssumption, DelayAssumption DEF SaveInv, InTime
<1>4. TypeOK'  BY <1>0, <1>1 DEF TypeOK
<1>5. SaveInv(s)'  BY <1>0, <1>1, <1>3 DEF SaveInv, InTime, ByPopup
<1>6. OthersKeep(s)  BY <1>1 DEF OthersKeep
<1>7. outcome'[s] = "file" /\ popup'[s] # 0 => windows'[s][popup'[s]] = "file"
  BY <1>1 DEF IInv, SentToItsPopup
<1> QED BY <1>1, <1>4, <1>5, <1>6, <1>7, OneSave

LEMMA TickStep ==
    ASSUME IInv, Tick
    PROVE  IInv'
<1>0. TypeOK  BY DEF IInv
<1>1. /\ UNCHANGED <<browser, here, doing, urls, windows, popup, outcome>> /\ here
      /\ waits' = [s \in Saves |-> IF s \in Timed THEN waits[s] + 1 ELSE waits[s]]
      /\ age' = [s \in Saves |-> IF s \in urls THEN age[s] + 1 ELSE age[s]]
  BY DEF Tick
<1>2. (\A s \in Timed : waits[s] < Limit(s)) /\ \A s \in urls : age[s] < RevokeDelay + LateBy
  BY DEF Tick
<1>3. TypeOK'
  <2>1. waits' \in [Saves -> Nat] /\ age' \in [Saves -> Nat]  BY <1>0, <1>1 DEF TypeOK
  <2>2. \A s \in Saves : age'[s] <= RevokeDelay + LateBy
    BY <1>0, <1>1, <1>2, TimeAssumption DEF TypeOK
  <2> QED BY <1>0, <1>1, <2>1, <2>2 DEF TypeOK
<1>4. ASSUME NEW s \in Saves PROVE SaveInv(s)'
  <2>1. SaveInv(s)  BY DEF IInv
  <2>2. waits[s] \in Nat /\ age[s] \in Nat  BY <1>0 DEF TypeOK
  <2>3. doing[s] = "click" => waits'[s] = waits[s] + 1 /\ waits[s] < LateBy
    BY <1>1, <1>2 DEF Timed, Limit
  <2>4. doing[s] = "pick" => waits'[s] = waits[s] + 1 /\ waits[s] < PickUpTime
    BY <1>1, <1>2 DEF Timed, Limit
  <2>5. s \in urls => age'[s] = age[s] + 1  BY <1>1
  <2>6. InTime(s)'
    BY <1>1, <2>1, <2>2, <2>3, <2>4, <2>5, TimeAssumption DEF SaveInv, InTime
  <2>7. ByPopup(s)'  BY <1>1, <2>1 DEF SaveInv, ByPopup
  <2> QED BY <2>6, <2>7 DEF SaveInv
<1> QED BY <1>1, <1>3, <1>4 DEF IInv, SentToItsPopup

LEMMA Preserved == IInv /\ [Next]_vars => IInv'
<1> SUFFICES ASSUME IInv, [Next]_vars PROVE IInv' OBVIOUS
<1>1. ASSUME NEW s \in Saves, NEW thing \in Things, CallSaveAs(s, thing) PROVE IInv'
  BY <1>1, StartStep DEF CallSaveAs
<1>2. ASSUME NEW s \in Saves, exportExcel(s) PROVE IInv'
  <2>1. "blob" \in Things  BY DEF Things
  <2> QED BY <1>2, <2>1, StartStep, EndStep, Names DEF exportExcel
<1>3. ASSUME NEW s \in Saves, onload(s) PROVE IInv'
  <2>1. "blob" \in Things  BY DEF Things
  <2> QED BY <1>3, <2>1, StartStep DEF onload
<1>4. ASSUME NEW s \in Saves, onerror(s) PROVE IInv'
  BY <1>4, EndStep, Names DEF onerror
<1>5. ASSUME NEW s \in Saves, click(s) PROVE IInv'
  BY <1>5, ClickStep
<1>6. ASSUME NEW s \in Saves, clickLink(s) PROVE IInv'
  BY <1>6, EndStep, Names DEF clickLink
<1>7. ASSUME NEW s \in Saves, PickUp(s) PROVE IInv'
  BY <1>7, PickUpStep
<1>8. ASSUME NEW s \in Saves, onloadend(s) PROVE IInv'
  BY <1>8, ReadStep
<1>9. ASSUME NEW s \in Saves, Revoke(s) PROVE IInv'
  BY <1>9, RevokeStep
<1>10. CASE Tick
  BY <1>10, TickStep
<1>11. CASE UNCHANGED vars
  BY <1>11 DEF vars, IInv, TypeOK, SaveInv, InTime, ByPopup, SentToItsPopup
<1> QED BY <1>1, <1>2, <1>3, <1>4, <1>5, <1>6, <1>7, <1>8, <1>9, <1>10, <1>11 DEF Next

LEMMA Always == Spec => []IInv
BY Initially, Preserved, PTL DEF Spec

(* Timers run in their ranges and a popup is held only when it opened.       *)
THEOREM SavesTyped == Spec => []TypeOK
<1>1. IInv => TypeOK  BY DEF IInv
<1> QED BY <1>1, Always, PTL

(* No object URL is revoked before the browser has read it, whatever the     *)
(* delays within DelayAssumption and however saves overlap.                  *)
THEOREM UrlsOutliveTheirRead == Spec => []PickedUpIsLive
<1>1. IInv => PickedUpIsLive
  BY DEF IInv, SaveInv, InTime, PickedUpIsLive
<1> QED BY <1>1, Always, PTL

(* A file sent to a popup is shown in the popup its save holds.              *)
THEOREM FilesReachTheirPopup == Spec => []SentToItsPopup
<1>1. IInv => SentToItsPopup  BY DEF IInv
<1> QED BY <1>1, Always, PTL
===============================================================================
