-------------------------- MODULE PageCookiesProofs --------------------------
(***************************************************************************)
(* Proofs about PageCookies: what its pages read together, and that they   *)
(* read what the separate jars of CookieJars say, for any rows, any length *)
(* of a day and any running of the clock; and about CookieText: what       *)
(* $.cookie reads of texts of any length.  Its loops are functions defined *)
(* by recursion on positions; induction on them goes from the least        *)
(* position at which a claim would be wrong.                               *)
(***************************************************************************)
EXTENDS MCPageCookies, WellFoundedInduction, SequenceTheorems, TLAPS

Slots == CookieNames \X JQ!Paths
Jar == [Slots -> JQ!Cookie]
Dated(r, time) == [value |-> r, session |-> FALSE, until |-> time]
OfSession(r) == [value |-> r, session |-> TRUE, until |-> 0]

(* The slots the pages use, and what relates them. *)
PayId == jar[<<"payId", "pay">>]
PayAudit == jar[<<"auditId", "pay">>]
PayState == jar[<<"state", "pay">>]
PoId == jar[<<"poId", "/">>]
Audit == jar[<<"auditId", "/">>]
Project == jar[<<"projectId", "/">>]
State == jar[<<"state", "/">>]

NothingForPurchases ==
    \A n \in CookieNames : jar[<<n, "purchase">>].value = Undefined

PaysApart ==
    /\ jar[<<"payId", "/">>].value = Undefined /\ jar[<<"handledPayId", "/">>].value = Undefined
    /\ PayAudit = PayId /\ PayState = PayId
    /\ PayId.value # Undefined => PayId.session
    /\ jar[<<"handledPayId", "pay">>].value # Undefined => jar[<<"handledPayId", "pay">>].session
    /\ jar[<<"projectId", "report">>].value # Undefined => jar[<<"projectId", "report">>].session

PurchasesApart ==
    /\ ~PoId.session /\ ~Audit.session /\ ~Project.session /\ ~State.session
    /\ PoId.value \in PurchaseRows \cup HandledPurchaseRows \cup {Undefined}
    /\ Audit.value \in PurchaseRows \cup {Undefined}
    /\ Project.value = PoId.value /\ PoId.until <= Project.until
    /\ State.value = Audit.value /\ Audit.until <= State.until
    /\ PoId.value \in PurchaseRows => Audit.value = PoId.value /\ PoId.until <= Audit.until

IInv == TypeOK /\ NothingForPurchases /\ PaysApart /\ PurchasesApart

-------------------------------------------------------------------------------
LEMMA Reachable ==
    /\ "pay" \in JQ!Paths /\ "purchase" \in JQ!Paths /\ "report" \in JQ!Paths /\ "/" \in JQ!Paths
    /\ \A n \in CookieNames : \A p \in JQ!Paths : <<n, p>> \in Slots
BY DEF JQ!Paths, PageDirs, Slots

(* What one call of $.cookie writes, with either set of options. *)
Wrote(new, old, slot, c) ==
    new \in Jar /\ new[slot] = c /\ \A s \in Slots : s # slot => new[s] = old[s]

LEMMA DatedWrite ==
    ASSUME NEW j \in Jar, NEW time \in Nat, NEW dir \in PageDirs,
           NEW n \in CookieNames, NEW r \in Rows
    PROVE  Wrote(JQ!write(j, time, dir, n, r, OneDay), j, <<n, "/">>, Dated(r, time + Day))
<1>1. OneDay.expires = 1 /\ OneDay.path = "/" /\ OneDay.path # Undefined /\ OneDay.expires # Undefined
  BY RowsAssumption DEF OneDay
<1>2. 1 * Day = Day /\ time + Day \in Nat  BY TimeAssumption
<1>3. JQ!write(j, time, dir, n, r, OneDay) = [j EXCEPT ![<<n, "/">>] = Dated(r, time + Day)]
  BY <1>1, <1>2 DEF JQ!write, JQ!PathOf, Dated
<1>4. Dated(r, time + Day) \in JQ!Cookie  BY <1>2 DEF Dated, JQ!Cookie
<1>5. <<n, "/">> \in Slots  BY Reachable
<1> QED BY <1>3, <1>4, <1>5 DEF Jar, Wrote

LEMMA SessionWrite ==
    ASSUME NEW j \in Jar, NEW time \in Nat, NEW dir \in PageDirs,
           NEW n \in CookieNames, NEW r \in Rows
    PROVE  Wrote(JQ!write(j, time, dir, n, r, NoOptions), j, <<n, dir>>, OfSession(r))
<1>1. NoOptions.expires = Undefined /\ NoOptions.path = Undefined  BY DEF NoOptions
<1>2. JQ!write(j, time, dir, n, r, NoOptions) = [j EXCEPT ![<<n, dir>>] = OfSession(r)]
  BY <1>1 DEF JQ!write, JQ!PathOf, OfSession
<1>3. OfSession(r) \in JQ!Cookie  BY DEF OfSession, JQ!Cookie
<1>4. <<n, dir>> \in Slots  BY DEF Slots, JQ!Paths
<1> QED BY <1>2, <1>3, <1>4 DEF Jar, Wrote

-------------------------------------------------------------------------------
(* The calls of one handler, and the slots they write. *)

LEMMA PurchaseCall ==
    ASSUME now \in Nat, NEW before \in Nat, NEW call \in Nat,
           NEW j \in Jar, NEW n \in CookieNames, NEW r \in Rows
    PROVE  /\ Wrote(PutPurchase(j, n, r, before, call), j, <<n, "/">>,
                    Dated(r, WrittenAt(before, call) + Day))
           /\ WrittenAt(before, call) + Day \in Nat
<1>1. WrittenAt(before, call) \in Nat  BY DEF WrittenAt
<1>2. "pay" \in PageDirs  BY DEF PageDirs
<1>3. WrittenAt(before, call) + Day \in Nat  BY <1>1, TimeAssumption
<1> QED BY <1>1, <1>2, <1>3, DatedWrite DEF PutPurchase

LEMMA WithinADay ==
    ASSUME now \in Nat, NEW before \in Nat, NEW a \in Nat
    PROVE  WrittenAt(before, a) + Day <= now + 1 + Day
BY TimeAssumption DEF WrittenAt

LEMMA InOrder ==
    ASSUME now \in Nat, NEW before \in Nat, NEW a \in Nat, NEW b \in Nat, a <= b
    PROVE  WrittenAt(before, a) + Day <= WrittenAt(before, b) + Day
BY TimeAssumption DEF WrittenAt

LEMMA Later ==
    ASSUME now \in Nat, NEW before \in Nat, NEW a \in Nat
    PROVE  now < WrittenAt(before, a) + Day
BY TimeAssumption DEF WrittenAt

Untouched(names, dir) ==
    \A n \in CookieNames : \A p \in JQ!Paths :
        p # dir \/ n \notin names => jar'[<<n, p>>] = jar[<<n, p>>]

LEMMA PurchaseStep ==
    ASSUME jar \in Jar, now \in Nat, NEW r \in PurchaseRows, OpenPurchase(r)
    PROVE  /\ jar' \in Jar /\ now' = now
           /\ \E t1, t2, t3, t4 \in Nat :
                 /\ now < t1 /\ t1 <= t2 /\ t1 <= t3 /\ t2 <= t4
                 /\ t3 <= now + 1 + Day /\ t4 <= now + 1 + Day
                 /\ jar'[<<"poId", "/">>] = Dated(r, t1) /\ jar'[<<"auditId", "/">>] = Dated(r, t2)
                 /\ jar'[<<"projectId", "/">>] = Dated(r, t3) /\ jar'[<<"state", "/">>] = Dated(r, t4)
           /\ Untouched({"poId", "auditId", "projectId", "state"}, "/")
<1>0. r \in Rows  BY DEF Rows
<1>n. {"poId", "auditId", "projectId", "state"} \subseteq CookieNames  BY DEF CookieNames
<1>1. PICK before \in 1 .. 4 : jar' = PurchaseCookies(r, before)
  BY DEF OpenPurchase
<1> before \in Nat  OBVIOUS
<1> DEFINE T(c) == WrittenAt(before, c) + Day
           j1 == PutPurchase(jar, "poId", r, before, 1)
           j2 == PutPurchase(j1, "auditId", r, before, 2)
           j3 == PutPurchase(j2, "projectId", r, before, 3)
           j4 == PutPurchase(j3, "state", r, before, 4)
<1>2. jar' = j4  BY <1>1 DEF PurchaseCookies
<1>3. Wrote(j1, jar, <<"poId", "/">>, Dated(r, T(1))) /\ T(1) \in Nat
  BY <1>0, <1>n, PurchaseCall
<1>3a. j1 \in Jar  BY <1>3 DEF Wrote
<1>4. Wrote(j2, j1, <<"auditId", "/">>, Dated(r, T(2))) /\ T(2) \in Nat
  BY <1>0, <1>n, <1>3a, PurchaseCall
<1>4a. j2 \in Jar  BY <1>4 DEF Wrote
<1>5. Wrote(j3, j2, <<"projectId", "/">>, Dated(r, T(3))) /\ T(3) \in Nat
  BY <1>0, <1>n, <1>4a, PurchaseCall
<1>5a. j3 \in Jar  BY <1>5 DEF Wrote
<1>6. Wrote(j4, j3, <<"state", "/">>, Dated(r, T(4))) /\ T(4) \in Nat
  BY <1>0, <1>n, <1>5a, PurchaseCall
<1>6a. j4 \in Jar  BY <1>6 DEF Wrote
<1>7. /\ now < T(1) /\ T(1) <= T(2) /\ T(1) <= T(3) /\ T(2) <= T(4)
      /\ T(3) <= now + 1 + Day /\ T(4) <= now + 1 + Day
  BY InOrder, Later, WithinADay
<1> HIDE DEF T, j1, j2, j3, j4
<1>8. \A s \in Slots : s # <<"poId", "/">> => j1[s] = jar[s]  BY <1>3 DEF Wrote
<1>9. \A s \in Slots : s # <<"auditId", "/">> => j2[s] = j1[s]  BY <1>3, <1>4 DEF Wrote
<1>10. \A s \in Slots : s # <<"projectId", "/">> => j3[s] = j2[s]  BY <1>4, <1>5 DEF Wrote
<1>11. \A s \in Slots : s # <<"state", "/">> => j4[s] = j3[s]  BY <1>5, <1>6 DEF Wrote
<1>12. /\ <<"poId", "/">> \in Slots /\ <<"auditId", "/">> \in Slots
       /\ <<"projectId", "/">> \in Slots /\ <<"state", "/">> \in Slots
  BY <1>n, Reachable
<1>13. j1[<<"poId", "/">>] = Dated(r, T(1))  BY <1>3, <1>12 DEF Wrote
<1>14. j2[<<"auditId", "/">>] = Dated(r, T(2))  BY <1>3, <1>4, <1>12 DEF Wrote
<1>15. j3[<<"projectId", "/">>] = Dated(r, T(3))  BY <1>4, <1>5, <1>12 DEF Wrote
<1>16. j4[<<"state", "/">>] = Dated(r, T(4))  BY <1>5, <1>6, <1>12 DEF Wrote
<1>17. /\ j4[<<"poId", "/">>] = Dated(r, T(1)) /\ j4[<<"auditId", "/">>] = Dated(r, T(2))
       /\ j4[<<"projectId", "/">>] = Dated(r, T(3)) /\ j4[<<"state", "/">>] = Dated(r, T(4))
  BY <1>9, <1>10, <1>11, <1>12, <1>13, <1>14, <1>15, <1>16
<1>18. Untouched({"poId", "auditId", "projectId", "state"}, "/")
  BY <1>2, <1>8, <1>9, <1>10, <1>11, Reachable DEF Untouched
<1>19. now' = now  BY DEF OpenPurchase
<1> QED BY <1>2, <1>3, <1>4, <1>5, <1>6, <1>6a, <1>7, <1>17, <1>18, <1>19

LEMMA HandledPurchaseStep ==
    ASSUME jar \in Jar, now \in Nat, NEW r \in HandledPurchaseRows, OpenHandledPurchase(r)
    PROVE  /\ jar' \in Jar /\ now' = now
           /\ \E t1, t2 \in Nat :
                 /\ now < t1 /\ t1 <= t2 /\ t2 <= now + 1 + Day
                 /\ jar'[<<"poId", "/">>] = Dated(r, t1) /\ jar'[<<"projectId", "/">>] = Dated(r, t2)
           /\ Untouched({"poId", "projectId"}, "/")
<1>0. r \in Rows  BY DEF Rows
<1>n. {"poId", "projectId"} \subseteq CookieNames  BY DEF CookieNames
<1>1. PICK before \in 1 .. 2 :
        jar' = PutPurchase(PutPurchase(jar, "poId", r, before, 1), "projectId", r, before, 2)
  BY DEF OpenHandledPurchase
<1> before \in Nat  OBVIOUS
<1> DEFINE T(c) == WrittenAt(before, c) + Day
           j1 == PutPurchase(jar, "poId", r, before, 1)
           j2 == PutPurchase(j1, "projectId", r, before, 2)
<1>2. jar' = j2  BY <1>1
<1>3. Wrote(j1, jar, <<"poId", "/">>, Dated(r, T(1))) /\ T(1) \in Nat
  BY <1>0, <1>n, PurchaseCall
<1>3a. j1 \in Jar  BY <1>3 DEF Wrote
<1>4. Wrote(j2, j1, <<"projectId", "/">>, Dated(r, T(2))) /\ T(2) \in Nat
  BY <1>0, <1>n, <1>3a, PurchaseCall
<1>4a. j2 \in Jar  BY <1>4 DEF Wrote
<1>5. now < T(1) /\ T(1) <= T(2) /\ T(2) <= now + 1 + Day  BY InOrder, Later, WithinADay
<1> HIDE DEF T, j1, j2
<1>6. \A s \in Slots : s # <<"poId", "/">> => j1[s] = jar[s]  BY <1>3 DEF Wrote
<1>7. \A s \in Slots : s # <<"projectId", "/">> => j2[s] = j1[s]  BY <1>3, <1>4 DEF Wrote
<1>8. <<"poId", "/">> \in Slots /\ <<"projectId", "/">> \in Slots  BY <1>n, Reachable
<1>9. j1[<<"poId", "/">>] = Dated(r, T(1))  BY <1>3, <1>8 DEF Wrote
<1>10. j2[<<"projectId", "/">>] = Dated(r, T(2))  BY <1>3, <1>4, <1>8 DEF Wrote
<1>11. j2[<<"poId", "/">>] = Dated(r, T(1)) /\ j2[<<"projectId", "/">>] = Dated(r, T(2))
  BY <1>7, <1>8, <1>9, <1>10
<1>12. Untouched({"poId", "projectId"}, "/")
  BY <1>2, <1>6, <1>7, Reachable DEF Untouched
<1>13. now' = now  BY DEF OpenHandledPurchase
<1> QED BY <1>2, <1>3, <1>4, <1>4a, <1>5, <1>11, <1>12, <1>13

LEMMA PayStep ==
    ASSUME jar \in Jar, now \in Nat, NEW r \in PayRows, OpenPay(r)
    PROVE  /\ jar' \in Jar /\ now' = now
           /\ jar'[<<"payId", "pay">>] = OfSession(r)
           /\ jar'[<<"auditId", "pay">>] = OfSession(r)
           /\ jar'[<<"state", "pay">>] = OfSession(r)
           /\ Untouched({"payId", "auditId", "state"}, "pay")
<1>0. r \in Rows /\ "pay" \in PageDirs  BY DEF Rows, PageDirs
<1>n. {"payId", "auditId", "state"} \subseteq CookieNames  BY DEF CookieNames
<1> DEFINE j1 == JQ!write(jar, now, "pay", "payId", r, NoOptions)
           j2 == JQ!write(j1, now, "pay", "auditId", r, NoOptions)
           j3 == JQ!write(j2, now, "pay", "state", r, NoOptions)
<1>1. jar' = j3 /\ now' = now  BY DEF OpenPay, PayCookies
<1>2. Wrote(j1, jar, <<"payId", "pay">>, OfSession(r))  BY <1>0, <1>n, SessionWrite
<1>2a. j1 \in Jar  BY <1>2 DEF Wrote
<1>3. Wrote(j2, j1, <<"auditId", "pay">>, OfSession(r))  BY <1>0, <1>n, <1>2a, SessionWrite
<1>3a. j2 \in Jar  BY <1>3 DEF Wrote
<1>4. Wrote(j3, j2, <<"state", "pay">>, OfSession(r))  BY <1>0, <1>n, <1>3a, SessionWrite
<1> HIDE DEF j1, j2, j3
<1>5. /\ <<"payId", "pay">> \in Slots /\ <<"auditId", "pay">> \in Slots
      /\ <<"state", "pay">> \in Slots
  BY <1>n, Reachable
<1>6. Untouched({"payId", "auditId", "state"}, "pay")
  BY <1>1, <1>2, <1>3, <1>4, Reachable DEF Wrote, Untouched
<1> QED BY <1>1, <1>2, <1>3, <1>4, <1>5, <1>6 DEF Wrote

LEMMA HandledPayStep ==
    ASSUME jar \in Jar, now \in Nat, NEW r \in HandledPayRows, OpenHandledPay(r)
    PROVE  /\ jar' \in Jar /\ now' = now
           /\ jar'[<<"handledPayId", "pay">>] = OfSession(r)
           /\ Untouched({"handledPayId"}, "pay")
<1>0. r \in Rows /\ "pay" \in PageDirs /\ "handledPayId" \in CookieNames
  BY DEF Rows, PageDirs, CookieNames
<1>1. Wrote(jar', jar, <<"handledPayId", "pay">>, OfSession(r)) /\ now' = now
  BY <1>0, SessionWrite DEF OpenHandledPay
<1> QED BY <1>1, Reachable DEF Wrote, Untouched

LEMMA ProjectStep ==
    ASSUME jar \in Jar, now \in Nat, NEW p \in Projects, OpenProject(p)
    PROVE  /\ jar' \in Jar /\ now' = now
           /\ jar'[<<"projectId", "report">>] = OfSession(p)
           /\ Untouched({"projectId"}, "report")
<1>0. p \in Rows /\ "report" \in PageDirs /\ "projectId" \in CookieNames
  BY DEF Rows, PageDirs, CookieNames
<1>1. Wrote(jar', jar, <<"projectId", "report">>, OfSession(p)) /\ now' = now
  BY <1>0, SessionWrite DEF OpenProject
<1> QED BY <1>1, Reachable DEF Wrote, Untouched

LEMMA CloseStep ==
    ASSUME jar \in Jar, CloseBrowser
    PROVE  /\ jar' \in Jar /\ now' = now
           /\ \A s \in Slots : jar'[s] = IF jar[s].session THEN JQ!NoCookie ELSE jar[s]
<1>1. JQ!NoCookie \in JQ!Cookie  BY DEF JQ!NoCookie, JQ!Cookie
<1>2. jar' = [s \in Slots |-> IF jar[s].session THEN JQ!NoCookie ELSE jar[s]] /\ now' = now
  BY DEF CloseBrowser, Slots
<1> QED BY <1>1, <1>2 DEF Jar

-------------------------------------------------------------------------------
(* The inductive invariant. *)

LEMMA Names ==
    /\ "payId" \in CookieNames /\ "handledPayId" \in CookieNames /\ "poId" \in CookieNames
    /\ "auditId" \in CookieNames /\ "projectId" \in CookieNames /\ "state" \in CookieNames
BY DEF CookieNames

InTime == \A s \in Slots : jar[s].until <= now + 1 + Day

LEMMA TypeIsJar == TypeOK <=> jar \in Jar /\ now \in Nat /\ InTime
BY DEF TypeOK, Jar, Slots, InTime

(* A step that dates what it writes within a day keeps the dates bounded.    *)
LEMMA KeepsInTime ==
    ASSUME IInv, now' = now, jar' \in Jar,
           NEW names, NEW dir \in {"/", "pay", "report"}, Untouched(names, dir),
           \A n \in names : jar'[<<n, dir>>].until <= now + 1 + Day
    PROVE  TypeOK'
<1>1. InTime /\ now \in Nat  BY TypeIsJar DEF IInv
<1>2. ASSUME NEW n \in CookieNames, NEW p \in JQ!Paths
      PROVE  jar'[<<n, p>>].until <= now + 1 + Day
  <2>1. CASE p # dir \/ n \notin names
    <3>1. jar'[<<n, p>>] = jar[<<n, p>>]  BY <2>1 DEF Untouched
    <3>2. <<n, p>> \in Slots  BY Reachable
    <3> QED BY <1>1, <3>1, <3>2 DEF InTime
  <2>2. CASE p = dir /\ n \in names  BY <2>2
  <2> QED BY <2>1, <2>2
<1>3. InTime'  BY <1>2 DEF InTime, Slots
<1> QED BY <1>1, <1>3 DEF TypeOK, Jar, Slots, InTime

LEMMA Initially == Init => IInv
<1> SUFFICES ASSUME Init PROVE IInv  OBVIOUS
<1>1. \A n \in CookieNames : \A p \in JQ!Paths : jar[<<n, p>>] = JQ!NoCookie
  BY DEF Init
<1>2. JQ!NoCookie \in JQ!Cookie /\ JQ!NoCookie.value = Undefined
      /\ JQ!NoCookie.session = FALSE /\ JQ!NoCookie.until = 0
  BY DEF JQ!NoCookie, JQ!Cookie
<1>3. TypeOK
  <2>1. jar \in Jar /\ now = 0  BY <1>2 DEF Init, Jar, Slots
  <2>2. InTime  BY <1>1, <1>2, <2>1, TimeAssumption DEF InTime, Slots
  <2> QED BY <2>1, <2>2, TypeIsJar
<1>4. NothingForPurchases  BY <1>1, <1>2, Reachable DEF NothingForPurchases
<1>5. PaysApart
  BY <1>1, <1>2, Reachable, Names DEF PaysApart, PayId, PayAudit, PayState
<1>6. PurchasesApart
  <2>1. PoId = JQ!NoCookie /\ Audit = JQ!NoCookie /\ Project = JQ!NoCookie /\ State = JQ!NoCookie
    BY <1>1, Reachable, Names DEF PoId, Audit, Project, State
  <2> QED BY <1>2, <2>1, RowsAssumption DEF PurchasesApart, Rows
<1> QED BY <1>3, <1>4, <1>5, <1>6 DEF IInv

LEMMA SessionFields ==
    ASSUME NEW r
    PROVE  OfSession(r).value = r /\ OfSession(r).session = TRUE /\ OfSession(r).until = 0
BY DEF OfSession

(* A step that writes nothing under the names of one part keeps that part. *)
LEMMA KeepsPays ==
    ASSUME IInv, NEW names, NEW dir \in {"/", "pay", "report"}, Untouched(names, dir),
           \/ dir = "/" /\ "payId" \notin names /\ "handledPayId" \notin names
           \/ dir = "pay" /\ names = {"handledPayId"}
              /\ jar'[<<"handledPayId", "pay">>].session
           \/ dir = "report" /\ names = {"projectId"}
              /\ jar'[<<"projectId", "report">>].session
    PROVE  PaysApart'
<1>1. PaysApart  BY DEF IInv
<1>2. /\ jar'[<<"payId", "/">>] = jar[<<"payId", "/">>]
      /\ jar'[<<"handledPayId", "/">>] = jar[<<"handledPayId", "/">>]
      /\ jar'[<<"payId", "pay">>] = jar[<<"payId", "pay">>]
      /\ jar'[<<"auditId", "pay">>] = jar[<<"auditId", "pay">>]
      /\ jar'[<<"state", "pay">>] = jar[<<"state", "pay">>]
  BY Reachable, Names DEF Untouched
<1>3. \/ jar'[<<"handledPayId", "pay">>] = jar[<<"handledPayId", "pay">>]
      \/ jar'[<<"handledPayId", "pay">>].session
  BY Reachable, Names DEF Untouched
<1>4. \/ jar'[<<"projectId", "report">>] = jar[<<"projectId", "report">>]
      \/ jar'[<<"projectId", "report">>].session
  BY Reachable, Names DEF Untouched
<1> QED BY <1>1, <1>2, <1>3, <1>4 DEF PaysApart, PayId, PayAudit, PayState

LEMMA KeepsPurchases ==
    ASSUME IInv, NEW names, NEW dir \in {"pay", "report"}, Untouched(names, dir)
    PROVE  PurchasesApart'
<1>1. PoId' = PoId /\ Audit' = Audit /\ Project' = Project /\ State' = State
  BY Reachable, Names DEF Untouched, PoId, Audit, Project, State
<1> QED BY <1>1 DEF IInv, PurchasesApart

LEMMA KeepsNothing ==
    ASSUME IInv, NEW names, NEW dir \in {"/", "pay", "report"}, Untouched(names, dir)
    PROVE  NothingForPurchases'
BY Reachable DEF IInv, NothingForPurchases, Untouched

LEMMA Preserved == IInv /\ [Next]_vars => IInv'
<1> SUFFICES ASSUME IInv, [Next]_vars PROVE IInv'  OBVIOUS
<1>0. jar \in Jar /\ now \in Nat /\ InTime  BY TypeIsJar DEF IInv
<1>d. 0 <= now + 1 + Day  BY <1>0, TimeAssumption
<1>1. ASSUME NEW r \in PurchaseRows, OpenPurchase(r) PROVE IInv'
  <2>1. jar' \in Jar /\ now' = now  BY <1>0, <1>1, PurchaseStep
  <2>2. Untouched({"poId", "auditId", "projectId", "state"}, "/")  BY <1>0, <1>1, PurchaseStep
  <2>3. PICK t1, t2, t3, t4 \in Nat :
           /\ t1 <= t2 /\ t1 <= t3 /\ t2 <= t4
           /\ t3 <= now + 1 + Day /\ t4 <= now + 1 + Day
           /\ jar'[<<"poId", "/">>] = Dated(r, t1) /\ jar'[<<"auditId", "/">>] = Dated(r, t2)
           /\ jar'[<<"projectId", "/">>] = Dated(r, t3) /\ jar'[<<"state", "/">>] = Dated(r, t4)
    BY <1>0, <1>1, PurchaseStep
  <2>f. /\ PoId'.value = r /\ ~PoId'.session /\ PoId'.until = t1
        /\ Audit'.value = r /\ ~Audit'.session /\ Audit'.until = t2
        /\ Project'.value = r /\ ~Project'.session /\ Project'.until = t3
        /\ State'.value = r /\ ~State'.session /\ State'.until = t4
    BY <2>3 DEF Dated, PoId, Audit, Project, State
  <2>4. PurchasesApart'  BY <2>3, <2>f DEF PurchasesApart
  <2>5. t1 <= now + 1 + Day /\ t2 <= now + 1 + Day  BY <1>0, <2>3, TimeAssumption
  <2>6. TypeOK'
    <3>1. /\ jar'[<<"poId", "/">>].until = t1 /\ jar'[<<"auditId", "/">>].until = t2
          /\ jar'[<<"projectId", "/">>].until = t3 /\ jar'[<<"state", "/">>].until = t4
      BY <2>f DEF PoId, Audit, Project, State
    <3>2. \A n \in {"poId", "auditId", "projectId", "state"} :
             jar'[<<n, "/">>].until <= now + 1 + Day
      BY <2>3, <2>5, <3>1
    <3> QED BY <2>1, <2>2, <3>2, KeepsInTime
  <2> QED BY <2>2, <2>4, <2>6, KeepsPays, KeepsNothing DEF IInv
<1>2. ASSUME NEW r \in HandledPurchaseRows, OpenHandledPurchase(r) PROVE IInv'
  <2>1. jar' \in Jar /\ now' = now  BY <1>0, <1>2, HandledPurchaseStep
  <2>2. Untouched({"poId", "projectId"}, "/")  BY <1>0, <1>2, HandledPurchaseStep
  <2>3. PICK t1, t2 \in Nat :
           /\ t1 <= t2 /\ t2 <= now + 1 + Day
           /\ jar'[<<"poId", "/">>] = Dated(r, t1) /\ jar'[<<"projectId", "/">>] = Dated(r, t2)
    BY <1>0, <1>2, HandledPurchaseStep
  <2>4. Audit' = Audit /\ State' = State  BY <2>2, Reachable, Names DEF Untouched, Audit, State
  <2>5. r \notin PurchaseRows  BY RowsAssumption
  <2>f. /\ PoId'.value = r /\ ~PoId'.session /\ PoId'.until = t1
        /\ Project'.value = r /\ ~Project'.session /\ Project'.until = t2
    BY <2>3 DEF Dated, PoId, Project
  <2>6. PurchasesApart'  BY <2>3, <2>4, <2>5, <2>f DEF IInv, PurchasesApart
  <2>7. TypeOK'
    <3>1. jar'[<<"poId", "/">>].until = t1 /\ jar'[<<"projectId", "/">>].until = t2
      BY <2>f DEF PoId, Project
    <3>2. t1 <= now + 1 + Day  BY <1>0, <2>3, TimeAssumption
    <3>3. \A n \in {"poId", "projectId"} : jar'[<<n, "/">>].until <= now + 1 + Day
      BY <2>3, <3>1, <3>2
    <3> QED BY <2>1, <2>2, <3>3, KeepsInTime
  <2> QED BY <2>2, <2>6, <2>7, KeepsPays, KeepsNothing DEF IInv
<1>3. ASSUME NEW r \in PayRows, OpenPay(r) PROVE IInv'
  <2>1. jar' \in Jar /\ now' = now  BY <1>0, <1>3, PayStep
  <2>2. Untouched({"payId", "auditId", "state"}, "pay")  BY <1>0, <1>3, PayStep
  <2>3. PayId' = OfSession(r) /\ PayAudit' = OfSession(r) /\ PayState' = OfSession(r)
    BY <1>0, <1>3, PayStep DEF PayId, PayAudit, PayState
  <2>4. /\ jar'[<<"payId", "/">>] = jar[<<"payId", "/">>]
        /\ jar'[<<"handledPayId", "/">>] = jar[<<"handledPayId", "/">>]
        /\ jar'[<<"handledPayId", "pay">>] = jar[<<"handledPayId", "pay">>]
        /\ jar'[<<"projectId", "report">>] = jar[<<"projectId", "report">>]
    BY <2>2, Reachable, Names DEF Untouched
  <2>5. PaysApart'  BY <2>3, <2>4, SessionFields DEF IInv, PaysApart
  <2>6. \A n \in {"payId", "auditId", "state"} : jar'[<<n, "pay">>].until <= now + 1 + Day
    <3>1. PayId'.until = 0 /\ PayAudit'.until = 0 /\ PayState'.until = 0
      BY <2>3, SessionFields
    <3>2. /\ jar'[<<"payId", "pay">>].until = 0 /\ jar'[<<"auditId", "pay">>].until = 0
          /\ jar'[<<"state", "pay">>].until = 0
      BY <3>1 DEF PayId, PayAudit, PayState
    <3> QED BY <1>d, <3>2
  <2>7. TypeOK'  BY <2>1, <2>2, <2>6, KeepsInTime
  <2> QED BY <2>2, <2>5, <2>7, KeepsPurchases, KeepsNothing DEF IInv
<1>4. ASSUME NEW r \in HandledPayRows, OpenHandledPay(r) PROVE IInv'
  <2>1. jar' \in Jar /\ now' = now  BY <1>0, <1>4, HandledPayStep
  <2>2. Untouched({"handledPayId"}, "pay")  BY <1>0, <1>4, HandledPayStep
  <2>3. jar'[<<"handledPayId", "pay">>].session  BY <1>0, <1>4, HandledPayStep, SessionFields
  <2>4. jar'[<<"handledPayId", "pay">>].until <= now + 1 + Day
    BY <1>0, <1>d, <1>4, HandledPayStep, SessionFields
  <2>5. TypeOK'  BY <2>1, <2>2, <2>4, KeepsInTime
  <2> QED BY <2>2, <2>3, <2>5, KeepsPays, KeepsPurchases, KeepsNothing DEF IInv
<1>5. ASSUME NEW p \in Projects, OpenProject(p) PROVE IInv'
  <2>1. jar' \in Jar /\ now' = now  BY <1>0, <1>5, ProjectStep
  <2>2. Untouched({"projectId"}, "report")  BY <1>0, <1>5, ProjectStep
  <2>3. jar'[<<"projectId", "report">>].session  BY <1>0, <1>5, ProjectStep, SessionFields
  <2>4. jar'[<<"projectId", "report">>].until <= now + 1 + Day
    BY <1>0, <1>d, <1>5, ProjectStep, SessionFields
  <2>5. TypeOK'  BY <2>1, <2>2, <2>4, KeepsInTime
  <2> QED BY <2>2, <2>3, <2>5, KeepsPays, KeepsPurchases, KeepsNothing DEF IInv
<1>6. CASE UNCHANGED jar /\ now' \in Nat /\ now <= now'
  <2>1. TypeOK'
    <3>1. \A s \in Slots : jar[s].until \in Nat  BY <1>0 DEF Jar, JQ!Cookie
    <3>2. InTime'  BY <1>0, <1>6, <3>1, TimeAssumption DEF InTime
    <3> QED BY <1>0, <1>6, <3>2 DEF TypeOK, InTime, Jar, Slots
  <2>2. NothingForPurchases'  BY <1>6 DEF IInv, NothingForPurchases
  <2>3. PaysApart'  BY <1>6 DEF IInv, PaysApart, PayId, PayAudit, PayState
  <2>4. PurchasesApart'  BY <1>6 DEF IInv, PurchasesApart, PoId, Audit, Project, State
  <2> QED BY <2>1, <2>2, <2>3, <2>4 DEF IInv
<1>7. CASE CloseBrowser
  <2>1. jar' \in Jar /\ now' = now
        /\ \A s \in Slots : jar'[s] = IF jar[s].session THEN JQ!NoCookie ELSE jar[s]
    BY <1>0, <1>7, CloseStep
  <2>2. JQ!NoCookie.value = Undefined  BY DEF JQ!NoCookie
  <2>3. TypeOK'
    <3>1. JQ!NoCookie.until = 0  BY DEF JQ!NoCookie
    <3>2. InTime'  BY <1>0, <1>d, <2>1, <3>1 DEF InTime
    <3> QED BY <1>0, <2>1, <3>2 DEF TypeOK, InTime, Jar, Slots
  <2>4. NothingForPurchases'  BY <2>1, <2>2, Reachable DEF IInv, NothingForPurchases
  <2>5. PaysApart'
    BY <2>1, <2>2, Reachable, Names DEF IInv, PaysApart, PayId, PayAudit, PayState
  <2>6. PoId' = PoId /\ Audit' = Audit /\ Project' = Project /\ State' = State
    BY <2>1, Reachable, Names DEF IInv, PurchasesApart, PoId, Audit, Project, State
  <2>7. PurchasesApart'  BY <2>6 DEF IInv, PurchasesApart
  <2> QED BY <2>3, <2>4, <2>5, <2>7 DEF IInv
<1>8. CASE Tick  BY <1>0, <1>6, <1>8 DEF Tick
<1>9. CASE UNCHANGED vars  BY <1>0, <1>6, <1>9 DEF vars
<1> QED BY <1>1, <1>2, <1>3, <1>4, <1>5, <1>7, <1>8, <1>9 DEF Next

LEMMA Always == Spec => []IInv
BY Initially, Preserved, PTL DEF Spec

(* Whatever the pages write, cookies keep their shape and none is dated more *)
(* than a day after the last write (JQueryCookie).                           *)
THEOREM CookiesTyped == Spec => []TypeOK
<1>1. IInv => TypeOK  BY DEF IInv
<1> QED BY <1>1, Always, PTL

-------------------------------------------------------------------------------
(* What the pages read, slot by slot. *)

Shown(c) == IF now < c.until THEN c.value ELSE Undefined

LEMMA PayReads ==
    ASSUME IInv
    PROVE  /\ Read("pay", "payId") = PayId.value
           /\ Read("pay", "handledPayId") = jar[<<"handledPayId", "pay">>].value
           /\ PayId.value # Undefined => /\ Read("pay", "auditId") = PayId.value
                                         /\ Read("pay", "state") = PayId.value
           /\ PayId.value = Undefined => /\ Read("pay", "auditId") = Shown(Audit)
                                         /\ Read("pay", "state") = Shown(State)
<1> USE DEF IInv
<1>1. /\ jar[<<"payId", "/">>].value = Undefined
      /\ jar[<<"handledPayId", "/">>].value = Undefined
      /\ jar[<<"auditId", "pay">>] = PayId /\ jar[<<"state", "pay">>] = PayId
      /\ PayId.value # Undefined => PayId.session
      /\ jar[<<"handledPayId", "pay">>].value # Undefined
            => jar[<<"handledPayId", "pay">>].session
  BY DEF PaysApart, PayAudit, PayState
<1>2. Read("pay", "payId") = PayId.value
  BY <1>1 DEF Read, JQ!cookie, JQ!ValueAt, JQ!Alive, PayId
<1>3. Read("pay", "handledPayId") = jar[<<"handledPayId", "pay">>].value
  BY <1>1 DEF Read, JQ!cookie, JQ!ValueAt, JQ!Alive
<1>4. PayId.value # Undefined => /\ Read("pay", "auditId") = PayId.value
                                /\ Read("pay", "state") = PayId.value
  BY <1>1 DEF Read, JQ!cookie, JQ!ValueAt, JQ!Alive
<1>5. ~jar[<<"auditId", "/">>].session /\ ~jar[<<"state", "/">>].session
  BY DEF PurchasesApart, Audit, State
<1>6. PayId.value = Undefined => /\ Read("pay", "auditId") = Shown(Audit)
                                /\ Read("pay", "state") = Shown(State)
  BY <1>1, <1>5 DEF Read, JQ!cookie, JQ!ValueAt, JQ!Alive, Shown, Audit, State
<1> QED BY <1>2, <1>3, <1>4, <1>6

LEMMA PurchaseReads ==
    ASSUME IInv
    PROVE  /\ Read("purchase", "poId") = Shown(PoId)
           /\ Read("purchase", "auditId") = Shown(Audit)
           /\ Read("purchase", "projectId") = Shown(Project)
           /\ Read("purchase", "state") = Shown(State)
<1>1. ASSUME NEW n \in CookieNames, ~jar[<<n, "/">>].session
      PROVE  Read("purchase", n) = Shown(jar[<<n, "/">>])
  <2>1. jar[<<n, "purchase">>].value = Undefined  BY DEF IInv, NothingForPurchases
  <2> QED BY <1>1, <2>1 DEF Read, JQ!cookie, JQ!ValueAt, JQ!Alive, Shown
<1>2. ~PoId.session /\ ~Audit.session /\ ~Project.session /\ ~State.session
  BY DEF IInv, PurchasesApart
<1> QED BY <1>1, <1>2, Names DEF PoId, Audit, Project, State

LEMMA Untils ==
    ASSUME IInv
    PROVE  /\ now \in Nat /\ PoId.until \in Nat /\ Audit.until \in Nat
           /\ Project.until \in Nat /\ State.until \in Nat
<1>1. \A s \in Slots : jar[s] \in JQ!Cookie  BY TypeIsJar DEF IInv, Jar
<1>2. PoId \in JQ!Cookie /\ Audit \in JQ!Cookie /\ Project \in JQ!Cookie /\ State \in JQ!Cookie
  BY <1>1, Reachable, Names DEF PoId, Audit, Project, State
<1> QED BY <1>2 DEF IInv, TypeOK, JQ!Cookie

(* A payment page that has its payId has the auditId and the state of the    *)
(* same row, whatever purchases wrote under these names; one that lost it    *)
(* reads no payment's task, at most a waiting purchase's with its state      *)
(* (paySubstituteDetail.html verifyPass).                                    *)
THEOREM PayPagesReadOneRow == Spec => []PayCookiesTogether
<1>1. ASSUME IInv, PayId.value = Undefined
      PROVE  /\ Shown(Audit) \in PurchaseRows \cup {Undefined}
             /\ Shown(Audit) # Undefined => Shown(State) = Shown(Audit)
  <2>1. /\ Audit.value \in PurchaseRows \cup {Undefined}
        /\ State.value = Audit.value /\ Audit.until <= State.until
    BY <1>1 DEF IInv, PurchasesApart
  <2>2. now < Audit.until => now < State.until  BY <1>1, <2>1, Untils
  <2> QED BY <2>1, <2>2 DEF Shown
<1>2. IInv => PayCookiesTogether  BY <1>1, PayReads DEF PayCookiesTogether
<1> QED BY <1>2, Always, PTL

(* A purchase page that still has the number of a waiting row has the rest   *)
(* of that row: none of its cookies ran out or was replaced before the       *)
(* number (orderDetail.html verifyPass).                                     *)
THEOREM PurchasePagesReadOneRow == Spec => []PurchaseRowComplete
<1>1. ASSUME IInv, Shown(PoId) \in PurchaseRows
      PROVE  /\ Shown(Audit) = Shown(PoId) /\ Shown(Project) = Shown(PoId)
             /\ Shown(State) = Shown(PoId)
  <2>1. now < PoId.until /\ PoId.value \in PurchaseRows
    BY <1>1, RowsAssumption DEF Shown, Rows
  <2>2. /\ Audit.value = PoId.value /\ Project.value = PoId.value /\ State.value = PoId.value
        /\ PoId.until <= Audit.until /\ PoId.until <= Project.until /\ Audit.until <= State.until
    BY <1>1, <2>1 DEF IInv, PurchasesApart
  <2>3. now < Audit.until /\ now < Project.until /\ now < State.until
    BY <1>1, <2>1, <2>2, Untils
  <2> QED BY <2>1, <2>2, <2>3 DEF Shown
<1>2. IInv => PurchaseRowComplete
  BY <1>1, PurchaseReads DEF PurchaseRowComplete
<1> QED BY <1>2, Always, PTL

-------------------------------------------------------------------------------
(* The pages read what the jars of CookieJars say. *)

ProjectRow == jar[<<"projectId", "report">>].value
PurchaseCookiesShown == [poId |-> Shown(PoId), auditId |-> Shown(Audit),
                         projectId |-> Shown(Project), state |-> Shown(State)]

\* The refinement mapping, read off the slots.
LEMMA Mapping ==
    ASSUME IInv
    PROVE  /\ AbstractProject = ProjectRow
           /\ AbstractReportPage = IF ProjectRow # Undefined THEN ProjectRow ELSE Shown(Project)
           /\ AbstractPurchase = PurchaseCookiesShown
<1>1. jar[<<"projectId", "report">>].value # Undefined
        => jar[<<"projectId", "report">>].session
  BY DEF IInv, PaysApart
<1>2. AbstractProject = ProjectRow
  BY <1>1 DEF AbstractProject, JQ!ValueAt, JQ!Alive, ProjectRow
<1>3. ~jar[<<"projectId", "/">>].session  BY DEF IInv, PurchasesApart, Project
<1>4. AbstractReportPage = IF ProjectRow # Undefined THEN ProjectRow ELSE Shown(Project)
  BY <1>1, <1>3
     DEF AbstractReportPage, Read, JQ!cookie, JQ!ValueAt, JQ!Alive, ProjectRow, Shown, Project
<1>5. AbstractPurchase = PurchaseCookiesShown
  BY PurchaseReads DEF AbstractPurchase, PurchaseCookiesShown
<1> QED BY <1>2, <1>4, <1>5

\* The abstract variables in a state of the invariant.
Mapped == /\ AbstractPayRow = PayId.value
          /\ AbstractHandledPay = jar[<<"handledPayId", "pay">>].value
          /\ AbstractProject = ProjectRow
          /\ AbstractPurchase = PurchaseCookiesShown

LEMMA Maps == IInv => Mapped
BY Mapping, PayReads DEF Mapped, AbstractPayRow, AbstractHandledPay

\* What the payment page and the report page read is what CookieJars shows them.
LEMMA PagesShow == IInv => Jars!Shown
<1> SUFFICES ASSUME IInv PROVE Jars!Shown  OBVIOUS
<1>1. Mapped  BY Maps
<1>2. AbstractPurchase.auditId = Shown(Audit) /\ AbstractPurchase.state = Shown(State)
      /\ AbstractPurchase.projectId = Shown(Project)
  BY <1>1 DEF Mapped, PurchaseCookiesShown
<1>3. AbstractPayPage = IF AbstractPayRow # Undefined
                        THEN [payId |-> AbstractPayRow, auditId |-> AbstractPayRow,
                              state |-> AbstractPayRow]
                        ELSE [payId |-> Undefined, auditId |-> AbstractPurchase.auditId,
                              state |-> AbstractPurchase.state]
  BY <1>1, <1>2, PayReads DEF Mapped, AbstractPayPage
<1>4. AbstractReportPage = IF AbstractProject # Undefined
                           THEN AbstractProject ELSE AbstractPurchase.projectId
  BY <1>1, <1>2, Mapping DEF Mapped
<1> QED BY <1>3, <1>4 DEF Jars!Shown

LEMMA PagesShowNext == IInv' => Jars!Shown'
BY PagesShow, PTL

LEMMA MapsNext == IInv' => Mapped'
BY Maps, PTL

LEMMA JarsInit == Init => Jars!Init
<1> SUFFICES ASSUME Init PROVE Jars!Init  OBVIOUS
<1>1. IInv /\ Mapped  BY Initially, Maps
<1>2. \A n \in CookieNames : \A p \in JQ!Paths : jar[<<n, p>>] = JQ!NoCookie  BY DEF Init
<1>3. JQ!NoCookie.value = Undefined  BY DEF JQ!NoCookie
<1>4. /\ PayId.value = Undefined /\ jar[<<"handledPayId", "pay">>].value = Undefined
      /\ ProjectRow = Undefined
      /\ PoId.value = Undefined /\ Audit.value = Undefined
      /\ Project.value = Undefined /\ State.value = Undefined
  BY <1>2, <1>3, Reachable, Names DEF PayId, ProjectRow, PoId, Audit, Project, State
<1>5. PurchaseCookiesShown = Jars!NoPurchase
  BY <1>4 DEF PurchaseCookiesShown, Shown, Jars!NoPurchase
<1>6. Jars!Shown  BY <1>1, PagesShow
<1> QED BY <1>1, <1>4, <1>5, <1>6 DEF Mapped, Jars!Init

\* A step outside a slot does not change what is read from it.
LEMMA SameElsewhere ==
    ASSUME NEW names, NEW dir \in {"/", "pay", "report"}, Untouched(names, dir)
    PROVE  /\ dir # "/" => PoId' = PoId /\ Audit' = Audit /\ Project' = Project /\ State' = State
           /\ dir # "pay" \/ "payId" \notin names => PayId' = PayId
           /\ dir # "pay" \/ "handledPayId" \notin names
                => jar'[<<"handledPayId", "pay">>] = jar[<<"handledPayId", "pay">>]
           /\ dir # "report" => ProjectRow' = ProjectRow
BY Reachable, Names
   DEF Untouched, PoId, Audit, Project, State, PayId, ProjectRow

LEMMA JarsStep ==
    ASSUME IInv, IInv', [Next]_vars
    PROVE  [Jars!Next]_(Jars!jars)
<1>0. Mapped /\ Mapped'  BY Maps, MapsNext
<1>p. Jars!Shown /\ Jars!Shown'  BY PagesShow, PagesShowNext
<1>t. jar \in Jar /\ now \in Nat  BY TypeIsJar DEF IInv
<1>1. ASSUME NEW r \in PurchaseRows, OpenPurchase(r) PROVE Jars!OpenPurchase(r)
  <2>1. now' = now /\ Untouched({"poId", "auditId", "projectId", "state"}, "/")
    BY <1>t, <1>1, PurchaseStep
  <2>2. PICK t1, t2, t3, t4 \in Nat :
           /\ now < t1 /\ t1 <= t2 /\ t1 <= t3 /\ t2 <= t4
           /\ jar'[<<"poId", "/">>] = Dated(r, t1) /\ jar'[<<"auditId", "/">>] = Dated(r, t2)
           /\ jar'[<<"projectId", "/">>] = Dated(r, t3) /\ jar'[<<"state", "/">>] = Dated(r, t4)
    BY <1>t, <1>1, PurchaseStep
  <2>3. now < t2 /\ now < t3 /\ now < t4  BY <1>t, <2>2
  <2>4. /\ PoId'.value = r /\ PoId'.until = t1 /\ Audit'.value = r /\ Audit'.until = t2
        /\ Project'.value = r /\ Project'.until = t3 /\ State'.value = r /\ State'.until = t4
    BY <2>2 DEF Dated, PoId, Audit, Project, State
  <2>5. Shown(PoId)' = r /\ Shown(Audit)' = r /\ Shown(Project)' = r /\ Shown(State)' = r
    BY <2>1, <2>2, <2>3, <2>4 DEF Shown
  <2>6. /\ PayId' = PayId /\ ProjectRow' = ProjectRow
        /\ jar'[<<"handledPayId", "pay">>] = jar[<<"handledPayId", "pay">>]
    BY <2>1, SameElsewhere
  <2> QED BY <1>0, <2>5, <2>6 DEF Mapped, Jars!OpenPurchase, PurchaseCookiesShown
<1>2. ASSUME NEW r \in HandledPurchaseRows, OpenHandledPurchase(r)
      PROVE  Jars!OpenHandledPurchase(r)
  <2>1. now' = now /\ Untouched({"poId", "projectId"}, "/")  BY <1>t, <1>2, HandledPurchaseStep
  <2>2. PICK t1, t2 \in Nat :
           /\ now < t1 /\ t1 <= t2
           /\ jar'[<<"poId", "/">>] = Dated(r, t1) /\ jar'[<<"projectId", "/">>] = Dated(r, t2)
    BY <1>t, <1>2, HandledPurchaseStep
  <2>3. now < t2  BY <1>t, <2>2
  <2>4. /\ PoId'.value = r /\ PoId'.until = t1
        /\ Project'.value = r /\ Project'.until = t2
    BY <2>2 DEF Dated, PoId, Project
  <2>5. Audit' = Audit /\ State' = State  BY <2>1, Reachable, Names DEF Untouched, Audit, State
  <2>6. /\ Shown(PoId)' = r /\ Shown(Project)' = r
        /\ Shown(Audit)' = Shown(Audit) /\ Shown(State)' = Shown(State)
    BY <2>1, <2>2, <2>3, <2>4, <2>5 DEF Shown
  <2>7. /\ PayId' = PayId /\ ProjectRow' = ProjectRow
        /\ jar'[<<"handledPayId", "pay">>] = jar[<<"handledPayId", "pay">>]
    BY <2>1, SameElsewhere
  <2>8. AbstractPurchase.auditId = Shown(Audit) /\ AbstractPurchase.state = Shown(State)
    BY <1>0 DEF Mapped, PurchaseCookiesShown
  <2> QED BY <1>0, <2>6, <2>7, <2>8 DEF Mapped, Jars!OpenHandledPurchase, PurchaseCookiesShown
<1>s. ASSUME now' = now, PoId' = PoId, Audit' = Audit, Project' = Project, State' = State
      PROVE  AbstractPurchase' = AbstractPurchase
  BY <1>0, <1>s DEF Mapped, PurchaseCookiesShown, Shown
<1>3. ASSUME NEW r \in PayRows, OpenPay(r) PROVE Jars!OpenPay(r)
  <2>1. now' = now /\ Untouched({"payId", "auditId", "state"}, "pay")  BY <1>t, <1>3, PayStep
  <2>2. PayId'.value = r  BY <1>t, <1>3, PayStep, SessionFields DEF PayId
  <2> QED BY <1>0, <1>s, <2>1, <2>2, SameElsewhere DEF Mapped, Jars!OpenPay
<1>4. ASSUME NEW r \in HandledPayRows, OpenHandledPay(r) PROVE Jars!OpenHandledPay(r)
  <2>1. now' = now /\ Untouched({"handledPayId"}, "pay")  BY <1>t, <1>4, HandledPayStep
  <2>2. jar'[<<"handledPayId", "pay">>].value = r  BY <1>t, <1>4, HandledPayStep, SessionFields
  <2> QED BY <1>0, <1>s, <2>1, <2>2, SameElsewhere DEF Mapped, Jars!OpenHandledPay
<1>5. ASSUME NEW p \in Projects, OpenProject(p) PROVE Jars!OpenProject(p)
  <2>1. now' = now /\ Untouched({"projectId"}, "report")  BY <1>t, <1>5, ProjectStep
  <2>2. ProjectRow' = p  BY <1>t, <1>5, ProjectStep, SessionFields DEF ProjectRow
  <2> QED BY <1>0, <1>s, <2>1, <2>2, SameElsewhere DEF Mapped, Jars!OpenProject
<1>6. CASE Tick
  <2>1. jar' = jar /\ now' = now + 1  BY <1>6 DEF Tick
  <2>2. PoId' = PoId /\ Audit' = Audit /\ Project' = Project /\ State' = State
    BY <2>1 DEF PoId, Audit, Project, State
  <2>3. ASSUME NEW c, c.until \in Nat
        PROVE  (IF now' < c.until THEN c.value ELSE Undefined) \in {Shown(c), Undefined}
    BY <1>t, <2>1, <2>3 DEF Shown
  <2>4. /\ Shown(PoId)' \in {Shown(PoId), Undefined} /\ Shown(Audit)' \in {Shown(Audit), Undefined}
        /\ Shown(Project)' \in {Shown(Project), Undefined}
        /\ Shown(State)' \in {Shown(State), Undefined}
    BY <2>2, <2>3, Untils DEF Shown
  <2>5. Shown(PoId)' # Undefined => Shown(Project)' = Shown(Project)
    BY <1>t, <2>1, <2>2, Untils DEF Shown, IInv, PurchasesApart
  <2>6. Shown(Audit)' # Undefined => Shown(State)' = Shown(State)
    BY <1>t, <2>1, <2>2, Untils DEF Shown, IInv, PurchasesApart
  <2>7. Shown(PoId)' \in PurchaseRows => Shown(Audit)' = Shown(Audit)
    <3>1. Undefined \notin PurchaseRows  BY RowsAssumption DEF Rows
    <3> QED BY <1>t, <2>1, <2>2, <3>1, Untils DEF Shown, IInv, PurchasesApart
  <2>8. /\ AbstractPurchase.poId = Shown(PoId) /\ AbstractPurchase.auditId = Shown(Audit)
        /\ AbstractPurchase.projectId = Shown(Project) /\ AbstractPurchase.state = Shown(State)
    BY <1>0 DEF Mapped, PurchaseCookiesShown
  <2>9. AbstractPurchase' = [poId |-> Shown(PoId)', auditId |-> Shown(Audit)',
                             projectId |-> Shown(Project)', state |-> Shown(State)']
    BY <1>0 DEF Mapped, PurchaseCookiesShown
  <2>10. /\ AbstractPayRow' = AbstractPayRow /\ AbstractHandledPay' = AbstractHandledPay
         /\ AbstractProject' = AbstractProject
    BY <1>0, <2>1 DEF Mapped, PayId, ProjectRow
  <2>11. Jars!RunOut  BY <2>4, <2>5, <2>6, <2>7, <2>8, <2>9, <2>10 DEF Jars!RunOut
  <2> QED BY <1>p, <2>11 DEF Jars!Next
<1>7. CASE CloseBrowser
  <2>1. /\ now' = now
        /\ \A s \in Slots : jar'[s] = IF jar[s].session THEN JQ!NoCookie ELSE jar[s]
    BY <1>t, <1>7, CloseStep
  <2>2. PoId' = PoId /\ Audit' = Audit /\ Project' = Project /\ State' = State
    BY <2>1, Reachable, Names DEF IInv, PurchasesApart, PoId, Audit, Project, State
  <2>3. JQ!NoCookie.value = Undefined  BY DEF JQ!NoCookie
  <2>4. /\ PayId'.value = Undefined /\ jar'[<<"handledPayId", "pay">>].value = Undefined
        /\ ProjectRow' = Undefined
    BY <2>1, <2>3, Reachable, Names DEF IInv, PaysApart, PayId, ProjectRow
  <2>5. Jars!CloseBrowser  BY <1>0, <1>s, <2>1, <2>2, <2>4 DEF Mapped, Jars!CloseBrowser
  <2> QED BY <1>p, <2>5 DEF Jars!Next
<1>8. CASE UNCHANGED vars
  <2>1. /\ now' = now /\ PoId' = PoId /\ Audit' = Audit /\ Project' = Project /\ State' = State
        /\ PayId' = PayId /\ ProjectRow' = ProjectRow
        /\ jar'[<<"handledPayId", "pay">>] = jar[<<"handledPayId", "pay">>]
    BY <1>8 DEF vars, PoId, Audit, Project, State, PayId, ProjectRow
  <2>2. /\ AbstractPayRow' = AbstractPayRow /\ AbstractHandledPay' = AbstractHandledPay
        /\ AbstractProject' = AbstractProject /\ AbstractPurchase' = AbstractPurchase
    BY <1>0, <1>s, <2>1 DEF Mapped
  <2>3. AbstractPayPage' = AbstractPayPage /\ AbstractReportPage' = AbstractReportPage
    BY <1>p, <2>2 DEF Jars!Shown
  <2> QED BY <2>2, <2>3 DEF Jars!jars
<1>9. ASSUME \/ \E r \in PurchaseRows : OpenPurchase(r)
             \/ \E r \in HandledPurchaseRows : OpenHandledPurchase(r)
             \/ \E r \in PayRows : OpenPay(r)
             \/ \E r \in HandledPayRows : OpenHandledPay(r)
             \/ \E p \in Projects : OpenProject(p)
      PROVE  Jars!Next
  BY <1>p, <1>1, <1>2, <1>3, <1>4, <1>5, <1>9 DEF Jars!Next
<1> QED BY <1>6, <1>7, <1>8, <1>9 DEF Next

(* The list pages, jquery.cookie and the browser implement CookieJars: every *)
(* detail page reads its own row where there is one, a purchase's task,      *)
(* state or project where CookieJars says so, and never anything else.       *)
THEOREM PagesReadTheirJars == Spec => ImplementsJars
<1>1. Init => Jars!Init  BY JarsInit
<1>2. IInv /\ IInv' /\ [Next]_vars => [Jars!Next]_(Jars!jars)  BY JarsStep
<1> QED BY <1>1, <1>2, Always, PTL DEF Spec, ImplementsJars, Jars!Spec

-------------------------------------------------------------------------------
(* The text of a cookie.                                                     *)

(* A value without pluses, that no quote begins, is decoded as it is.        *)
LEMMA PlainIsDecoded ==
    ASSUME NEW n \in Nat, NEW s, DOMAIN s = 1 .. n, Len(s) = n,
           s = [i \in 1 .. n |-> s[i]],
           \A i \in 1 .. n : s[i] # "+" /\ s[i] # "%",
           Text!Unquoted(s) = s
    PROVE  Text!parseCookieValue(s) = [i \in 1 .. n |-> Text!Unescape(s[i])]
<1>1. Text!Spaced(s) = s
  BY DEF Text!Spaced, Text!ReplaceAll
<1>2. ~ Text!Malformed(s)
  BY DEF Text!Malformed, Text!Range
<1>3. Text!decodeURIComponent(s) = [i \in 1 .. n |-> Text!Unescape(s[i])]
  BY DEF Text!decodeURIComponent
<1> QED
  BY <1>1, <1>2, <1>3 DEF Text!parseCookieValue

(* Unescaping undoes escaping, and what is escaped has no special character. *)
LEMMA EscapesUndone ==
    ASSUME NEW c \in Text!Characters
    PROVE  /\ Text!Unescape(Text!Escape(c)) = c
           /\ Text!Escape(c) \notin Text!Escaped
           /\ Text!Unescape(c) = c
BY DEF Text!Characters, Text!Escaped, Text!Escape, Text!Unescape

LEMMA TextIsFunction ==
    ASSUME text \in Seq(Text!Characters)
    PROVE  /\ Len(text) \in Nat /\ DOMAIN text = 1 .. Len(text)
           /\ text = [i \in 1 .. Len(text) |-> text[i]]
           /\ \A i \in 1 .. Len(text) : text[i] \in Text!Characters
<1>1. text \in [1 .. Len(text) -> Text!Characters] /\ Len(text) \in Nat
  BY LenProperties
<1> QED
  BY <1>1

(* Whatever its length, a value $.cookie wrote is read back as it was.       *)
THEOREM OwnValuesAreReadBack == text \in Seq(Text!Characters) => OwnValueIsReadBack
<1> SUFFICES ASSUME text \in Seq(Text!Characters)
             PROVE  OwnValueIsReadBack
  OBVIOUS
<1> DEFINE n == Len(text)
           e == [i \in 1 .. n |-> Text!Escape(text[i])]
<1>1. /\ n \in Nat /\ DOMAIN text = 1 .. n /\ text = [i \in 1 .. n |-> text[i]]
      /\ \A i \in 1 .. n : text[i] \in Text!Characters
  BY TextIsFunction
<1>2. Text!stringifyCookieValue(text) = e
  BY <1>1 DEF Text!stringifyCookieValue, Text!encode, Text!encodeURIComponent
<1>3. DOMAIN e = 1 .. n /\ Len(e) = n /\ e = [i \in 1 .. n |-> e[i]]
  BY <1>1
<1>4. \A i \in 1 .. n : e[i] \notin Text!Escaped /\ Text!Unescape(e[i]) = text[i]
  BY <1>1, EscapesUndone
<1> HIDE DEF e
<1>5. \A i \in 1 .. n : e[i] # "+" /\ e[i] # "%" /\ e[i] # "\""
  BY <1>4 DEF Text!Escaped
<1>6. Text!Unquoted(e) = e
  <2>1. e # <<>> => 1 \in 1 .. n /\ Head(e) = e[1]
    BY <1>1, <1>3
  <2> QED
    BY <1>5, <2>1 DEF Text!Unquoted
<1>7. Text!parseCookieValue(e) = [i \in 1 .. n |-> Text!Unescape(e[i])]
  BY <1>1, <1>3, <1>5, <1>6, PlainIsDecoded
<1>8. [i \in 1 .. n |-> Text!Unescape(e[i])] = text
  BY <1>1, <1>4
<1> QED
  BY <1>2, <1>7, <1>8 DEF OwnValueIsReadBack

(* Whatever its length, a value encoded as a form does is read back.         *)
THEOREM FormValuesAreReadBack == text \in Seq(Text!Characters) => FormEncodedIsReadBack
<1> SUFFICES ASSUME text \in Seq(Text!Characters)
             PROVE  FormEncodedIsReadBack
  OBVIOUS
<1> DEFINE n == Len(text)
           f == [i \in 1 .. n |-> IF text[i] = " " THEN "+" ELSE Text!Escape(text[i])]
           g == [i \in 1 .. n |-> IF f[i] = "+" THEN " " ELSE f[i]]
<1>1. /\ n \in Nat /\ DOMAIN text = 1 .. n /\ text = [i \in 1 .. n |-> text[i]]
      /\ \A i \in 1 .. n : text[i] \in Text!Characters
  BY TextIsFunction
<1>2. FormEncoded(text) = f
  BY <1>1 DEF FormEncoded
<1>3. DOMAIN f = 1 .. n /\ Len(f) = n /\ f = [i \in 1 .. n |-> f[i]]
  BY <1>1
<1>4. \A i \in 1 .. n : /\ f[i] # "\"" /\ g[i] # "%"
                        /\ Text!Unescape(g[i]) = text[i]
  <2> SUFFICES ASSUME NEW i \in 1 .. n
               PROVE  f[i] # "\"" /\ g[i] # "%" /\ Text!Unescape(g[i]) = text[i]
    OBVIOUS
  <2>0. /\ f[i] = IF text[i] = " " THEN "+" ELSE Text!Escape(text[i])
        /\ g[i] = IF f[i] = "+" THEN " " ELSE f[i]
    OBVIOUS
  <2> HIDE DEF f, g
  <2>1. CASE text[i] = " "
    BY <2>0, <2>1 DEF Text!Unescape
  <2>2. CASE text[i] # " "
    <3>1. f[i] = Text!Escape(text[i]) /\ f[i] \notin Text!Escaped
      BY <1>1, <2>0, <2>2, EscapesUndone
    <3>2. f[i] # "+" /\ f[i] # "%" /\ f[i] # "\""
      BY <3>1 DEF Text!Escaped
    <3>3. g[i] = f[i]
      BY <2>0, <3>2
    <3> QED
      BY <1>1, <3>1, <3>2, <3>3, EscapesUndone
  <2> QED
    BY <2>1, <2>2
<1>5. Text!Spaced(f) = g
  BY <1>3 DEF Text!Spaced, Text!ReplaceAll
<1>6. DOMAIN g = 1 .. n
  OBVIOUS
<1> HIDE DEF f, g
<1>7. Text!Unquoted(f) = f
  <2>1. f # <<>> => 1 \in 1 .. n /\ Head(f) = f[1]
    BY <1>1, <1>3
  <2> QED
    BY <1>4, <2>1 DEF Text!Unquoted
<1>8. ~ Text!Malformed(g)
  BY <1>4, <1>6 DEF Text!Malformed, Text!Range
<1>9. Text!decodeURIComponent(g) = [i \in 1 .. n |-> Text!Unescape(g[i])]
  BY <1>6 DEF Text!decodeURIComponent
<1>10. [i \in 1 .. n |-> Text!Unescape(g[i])] = text
  BY <1>1, <1>4
<1> QED
  BY <1>2, <1>5, <1>7, <1>8, <1>9, <1>10 DEF FormEncodedIsReadBack, Text!parseCookieValue

(* Every set of positions has a first one.                                   *)
LEMMA LeastPosition ==
    ASSUME NEW T, T \subseteq Nat, T # {}
    PROVE  \E n \in T : \A m \in T : n <= m
<1>1. OpToRel(<, Nat) = {ss \in Nat \X Nat : ss[1] < ss[2]}
  BY Zenon DEF OpToRel
<1>2. \E n \in T : \A m \in T : ~ (<<m, n>> \in OpToRel(<, Nat))
  BY NatLessThanWellFounded, WFMin, Zenon
<1>3. PICK n \in T : \A m \in T : ~ (<<m, n>> \in OpToRel(<, Nat))
  BY <1>2
<1>4. \A m \in T : ~ (m < n)
  BY <1>1, <1>3
<1> QED
  BY <1>4

-------------------------------------------------------------------------------
(* Quoted values.                                                            *)

Start == [out |-> <<>>, held |-> FALSE]

\* How far ReplacePairs is after each of the first n characters.
Pairing(s, c, n, h) ==
    h = [i \in 0 .. n |-> IF i = 0 THEN Start ELSE Text!PairStep(h[i - 1], s[i], c)]

LEMMA PairingAt ==
    ASSUME NEW s, NEW c, NEW n \in Nat, NEW h
    PROVE  Pairing(s, c, n, h) <=>
             /\ h = [i \in 0 .. n |-> h[i]]
             /\ h[0] = Start
             /\ \A i \in 1 .. n : h[i] = Text!PairStep(h[i - 1], s[i], c)
<1> DEFINE step(i) == IF i = 0 THEN Start ELSE Text!PairStep(h[i - 1], s[i], c)
<1>1. Pairing(s, c, n, h) <=> h = [i \in 0 .. n |-> step(i)]
  BY DEF Pairing
<1>2. h = [i \in 0 .. n |-> step(i)] <=>
        h = [i \in 0 .. n |-> h[i]] /\ \A i \in 0 .. n : h[i] = step(i)
  <2> HIDE DEF step
  <2> QED
    OBVIOUS
<1>3. step(0) = Start /\ \A i \in 1 .. n : step(i) = Text!PairStep(h[i - 1], s[i], c)
  OBVIOUS
<1>4. 0 .. n = {0} \cup 1 .. n
  OBVIOUS
<1> HIDE DEF step
<1> QED
  BY <1>1, <1>2, <1>3, <1>4

LEMMA PairingSteps ==
    ASSUME NEW s, NEW c, NEW n \in Nat, NEW h, Pairing(s, c, n, h)
    PROVE  h[0] = Start /\ \A i \in 1 .. n : h[i] = Text!PairStep(h[i - 1], s[i], c)
BY PairingAt

(* The loop runs to the end of the text, in one way.                         *)
LEMMA PairingRuns ==
    ASSUME NEW s, NEW c, NEW n \in Nat
    PROVE  \E h : Pairing(s, c, n, h)
<1> DEFINE T == {m \in Nat : ~ \E h : Pairing(s, c, m, h)}
<1> SUFFICES ASSUME T # {} PROVE FALSE
  OBVIOUS
<1>1. PICK m \in T : \A k \in T : m <= k
  <2>1. T \subseteq Nat
    OBVIOUS
  <2> HIDE DEF T
  <2> QED
    BY <2>1, LeastPosition
<1>2. CASE m = 0
  <2> DEFINE h == [i \in 0 .. 0 |-> Start]
  <2>2. Pairing(s, c, 0, h)
    BY DEF Pairing
  <2> QED
    BY <1>1, <1>2, <2>2
<1>3. CASE m # 0
  <2>1. m \in Nat /\ m - 1 \in Nat /\ ~ (m <= m - 1)
    BY <1>1, <1>3
  <2>2. m - 1 \notin T
    BY <1>1, <2>1
  <2>3. PICK h : Pairing(s, c, m - 1, h)
    BY <2>1, <2>2
  <2> DEFINE g == [i \in 0 .. m |-> IF i = m THEN Text!PairStep(h[m - 1], s[m], c) ELSE h[i]]
  <2>4. /\ g = [i \in 0 .. m |-> g[i]] /\ g[m] = Text!PairStep(h[m - 1], s[m], c)
        /\ \A i \in 0 .. (m - 1) : g[i] = h[i]
    BY <2>1
  <2>5. h[0] = Start /\ \A i \in 1 .. (m - 1) : h[i] = Text!PairStep(h[i - 1], s[i], c)
    BY <2>1, <2>3, PairingAt
  <2> HIDE DEF g
  <2>6. g[0] = Start
    BY <2>1, <2>4, <2>5
  <2>7. ASSUME NEW i \in 1 .. m
        PROVE  g[i] = Text!PairStep(g[i - 1], s[i], c)
    <3>1. i - 1 \in 0 .. (m - 1) /\ (i = m \/ i \in 1 .. (m - 1)) /\ \A k \in 1 .. (m - 1) : k \in 0 .. (m - 1)
      BY <2>1
    <3> QED
      BY <2>4, <2>5, <3>1
  <2>8. Pairing(s, c, m, g)
    BY <2>1, <2>4, <2>6, <2>7, PairingAt
  <2> QED
    BY <1>1, <2>8
<1> QED
  BY <1>2, <1>3

LEMMA PairsOfLoop ==
    ASSUME NEW s, NEW c, Len(s) \in Nat
    PROVE  \E h : Pairing(s, c, Len(s), h) /\ Text!PairsOf(s, c) = h[Len(s)]
<1> DEFINE acc == CHOOSE h : Pairing(s, c, Len(s), h)
<1>1. Pairing(s, c, Len(s), acc)
  BY PairingRuns
<1>2. Text!PairsOf(s, c) = acc[Len(s)]
  BY DEF Text!PairsOf, Pairing, Start
<1> HIDE DEF acc
<1> QED
  BY <1>1, <1>2

(* One more character is one more step.                                      *)
LEMMA PairsOfNext ==
    ASSUME NEW V, NEW s \in Seq(V), NEW x \in V, NEW c
    PROVE  /\ Text!PairsOf(<<>>, c) = Start
           /\ Text!PairsOf(Append(s, x), c) = Text!PairStep(Text!PairsOf(s, c), x, c)
<1> DEFINE n == Len(s)
           t == Append(s, x)
<1>1. n \in Nat /\ Len(t) = n + 1 /\ t[n + 1] = x /\ \A i \in 1 .. n : t[i] = s[i]
  BY AppendProperties, LenProperties
<1> HIDE DEF t
<1>2. Len(t) \in Nat /\ n <= Len(t) /\ n + 1 \in 1 .. Len(t) /\ (n + 1) - 1 = n
  BY <1>1
<1>3. PICK h : Pairing(s, c, n, h) /\ Text!PairsOf(s, c) = h[n]
  BY <1>1, PairsOfLoop
<1>4. PICK g : Pairing(t, c, Len(t), g) /\ Text!PairsOf(t, c) = g[Len(t)]
  BY <1>2, PairsOfLoop
<1>5. h[n] = g[n]
  <2>1. h[0] = Start /\ \A i \in 1 .. n : h[i] = Text!PairStep(h[i - 1], s[i], c)
    BY <1>1, <1>3, PairingSteps
  <2>2. g[0] = Start /\ \A i \in 1 .. Len(t) : g[i] = Text!PairStep(g[i - 1], t[i], c)
    BY <1>2, <1>4, PairingSteps
  <2> DEFINE T == {i \in 0 .. n : h[i] # g[i]}
  <2>3. T = {}
    <3> SUFFICES ASSUME T # {} PROVE FALSE
      OBVIOUS
    <3>1. PICK i \in T : \A k \in T : i <= k
      <4>1. T \subseteq Nat
        OBVIOUS
      <4> HIDE DEF T
      <4> QED
        BY <4>1, LeastPosition
    <3>2. i # 0
      BY <2>1, <2>2, <3>1
    <3>3. i \in 1 .. n /\ i \in 1 .. Len(t) /\ i - 1 \in 0 .. n /\ ~ (i <= i - 1)
      BY <1>1, <1>2, <3>1, <3>2
    <3>4. h[i - 1] = g[i - 1]
      BY <3>1, <3>3
    <3>5. h[i] = g[i]
      BY <1>1, <2>1, <2>2, <3>3, <3>4
    <3> QED
      BY <3>1, <3>5
  <2> QED
    BY <1>1, <2>3
<1>6. g[n + 1] = Text!PairStep(g[(n + 1) - 1], t[n + 1], c)
  <2>1. \A i \in 1 .. Len(t) : g[i] = Text!PairStep(g[i - 1], t[i], c)
    BY <1>2, <1>4, PairingSteps
  <2> QED
    BY <1>2, <2>1
<1>7. Text!PairsOf(t, c) = Text!PairStep(Text!PairsOf(s, c), x, c)
  BY <1>1, <1>2, <1>3, <1>4, <1>5, <1>6
<1>8. Text!PairsOf(<<>>, c) = Start
  <2>1. Len(<<>>) = 0
    BY EmptySeq
  <2>2. PICK f : Pairing(<<>>, c, 0, f) /\ Text!PairsOf(<<>>, c) = f[0]
    BY <2>1, PairsOfLoop
  <2> QED
    BY <2>2, PairingAt
<1> QED
  BY <1>7, <1>8 DEF t

\* The text with its quotes and backslashes escaped, after each character.
Escaping(s, n, h) ==
    h = [i \in 0 .. n |-> IF i = 0 THEN <<>>
                          ELSE IF s[i] \in {"\"", "\\"}
                               THEN Append(Append(h[i - 1], "\\"), s[i])
                          ELSE Append(h[i - 1], s[i])]

LEMMA EscapingAt ==
    ASSUME NEW s, NEW n \in Nat, NEW h
    PROVE  Escaping(s, n, h) <=>
             /\ h = [i \in 0 .. n |-> h[i]]
             /\ h[0] = <<>>
             /\ \A i \in 1 .. n : h[i] = IF s[i] \in {"\"", "\\"}
                                         THEN Append(Append(h[i - 1], "\\"), s[i])
                                         ELSE Append(h[i - 1], s[i])
<1> DEFINE next(i) == IF s[i] \in {"\"", "\\"} THEN Append(Append(h[i - 1], "\\"), s[i])
                      ELSE Append(h[i - 1], s[i])
           step(i) == IF i = 0 THEN <<>> ELSE next(i)
<1>1. Escaping(s, n, h) <=> h = [i \in 0 .. n |-> step(i)]
  BY DEF Escaping
<1> HIDE DEF next
<1>2. h = [i \in 0 .. n |-> step(i)] <=>
        h = [i \in 0 .. n |-> h[i]] /\ \A i \in 0 .. n : h[i] = step(i)
  <2> HIDE DEF step
  <2> QED
    OBVIOUS
<1>3. step(0) = <<>> /\ \A i \in 1 .. n : step(i) = next(i)
  OBVIOUS
<1>4. 0 .. n = {0} \cup 1 .. n
  OBVIOUS
<1> HIDE DEF step
<1>5. Escaping(s, n, h) <=> /\ h = [i \in 0 .. n |-> h[i]]
                            /\ h[0] = <<>>
                            /\ \A i \in 1 .. n : h[i] = next(i)
  BY <1>1, <1>2, <1>3, <1>4
<1> QED
  BY <1>5 DEF next

LEMMA EscapingRuns ==
    ASSUME NEW s, NEW n \in Nat
    PROVE  \E h : Escaping(s, n, h)
<1> DEFINE T == {m \in Nat : ~ \E h : Escaping(s, m, h)}
<1> SUFFICES ASSUME T # {} PROVE FALSE
  OBVIOUS
<1>1. PICK m \in T : \A k \in T : m <= k
  <2>1. T \subseteq Nat
    OBVIOUS
  <2> HIDE DEF T
  <2> QED
    BY <2>1, LeastPosition
<1>2. CASE m = 0
  <2> DEFINE h == [i \in 0 .. 0 |-> <<>>]
  <2>1. h = [i \in 0 .. 0 |-> h[i]] /\ h[0] = <<>>
    OBVIOUS
  <2>2. Escaping(s, 0, h)
    <3> HIDE DEF h, T
    <3>1. 0 \in Nat /\ 1 .. 0 = {}
      OBVIOUS
    <3> QED
      BY <2>1, <3>1, EscapingAt
  <2> QED
    BY <1>1, <1>2, <2>2
<1>3. CASE m # 0
  <2>1. m \in Nat /\ m - 1 \in Nat /\ ~ (m <= m - 1)
    BY <1>1, <1>3
  <2>2. m - 1 \notin T
    BY <1>1, <2>1
  <2>3. PICK h : Escaping(s, m - 1, h)
    BY <2>1, <2>2
  <2> DEFINE next(f, i) == IF s[i] \in {"\"", "\\"} THEN Append(Append(f[i - 1], "\\"), s[i])
                           ELSE Append(f[i - 1], s[i])
             g == [i \in 0 .. m |-> IF i = m THEN next(h, m) ELSE h[i]]
  <2>4. h[0] = <<>> /\ \A i \in 1 .. (m - 1) : h[i] = next(h, i)
    BY <2>1, <2>3, EscapingAt
  <2>5. \A f, i : f[i - 1] = h[i - 1] => next(f, i) = next(h, i)
    OBVIOUS
  <2>6. (\A i \in 1 .. m : g[i] = next(g, i)) /\ g[0] = <<>> /\ g = [i \in 0 .. m |-> g[i]]
          => Escaping(s, m, g)
    <3> HIDE DEF g
    <3> QED
      BY <2>1, EscapingAt
  <2> HIDE DEF next
  <2>7. /\ g = [i \in 0 .. m |-> g[i]] /\ g[m] = next(h, m)
        /\ \A i \in 0 .. (m - 1) : g[i] = h[i]
    BY <2>1
  <2> HIDE DEF g
  <2>8. ASSUME NEW i \in 1 .. m
        PROVE  g[i] = next(g, i)
    <3>1. i - 1 \in 0 .. (m - 1) /\ (i = m \/ i \in 1 .. (m - 1)) /\ \A k \in 1 .. (m - 1) : k \in 0 .. (m - 1)
      BY <2>1
    <3>2. next(g, i) = next(h, i)
      BY <2>5, <2>7, <3>1
    <3> QED
      BY <2>4, <2>7, <3>1, <3>2
  <2>9. Escaping(s, m, g)
    BY <2>1, <2>4, <2>6, <2>7, <2>8
  <2> QED
    BY <1>1, <2>9
<1> QED
  BY <1>2, <1>3

LEMMA BackslashedLoop ==
    ASSUME NEW s, Len(s) \in Nat
    PROVE  \E h : Escaping(s, Len(s), h) /\ Backslashed(s) = h[Len(s)]
<1> DEFINE rest == CHOOSE h : Escaping(s, Len(s), h)
<1>1. Escaping(s, Len(s), rest)
  BY EscapingRuns
<1>2. Backslashed(s) = rest[Len(s)]
  BY DEF Backslashed, Escaping
<1> HIDE DEF rest
<1> QED
  BY <1>1, <1>2

(* What a step does, by what is held back.                                   *)
LEMMA StepReleases ==
    ASSUME NEW acc, NEW x, NEW c, x # "\\", x = c => ~ acc.held
    PROVE  Text!PairStep(acc, x, c) = [out |-> Append(Text!Released(acc), x), held |-> FALSE]
<1>1. CASE acc.held
  BY <1>1 DEF Text!PairStep, Text!Released
<1>2. CASE ~ acc.held
  BY <1>2 DEF Text!PairStep, Text!Released
<1> QED
  BY <1>1, <1>2

LEMMA StepHolds ==
    ASSUME NEW acc, NEW c, c = "\\" => ~ acc.held
    PROVE  Text!PairStep(acc, "\\", c) = [out |-> Text!Released(acc), held |-> TRUE]
<1>1. CASE acc.held
  BY <1>1 DEF Text!PairStep, Text!Released
<1>2. CASE ~ acc.held
  BY <1>2 DEF Text!PairStep, Text!Released
<1> QED
  BY <1>1, <1>2

LEMMA StepReplaces ==
    ASSUME NEW acc, NEW c, acc.held
    PROVE  Text!PairStep(acc, c, c) = [out |-> Append(acc.out, c), held |-> FALSE]
BY DEF Text!PairStep

LEMMA HeldBack ==
    ASSUME NEW o
    PROVE  /\ [out |-> o, held |-> TRUE].held /\ ~ [out |-> o, held |-> FALSE].held
           /\ Text!Released([out |-> o, held |-> TRUE]) = Append(o, "\\")
           /\ Text!Released([out |-> o, held |-> FALSE]) = o
           /\ [out |-> o, held |-> TRUE].out = o
BY DEF Text!Released

(* What one character of the text does to the two replacements.  After the  *)
(* first, q is the text with its backslashes still doubled; the second has  *)
(* made the text itself of it.                                              *)
Undone(e, o) ==
    /\ e \in Seq(Text!Characters) /\ o \in Seq(Text!Characters)
    /\ Text!ReplacePairs(e, "\"") \in Seq(Text!Characters)
    /\ Text!PairsOf(Text!ReplacePairs(e, "\""), "\\") = [out |-> o, held |-> FALSE]

LEMMA UndoneNext ==
    ASSUME NEW e, NEW o, Undone(e, o), NEW x \in Text!Characters
    PROVE  LET f == IF x \in {"\"", "\\"} THEN Append(Append(e, "\\"), x) ELSE Append(e, x)
           IN  Undone(f, Append(o, x))
<1> DEFINE q == Text!ReplacePairs(e, "\"")
           C == Text!Characters
           done == [out |-> o, held |-> FALSE]
<1>1. /\ e \in Seq(C) /\ o \in Seq(C) /\ q \in Seq(C)
      /\ Text!PairsOf(q, "\\") = done
      /\ Text!Released(Text!PairsOf(e, "\"")) = q
  BY DEF Undone, Text!ReplacePairs
<1>2. "\\" \in C /\ "\"" \in C /\ \A s \in Seq(C) : \A y \in C : Append(s, y) \in Seq(C)
  BY AppendProperties DEF Text!Characters, Text!Escaped
<1>3. \A s \in Seq(C), y \in C : \A c : Text!PairsOf(Append(s, y), c) = Text!PairStep(Text!PairsOf(s, c), y, c)
  BY PairsOfNext, Zenon
<1>4. ~ done.held /\ Text!Released(done) = o
  BY HeldBack
<1>5. x \in C
  OBVIOUS
<1> HIDE DEF q, C, done
<1>6. x # "\\" => Text!PairsOf(Append(q, x), "\\") = [out |-> Append(o, x), held |-> FALSE]
  <2>1. Text!PairsOf(Append(q, x), "\\") = Text!PairStep(done, x, "\\")
    BY <1>1, <1>3, <1>5, Zenon
  <2> QED
    BY <1>4, <2>1, StepReleases
<1>7. CASE x \notin {"\"", "\\"}
  <2>1. Text!PairsOf(Append(e, x), "\"") = [out |-> Append(q, x), held |-> FALSE]
    <3>1. Text!PairsOf(Append(e, x), "\"") = Text!PairStep(Text!PairsOf(e, "\""), x, "\"")
      BY <1>1, <1>3, <1>5, Zenon
    <3>2. x # "\\" /\ x # "\""
      BY <1>7
    <3> QED
      BY <1>1, <3>1, <3>2, StepReleases
  <2>2. Text!ReplacePairs(Append(e, x), "\"") = Append(q, x)
    BY <2>1, HeldBack DEF Text!ReplacePairs
  <2>3. Undone(Append(e, x), Append(o, x))
    BY <1>1, <1>2, <1>5, <1>6, <1>7, <2>2 DEF Undone, C
  <2> QED
    BY <1>7, <2>3
<1> DEFINE e1 == Append(e, "\\")
           held == [out |-> q, held |-> TRUE]
<1>8. Text!PairsOf(e1, "\"") = held /\ e1 \in Seq(C)
  BY <1>1, <1>2, <1>3, StepHolds
<1>9. held.held /\ Text!Released(held) = Append(q, "\\") /\ held.out = q
  BY HeldBack
<1> HIDE DEF e1, held
<1>10. CASE x = "\""
  <2>1. Text!PairsOf(Append(e1, x), "\"") = [out |-> Append(q, x), held |-> FALSE]
    BY <1>3, <1>5, <1>8, <1>9, <1>10, StepReplaces
  <2>2. Text!ReplacePairs(Append(e1, x), "\"") = Append(q, x)
    BY <2>1, HeldBack DEF Text!ReplacePairs
  <2>3. Undone(Append(e1, x), Append(o, x))
    BY <1>1, <1>2, <1>5, <1>6, <1>8, <1>10, <2>2 DEF Undone, C
  <2> QED
    BY <1>10, <2>3 DEF e1
<1>11. CASE x = "\\"
  <2> DEFINE q1 == Append(q, "\\")
  <2>1. Text!PairsOf(Append(e1, x), "\"") = [out |-> q1, held |-> TRUE]
    <3>1. Text!PairsOf(Append(e1, x), "\"") = Text!PairStep(held, "\\", "\"")
      BY <1>3, <1>5, <1>8, <1>11, Zenon
    <3>2. Text!PairStep(held, "\\", "\"") = [out |-> Text!Released(held), held |-> TRUE]
      BY StepHolds
    <3> QED
      BY <1>9, <3>1, <3>2
  <2>2. q1 \in Seq(C)
    BY <1>1, <1>2
  <2>3. Text!PairsOf(q1, "\\") = [out |-> o, held |-> TRUE]
    <3>1. Text!PairsOf(q1, "\\") = Text!PairStep(done, "\\", "\\")
      BY <1>1, <1>2, <1>3, Zenon
    <3> HIDE DEF q1
    <3> QED
      BY <1>4, <3>1, StepHolds
  <2> HIDE DEF q1
  <2>4. Text!ReplacePairs(Append(e1, x), "\"") = Append(q1, "\\")
    BY <2>1, HeldBack DEF Text!ReplacePairs
  <2>5. Text!PairsOf(Append(q1, "\\"), "\\") = [out |-> Append(o, "\\"), held |-> FALSE]
    <3>1. /\ [out |-> o, held |-> TRUE].held /\ [out |-> o, held |-> TRUE].out = o
      BY HeldBack
    <3>2. Text!PairStep([out |-> o, held |-> TRUE], "\\", "\\") = [out |-> Append(o, "\\"), held |-> FALSE]
      BY <3>1, StepReplaces
    <3>3. Text!PairsOf(Append(q1, "\\"), "\\") = Text!PairStep(Text!PairsOf(q1, "\\"), "\\", "\\")
      BY <1>2, <1>3, <2>2, Zenon
    <3> QED
      BY <2>3, <3>2, <3>3
  <2>6. Undone(Append(e1, x), Append(o, x))
    BY <1>1, <1>2, <1>5, <1>8, <1>11, <2>2, <2>4, <2>5 DEF Undone, C
  <2> QED
    BY <1>11, <2>6 DEF e1
<1> QED
  BY <1>7, <1>10, <1>11

(* After every character of the text, the escaped text so far is undone.     *)
LEMMA BackslashesUndone ==
    ASSUME text \in Seq(Text!Characters)
    PROVE  Undone(Backslashed(text), text)
<1> DEFINE n == Len(text)
           C == Text!Characters
           so(i) == SubSeq(text, 1, i)
<1>1. n \in Nat /\ \A i \in 1 .. n : text[i] \in C
  BY TextIsFunction
<1>2. PICK h : Escaping(text, n, h) /\ Backslashed(text) = h[n]
  BY <1>1, BackslashedLoop
<1>3. /\ h[0] = <<>>
      /\ \A i \in 1 .. n : h[i] = IF text[i] \in {"\"", "\\"}
                                  THEN Append(Append(h[i - 1], "\\"), text[i])
                                  ELSE Append(h[i - 1], text[i])
  BY <1>1, <1>2, EscapingAt
<1>4. so(0) = <<>> /\ so(n) = text
  <2>1. so(0) \in Seq(C) /\ Len(so(0)) = 0
    BY <1>1, SubSeqProperties
  <2>2. /\ so(n) \in Seq(C) /\ Len(so(n)) = n
        /\ \A i \in 1 .. n : so(n)[i] = text[i]
    BY <1>1, SubSeqProperties
  <2> HIDE DEF so
  <2>3. so(0) = <<>>
    BY <2>1, EmptySeq
  <2>4. so(n) = text
    BY <2>2, SeqEqual
  <2> QED
    BY <2>3, <2>4
<1>5. \A i \in 1 .. n : so(i) = Append(so(i - 1), text[i])
  <2> SUFFICES ASSUME NEW i \in 1 .. n
               PROVE  so(i) = Append(so(i - 1), text[i])
    OBVIOUS
  <2>0. i - 1 \in Nat /\ i - 1 <= n /\ i \in Nat /\ (i - 1) + 1 = i
    BY <1>1
  <2>1. /\ so(i) \in Seq(C) /\ Len(so(i)) = i
        /\ \A k \in 1 .. i : so(i)[k] = text[k]
    BY <1>1, SubSeqProperties
  <2>2. /\ so(i - 1) \in Seq(C) /\ Len(so(i - 1)) = i - 1
        /\ \A k \in 1 .. (i - 1) : so(i - 1)[k] = text[k]
    BY <1>1, SubSeqProperties
  <2> HIDE DEF so
  <2> DEFINE a == Append(so(i - 1), text[i])
  <2>3. /\ a \in Seq(C) /\ Len(a) = i /\ a[i] = text[i]
        /\ \A k \in 1 .. (i - 1) : a[k] = text[k]
    <3>1. text[i] \in C
      BY <1>1
    <3> QED
      BY <2>0, <2>2, <3>1, AppendProperties
  <2> HIDE DEF a
  <2>4. \A k \in 1 .. i : a[k] = so(i)[k]
    <3>1. \A k \in 1 .. i : k = i \/ k \in 1 .. (i - 1)
      BY <2>0
    <3> QED
      BY <2>1, <2>3, <3>1
  <2>5. a = so(i)
    BY <2>1, <2>3, <2>4, SeqEqual
  <2> QED
    BY <2>5 DEF a
<1> HIDE DEF so
<1>6. Undone(h[0], so(0))
  <2>1. Text!PairsOf(<<>>, "\"") = Start /\ Text!PairsOf(<<>>, "\\") = Start
    <3>1. "\"" \in C
      BY DEF Text!Characters, Text!Escaped
    <3> QED
      BY <3>1, EmptySeq, PairsOfNext
  <2>2. Text!ReplacePairs(<<>>, "\"") = <<>>
    BY <2>1, HeldBack DEF Text!ReplacePairs, Start
  <2> QED
    BY <1>3, <1>4, <2>1, <2>2, EmptySeq DEF Undone, Start
<1>7. ASSUME NEW i \in 1 .. n, Undone(h[i - 1], so(i - 1))
      PROVE  Undone(h[i], so(i))
  <2>1. text[i] \in C
    BY <1>1
  <2> QED
    BY <1>3, <1>5, <1>7, <2>1, UndoneNext
<1> DEFINE T == {i \in 0 .. n : ~ Undone(h[i], so(i))}
<1>8. T = {}
  <2> SUFFICES ASSUME T # {} PROVE FALSE
    OBVIOUS
  <2>1. PICK i \in T : \A k \in T : i <= k
    <3>1. T \subseteq Nat
      OBVIOUS
    <3> HIDE DEF T
    <3> QED
      BY <3>1, LeastPosition
  <2>2. i # 0
    BY <1>6, <2>1
  <2>3. i \in 1 .. n /\ i - 1 \in 0 .. n /\ ~ (i <= i - 1)
    BY <1>1, <2>1, <2>2
  <2>4. Undone(h[i - 1], so(i - 1))
    BY <2>1, <2>3
  <2> QED
    BY <1>7, <2>1, <2>3, <2>4
<1> QED
  BY <1>1, <1>2, <1>4, <1>8

(* What is between two characters.                                           *)
LEMMA Between ==
    ASSUME NEW V, NEW x \in V, NEW e \in Seq(V)
    PROVE  LET q == <<x>> \o e \o <<x>>
           IN  q # <<>> /\ Head(q) = x /\ SubSeq(q, 2, Len(q) - 1) = e
<1> DEFINE m == Len(e)
           b == <<x>>
           a == b \o e
           q == a \o b
           p == SubSeq(q, 2, m + 1)
<1>0. m \in Nat /\ \A i \in 1 .. m : e[i] \in V
  BY ElementOfSeq, LenProperties
<1>1. b \in Seq(V) /\ Len(b) = 1 /\ b[1] = x
  OBVIOUS
<1> HIDE DEF b
<1>2. /\ a \in Seq(V) /\ Len(a) = 1 + m
      /\ \A i \in 1 .. 1 + m : a[i] = IF i <= 1 THEN b[i] ELSE e[i - 1]
  <2>1. /\ a \in Seq(V) /\ Len(a) = Len(b) + m
        /\ \A i \in 1 .. Len(b) + m : a[i] = IF i <= Len(b) THEN b[i] ELSE e[i - Len(b)]
    BY <1>1, ConcatProperties
  <2> HIDE DEF a
  <2> QED
    BY <1>1, <2>1
<1> HIDE DEF a
<1>3. /\ q \in Seq(V) /\ Len(q) = (1 + m) + 1
      /\ \A i \in 1 .. (1 + m) + 1 : q[i] = IF i <= 1 + m THEN a[i] ELSE b[i - (1 + m)]
  <2>1. /\ q \in Seq(V) /\ Len(q) = Len(a) + Len(b)
        /\ \A i \in 1 .. Len(a) + Len(b) : q[i] = IF i <= Len(a) THEN a[i] ELSE b[i - Len(a)]
    BY <1>1, <1>2, ConcatProperties
  <2> HIDE DEF q
  <2> QED
    BY <1>1, <1>2, <2>1
<1> HIDE DEF q
<1>4. q[1] = x
  BY <1>0, <1>1, <1>2, <1>3
<1>5. ASSUME NEW i \in 1 .. m
      PROVE  q[i + 1] = e[i]
  <2>1. /\ q[i + 1] = a[i + 1] /\ a[i + 1] = e[(i + 1) - 1]
    BY <1>0, <1>2, <1>3
  <2> QED
    BY <1>0, <2>1
<1>6. q # <<>> /\ Head(q) = x
  <2>1. Len(q) # 0
    BY <1>0, <1>3
  <2> QED
    BY <1>3, <1>4, <2>1, EmptySeq, HeadTailProperties
<1>7. /\ p \in Seq(V) /\ Len(p) = IF 2 <= m + 1 THEN m + 1 - 2 + 1 ELSE 0
      /\ \A i \in 1 .. m + 1 - 2 + 1 : p[i] = q[2 + i - 1]
  <2>1. \A i \in 2 .. (m + 1) : q[i] \in V
    <3>1. \A i \in 2 .. (m + 1) : i \in 1 .. Len(q)
      BY <1>0, <1>3
    <3> QED
      BY <1>3, <3>1, ElementOfSeq
  <2> QED
    BY <1>0, <1>3, <2>1, SubSeqProperties
<1> HIDE DEF p
<1>8. Len(p) = m /\ \A i \in 1 .. m : p[i] = q[i + 1]
  <2>1. Len(p) = m
    BY <1>0, <1>7
  <2>2. \A i \in 1 .. m : i \in 1 .. m + 1 - 2 + 1 /\ 2 + i - 1 = i + 1
    BY <1>0
  <2> QED
    BY <1>7, <2>1, <2>2
<1>9. p = e
  BY <1>5, <1>7, <1>8, SeqEqual
<1>10. Len(q) - 1 = m + 1
  BY <1>0, <1>3
<1> QED
  BY <1>6, <1>9, <1>10 DEF p, q, a, b

(* Whatever its length, a quoted value is read without the quoting.          *)
THEOREM QuotedValuesAreReadBack == text \in Seq(Text!Characters) => QuotedValueIsReadBack
<1> SUFFICES ASSUME text \in Seq(Text!Characters), Range(text) \cap {"+", "%"} = {}
             PROVE  Text!parseCookieValue(Quoted(text)) = text
  BY DEF QuotedValueIsReadBack
<1> DEFINE n == Len(text)
           e == Backslashed(text)
           q == Quoted(text)
<1>1. /\ n \in Nat /\ DOMAIN text = 1 .. n /\ text = [i \in 1 .. n |-> text[i]]
      /\ \A i \in 1 .. n : text[i] \in Text!Characters
  BY TextIsFunction
<1>2. /\ e \in Seq(Text!Characters)
      /\ Text!PairsOf(Text!ReplacePairs(e, "\""), "\\") = [out |-> text, held |-> FALSE]
  BY BackslashesUndone DEF Undone
<1>3. Text!ReplacePairs(Text!ReplacePairs(e, "\""), "\\") = text
  BY <1>2, HeldBack DEF Text!ReplacePairs
<1>4. q # <<>> /\ Head(q) = "\"" /\ SubSeq(q, 2, Len(q) - 1) = e
  <2>1. q = <<"\"">> \o e \o <<"\"">>
    BY DEF Quoted
  <2>2. "\"" \in Text!Characters
    BY DEF Text!Characters, Text!Escaped
  <2> HIDE DEF e, q
  <2> QED
    BY <1>2, <2>1, <2>2, Between
<1> HIDE DEF e, q
<1>5. Text!Unquoted(q) = text
  BY <1>3, <1>4 DEF Text!Unquoted
<1>6. \A i \in 1 .. n : text[i] # "+" /\ text[i] # "%"
  BY <1>1 DEF Range
<1>7. Text!Spaced(text) = text
  BY <1>1, <1>6 DEF Text!Spaced, Text!ReplaceAll
<1>8. ~ Text!Malformed(text)
  BY <1>1, <1>6 DEF Text!Malformed, Text!Range
<1>9. Text!decodeURIComponent(text) = text
  BY <1>1, EscapesUndone DEF Text!decodeURIComponent
<1> QED
  BY <1>5, <1>7, <1>8, <1>9 DEF Text!parseCookieValue, q
===============================================================================
