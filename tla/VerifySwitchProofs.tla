-------------------------- MODULE VerifySwitchProofs --------------------------
(***************************************************************************)
(* Theorems about VerifySwitch: what one call of VerifyUtil posts, for     *)
(* every code and every order type that can reach it.                      *)
(***************************************************************************)
EXTENDS VerifySwitch, TLAPS

-------------------------------------------------------------------------------
(* The functions the model is built from.                                    *)

(* The first end point reached is the one verify is about.                   *)
LEMMA FirstReached ==
    ASSUME NEW n, NEW type, getAuditStatus(n) \in CaseLabels,
           NEW e \in Reachable(n, type), \A f \in Reachable(n, type) : e.node <= f.node
    PROVE  verify(n, type) = e /\ e # None
<1> DEFINE S == Reachable(n, type)
<1>1. \A f \in S : /\ f \in AuditEndpoints /\ f.node \in Nat /\ f.poType = type
                   /\ f = [node |-> f.node, poType |-> f.poType]
  BY DEF Reachable, AuditEndpoints
<1>2. verify(n, type) = CHOOSE x \in S : \A f \in S : x.node <= f.node
  BY DEF verify
<1>3. e # None
  BY <1>1, NullAssumption
<1> HIDE DEF S
<1>4. \A x \in S : (\A f \in S : x.node <= f.node) => x.node = e.node
  BY <1>1 DEF S
<1>5. \A x \in S : (\A f \in S : x.node <= f.node) => x = e
  BY <1>1, <1>4 DEF S
<1> QED
  BY <1>2, <1>3, <1>5 DEF S

(* Falling through goes to the nearest label below, or to none.              *)
LEMMA NextLabelFacts ==
    ASSUME NEW l \in CaseLabels
    PROVE  IF \E m \in CaseLabels : m > l
           THEN /\ NextLabel(l) \in CaseLabels /\ NextLabel(l) > l
                /\ \A m \in CaseLabels : m > l => NextLabel(l) <= m
           ELSE NextLabel(l) = 0
<1> DEFINE Below == {m \in CaseLabels : m > l}
           Least(x) == x \in Below /\ \A m \in Below : x <= m
<1>1. CASE \E m \in CaseLabels : m > l
  <2>1. NextLabel(l) = CHOOSE x \in Below : \A m \in Below : x <= m
    BY <1>1 DEF NextLabel, Min
  <2>2. \E x : Least(x)
    <3>1. CASE l = 10
      BY <3>1, Least(25) DEF CaseLabels
    <3>2. CASE l = 25
      BY <3>2, Least(30) DEF CaseLabels
    <3>3. CASE l = 30
      BY <3>3, Least(35) DEF CaseLabels
    <3>4. CASE l = 35
      BY <3>4, Least(40) DEF CaseLabels
    <3>5. CASE l = 40
      BY <3>5, Least(80) DEF CaseLabels
    <3>6. CASE l = 80
      BY <3>6, Least(90) DEF CaseLabels
    <3> QED
      BY <1>1, <3>1, <3>2, <3>3, <3>4, <3>5, <3>6 DEF CaseLabels
  <2>3. Least(NextLabel(l))
    BY <2>1, <2>2
  <2> QED
    BY <1>1, <2>3
<1>2. CASE ~ \E m \in CaseLabels : m > l
  BY <1>2 DEF NextLabel
<1> QED
  BY <1>1, <1>2

LEMMA OneMore ==
    ASSUME NEW S, NEW s \in Seq(S), NEW e \in S
    PROVE  Append(s, e) \in Seq(S)
OBVIOUS

LEMMA NothingPosted ==
    ASSUME NEW S
    PROVE  <<>> \in Seq(S)
OBVIOUS

LEMMA FirstPost ==
    ASSUME NEW e
    PROVE  Append(<<>>, e) = <<e>>
OBVIOUS

(* A code that a case is named for is a number, and its own status.          *)
LEMMA LabelFacts ==
    /\ \A l \in CaseLabels : l \in Nat /\ l > 0
    /\ \A n : getAuditStatus(n) \in CaseLabels => n \in CaseLabels /\ getAuditStatus(n) = n
BY NullAssumption DEF CaseLabels, getAuditStatus, StatusCodes

LEMMA PostTypes ==
    /\ \A l : Posts(l) \subseteq AuditEndpoints \cup UnpassEndpoints
    /\ \A type \in {Pay, Purchase} : /\ unPass(type) \in AuditEndpoints \cup UnpassEndpoints
                                     /\ unPass(type) # None
<1>1. \A type \in {Pay, Purchase} : unPass(type) \in UnpassEndpoints
  BY DEF unPass, UnpassEndpoints
<1> QED
  BY <1>1, NullAssumption DEF Posts

-------------------------------------------------------------------------------
(* A call under way.                                                         *)

\* In a case of the switch nothing is posted yet, and every end point that can
\* still be reached is named for this label or for one below.
InCase ==
    /\ operation = Agree /\ posted = <<>>
    /\ getAuditStatus(code) \in CaseLabels
    /\ label \in CaseLabels
    /\ \A e \in Reachable(code, poType) : label <= e.node
    /\ code <= label

\* Between its two ifs unPass has posted the refusal of a payment at most.
PostedByPayIf == IF poType = Pay THEN <<unPass(Pay)>> ELSE <<>>

CallInv ==
    /\ pc = "switch" => operation = Agree /\ posted = <<>>
    /\ pc = "case" => InCase
    /\ pc = "if pay" => operation = Refuse /\ posted = <<>>
    /\ pc = "if purchase" => operation = Refuse /\ posted = PostedByPayIf
    /\ PostsClosedForm

LEMMA TypeStep ==
    ASSUME TypeOK, CallInv, [Next]_vars
    PROVE  TypeOK'
<1> DEFINE Endpoints == AuditEndpoints \cup UnpassEndpoints
<1>1. CASE UNCHANGED vars
  BY <1>1 DEF vars, TypeOK
<1>2. CASE Enter
  BY <1>2 DEF Enter, Unchanging, TypeOK
<1>3. CASE PostAndReturn
  <2>1. PICK e \in Posts(label) : posted' = Append(posted, e)
    BY <1>3 DEF PostAndReturn
  <2>2. e \in Endpoints /\ posted \in Seq(Endpoints)
    BY PostTypes DEF TypeOK
  <2>3. posted' \in Seq(Endpoints)
    BY <2>1, <2>2, OneMore
  <2> QED
    BY <1>3, <2>3 DEF PostAndReturn, Unchanging, TypeOK
<1>4. CASE FallThrough
  <2>1. label \in CaseLabels
    BY <1>4 DEF FallThrough, CallInv, InCase
  <2>2. NextLabel(label) \in CaseLabels \cup {0}
    BY <2>1, NextLabelFacts
  <2> QED
    BY <1>4, <2>2 DEF FallThrough, Unchanging, TypeOK
<1>5. CASE RefusePay \/ RefusePurchase
  <2>1. posted \in Seq(Endpoints)
    BY DEF TypeOK
  <2>2. \/ posted' = posted
        \/ \E type \in {Pay, Purchase} : posted' = Append(posted, unPass(type))
    BY <1>5 DEF RefusePay, RefusePurchase
  <2>3. posted' \in Seq(Endpoints)
    BY <2>1, <2>2, PostTypes, OneMore
  <2> QED
    BY <1>5, <2>3 DEF RefusePay, RefusePurchase, Unchanging, TypeOK
<1> QED
  BY <1>1, <1>2, <1>3, <1>4, <1>5 DEF Next

(* A case that posts is the one named for the first end point reached; a     *)
(* case that does not leaves all that are reached below it.                  *)
LEMMA PostStep ==
    ASSUME CallInv, PostAndReturn
    PROVE  CallInv'
<1>1. PICK e \in Posts(label) : e.poType = poType /\ posted' = Append(posted, e)
  BY DEF PostAndReturn
<1>2. InCase
  BY DEF PostAndReturn, CallInv
<1>3. e \in Reachable(code, poType) /\ \A f \in Reachable(code, poType) : e.node <= f.node
  BY <1>1, <1>2 DEF Posts, Reachable, InCase
<1>4. verify(code, poType) = e /\ e # None
  BY <1>2, <1>3, FirstReached DEF InCase
<1>5. posted' = <<e>>
  BY <1>1, <1>2, FirstPost DEF InCase
<1>6. pc' = "returned" /\ operation' = Agree /\ code' = code /\ poType' = poType
  BY <1>2 DEF PostAndReturn, Unchanging, InCase
<1>7. PostsClosedForm'
  BY <1>4, <1>5, <1>6 DEF PostsClosedForm
<1> QED
  BY <1>6, <1>7 DEF CallInv

LEMMA FallStep ==
    ASSUME CallInv, FallThrough
    PROVE  CallInv'
<1>1. InCase /\ \A e \in Posts(label) : e.poType # poType
  BY DEF FallThrough, CallInv
<1>2. label \in Nat /\ label # 0 /\ 0 \notin CaseLabels /\ code \in Nat
  BY <1>1, LabelFacts DEF InCase
<1>3. \A e \in Reachable(code, poType) : /\ e.node \in CaseLabels /\ e.node \in Nat
                                         /\ label < e.node
  <2>1. \A e \in Reachable(code, poType) : /\ e.node \in CaseLabels /\ e.node \in Nat
                                           /\ e \in AuditEndpoints /\ e.poType = poType
    BY DEF Reachable, AuditEndpoints, CaseLabels
  <2>2. \A e \in Reachable(code, poType) : e.node # label
    BY <1>1, <2>1 DEF Posts
  <2> QED
    BY <1>1, <1>2, <2>1, <2>2 DEF InCase
<1>4. /\ label' = NextLabel(label) /\ posted' = posted /\ operation' = operation
      /\ code' = code /\ poType' = poType
      /\ pc' = IF label' = 0 THEN "returned" ELSE "case"
  BY DEF FallThrough, Unchanging
<1>5. CASE \E m \in CaseLabels : m > label
  <2>1. /\ NextLabel(label) \in CaseLabels /\ NextLabel(label) > label
        /\ \A m \in CaseLabels : m > label => NextLabel(label) <= m
    BY <1>1, <1>5, NextLabelFacts DEF InCase
  <2>2. \A e \in Reachable(code, poType) : NextLabel(label) <= e.node
    BY <1>2, <1>3, <2>1
  <2>3. NextLabel(label) \in Nat /\ code <= NextLabel(label)
    BY <1>1, <1>2, <2>1 DEF InCase, CaseLabels
  <2>4. pc' = "case" /\ InCase'
    BY <1>1, <1>2, <1>4, <2>1, <2>2, <2>3 DEF InCase, Reachable, getAuditStatus
  <2> QED
    BY <2>4 DEF CallInv, PostsClosedForm, Returned
<1>6. CASE ~ \E m \in CaseLabels : m > label
  <2>1. NextLabel(label) = 0
    BY <1>1, <1>6, NextLabelFacts DEF InCase
  <2>2. Reachable(code, poType) = {}
    BY <1>2, <1>3, <1>6
  <2>3. verify(code, poType) = None
    BY <2>2 DEF verify
  <2>4. pc' = "returned" /\ PostsClosedForm'
    BY <1>1, <1>4, <2>1, <2>3 DEF PostsClosedForm, InCase, verify, Reachable
  <2> QED
    BY <2>4 DEF CallInv
<1> QED
  BY <1>5, <1>6

LEMMA EnterStep ==
    ASSUME CallInv, Enter
    PROVE  CallInv'
<1>1. /\ operation = Agree /\ posted = <<>> /\ posted' = posted /\ operation' = operation
      /\ code' = code /\ poType' = poType
  BY DEF Enter, CallInv, Unchanging
<1>2. CASE getAuditStatus(code) \in CaseLabels
  <2>1. getAuditStatus(code) = code /\ code \in Nat
    BY <1>2, LabelFacts
  <2>2. pc' = "case" /\ label' = code
    BY <1>2, <2>1 DEF Enter
  <2>3. InCase'
    BY <1>1, <1>2, <2>1, <2>2 DEF InCase, Reachable, getAuditStatus
  <2> QED
    BY <2>2, <2>3 DEF CallInv, PostsClosedForm, Returned
<1>3. CASE getAuditStatus(code) \notin CaseLabels
  <2>1. verify(code, poType) = None /\ pc' = "returned"
    BY <1>3 DEF verify, Enter
  <2>2. PostsClosedForm'
    BY <1>1, <2>1 DEF PostsClosedForm, verify, Reachable
  <2> QED
    BY <2>1, <2>2 DEF CallInv
<1> QED
  BY <1>2, <1>3

LEMMA RefuseStep ==
    ASSUME CallInv, RefusePay \/ RefusePurchase
    PROVE  CallInv'
<1>1. operation = Refuse /\ UNCHANGED <<code, poType, operation>>
  BY DEF RefusePay, RefusePurchase, CallInv, Unchanging
<1>p. Pay # Purchase
  BY DEF Pay, Purchase
<1>2. CASE RefusePay
  <2>1. pc' = "if purchase" /\ posted' = PostedByPayIf
    BY <1>2, FirstPost DEF RefusePay, CallInv, PostedByPayIf
  <2> QED
    BY <1>1, <2>1 DEF CallInv, PostedByPayIf, PostsClosedForm, Returned
<1>3. CASE RefusePurchase
  <2>1. pc' = "returned" /\ posted = PostedByPayIf
    BY <1>3 DEF RefusePurchase, CallInv
  <2>2. posted' = IF unPass(poType) = None THEN <<>> ELSE <<unPass(poType)>>
    <3>1. CASE poType = Pay
      BY <1>3, <2>1, <3>1, PostTypes, <1>p DEF RefusePurchase, PostedByPayIf
    <3>2. CASE poType = Purchase
      BY <1>3, <2>1, <3>2, PostTypes, <1>p, FirstPost DEF RefusePurchase, PostedByPayIf
    <3>3. CASE poType \notin {Pay, Purchase}
      BY <1>3, <2>1, <3>3 DEF RefusePurchase, PostedByPayIf, unPass
    <3> QED
      BY <3>1, <3>2, <3>3
  <2>3. PostsClosedForm'
    BY <1>1, <2>2 DEF PostsClosedForm, unPass, Agree, Refuse
  <2> QED
    BY <2>1, <2>3 DEF CallInv
<1> QED
  BY <1>2, <1>3

-------------------------------------------------------------------------------
(* The theorems.                                                             *)

LEMMA CallInvariant == Spec => [](TypeOK /\ CallInv)
<1>1. Init => TypeOK /\ CallInv
  <2>1. Init => TypeOK
    BY NothingPosted DEF Init, TypeOK
  <2>2. Init => CallInv
    BY DEF Init, CallInv, PostsClosedForm, Returned
  <2> QED
    BY <2>1, <2>2
<1>2. TypeOK /\ CallInv /\ [Next]_vars => (TypeOK /\ CallInv)'
  <2>1. CASE UNCHANGED vars
    BY <2>1 DEF vars, TypeOK, CallInv, InCase, PostedByPayIf, PostsClosedForm, Returned
  <2> QED
    BY <2>1, TypeStep, EnterStep, PostStep, FallStep, RefuseStep DEF Next
<1> QED
  BY <1>1, <1>2, PTL DEF Spec

(* Every variable keeps its type: the label is one of the switch and only    *)
(* end points of the back end are posted to.                                 *)
THEOREM SwitchTypes == Spec => []TypeOK
BY CallInvariant, PTL

(* The closed form of VerifyRouting is what the control flow of VerifyUtil   *)
(* posts, for every code and every order type: the first end point of the    *)
(* type at or below the label of the code, once, or nothing.                 *)
THEOREM CallsPostTheClosedForm == Spec => []PostsClosedForm
<1>1. CallInv => PostsClosedForm
  BY DEF CallInv
<1> QED
  BY <1>1, CallInvariant, PTL

(* Falling through never passes over the end point that the back end has for *)
(* the node and type of the body.                                            *)
THEOREM OwnEndpointsAreUsed == Spec => []OwnEndpointIsUsed
<1>1. PostsClosedForm => OwnEndpointIsUsed
  <2> SUFFICES ASSUME PostsClosedForm, NEW e \in AuditEndpoints, Returned, operation = Agree,
                      e.node = code, e.poType = poType
               PROVE  posted = <<e>>
    BY DEF OwnEndpointIsUsed
  <2>1. code \in CaseLabels /\ code \in Nat /\ getAuditStatus(code) = code
    BY DEF AuditEndpoints, CaseLabels, getAuditStatus, StatusCodes
  <2>2. e \in Reachable(code, poType) /\ \A f \in Reachable(code, poType) : e.node <= f.node
    BY <2>1 DEF Reachable
  <2>3. verify(code, poType) = e /\ e # None
    BY <2>1, <2>2, FirstReached
  <2> QED
    BY <2>3 DEF PostsClosedForm
<1> QED
  BY <1>1, CallsPostTheClosedForm, PTL
===============================================================================
