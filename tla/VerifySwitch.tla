----------------------------- MODULE VerifySwitch -----------------------------
(***************************************************************************)
(* The control flow of VerifyUtil: the switch of verify, whose cases end   *)
(* in a return only where the order type matches and otherwise fall        *)
(* through to the next label, and the two consecutive ifs of unPass.  One  *)
(* behaviour is one call, for any code, type and operation a body holds.   *)
(***************************************************************************)
EXTENDS VerifyRouting, Sequences, FiniteSetsExt

CONSTANTS Codes,       \* node codes that reach verify, None if the body has none
          PoTypes      \* order types that reach verify and unPass

VARIABLES code, poType, operation,   \* the AuditVO of the call
          pc,                        \* where the call is
          label,                     \* the case being executed, 0 for none
          posted                     \* the end points posted to so far

vars == <<code, poType, operation, pc, label, posted>>

\* Mutated forms of Posts and NextLabel.
Posts_without25Pay(l) == {e \in AuditEndpoints : e.node = l /\ ~(l = 25 /\ e.poType = Pay)}
NextLabel_byNumber(l) == IF l < 90 THEN l + 5 ELSE 0
NextLabel_breaks(l) == 0

\* The posts inside one case of the switch: case 10 knows purchases only,
\* case 80 knows payments only, every other case knows both.
Posts(l) == {e \in AuditEndpoints : e.node = l}

\* The label below this one in the source, 0 past the last one.
NextLabel(l) ==
    IF \E m \in CaseLabels : m > l THEN Min({m \in CaseLabels : m > l}) ELSE 0

Init == /\ code \in Codes
        /\ poType \in PoTypes
        /\ operation \in {Agree, Refuse}
        /\ pc = IF operation = Agree THEN "switch" ELSE "if pay"
        /\ label = 0
        /\ posted = <<>>

Unchanging == UNCHANGED <<code, poType, operation>>

\* switch (auditStatus): jump to the label, or leave when there is none.  A
\* null code leaves too: its unboxing throws into the handler's catch.
Enter == /\ pc = "switch"
         /\ IF getAuditStatus(code) \in CaseLabels
            THEN pc' = "case" /\ label' = getAuditStatus(code)
            ELSE pc' = "returned" /\ UNCHANGED label
         /\ Unchanging /\ UNCHANGED posted

\* if (poType == ...) return httpUtil.postByDefault(...)
PostAndReturn == /\ pc = "case"
                 /\ \E e \in Posts(label) : /\ e.poType = poType
                                            /\ posted' = Append(posted, e)
                 /\ pc' = "returned"
                 /\ Unchanging /\ UNCHANGED label

\* No return taken and no break: execution continues with the next case.
FallThrough == /\ pc = "case"
               /\ \A e \in Posts(label) : e.poType # poType
               /\ label' = NextLabel(label)
               /\ pc' = IF label' = 0 THEN "returned" ELSE "case"
               /\ Unchanging /\ UNCHANGED posted

\* unPass: one if after the other, neither of them returns.
RefusePay == /\ pc = "if pay"
             /\ posted' = IF poType = Pay THEN Append(posted, unPass(Pay)) ELSE posted
             /\ pc' = "if purchase"
             /\ Unchanging /\ UNCHANGED label

RefusePurchase == /\ pc = "if purchase"
                  /\ posted' = IF poType = Purchase THEN Append(posted, unPass(Purchase))
                                                    ELSE posted
                  /\ pc' = "returned"
                  /\ Unchanging /\ UNCHANGED label

Next == Enter \/ PostAndReturn \/ FallThrough \/ RefusePay \/ RefusePurchase

Spec == Init /\ [][Next]_vars

Returned == pc = "returned"

-------------------------------------------------------------------------------
(* Every value the variables take.                                           *)
TypeOK == /\ code \in Codes
          /\ poType \in PoTypes
          /\ operation \in {Agree, Refuse}
          /\ pc \in {"switch", "case", "if pay", "if purchase", "returned"}
          /\ label \in CaseLabels \cup {0}
          /\ posted \in Seq(AuditEndpoints \cup UnpassEndpoints)

(* What a call posts, once VerifyUtil returned, is what the closed form says *)
(* for its code and type: the fall-through of the switch and the two ifs of  *)
(* unPass post to at most one end point and to no other, and nothing for a   *)
(* code without a name, without a case, or null.                             *)
PostsClosedForm ==
    Returned => LET e == IF operation = Agree THEN verify(code, poType) ELSE unPass(poType)
                IN  posted = IF e = None THEN <<>> ELSE <<e>>

(* Where the back end has an end point for the node and type of the body,    *)
(* verify posts there: falling through never passes over a matching case.    *)
OwnEndpointIsUsed ==
    \A e \in AuditEndpoints :
        Returned /\ operation = Agree /\ e.node = code /\ e.poType = poType
            => posted = <<e>>
===============================================================================
