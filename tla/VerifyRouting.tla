---------------------------- MODULE VerifyRouting ----------------------------
(***************************************************************************)
(* Which end point of the approval back end (scfs) a decision is posted to *)
(* by VerifyUtil.verify and VerifyUtil.unPass, as a function of the node   *)
(* code and the order type in the request body.  This is the closed form;  *)
(* VerifySwitch models the Java control flow and is checked against it.    *)
(***************************************************************************)
EXTENDS Integers

CONSTANT None      \* Java null: no such status, nothing posted, no such value

\* The order types the pages know (付款, 采购订单).
Pay == 5
Purchase == 1

\* The operations of a decision: verifyPass calls verify for 1 and unPass for
\* any other; the pages post 1 (同意) and 2 (驳回).
Agree == 1
Refuse == 2

\* The codes that StatusUtil.getAuditStatus has a name for.  The names are
\* pairwise different, so the code stands for its name.
StatusCodes == {0, 3, 4, 10, 11, 14, 15, 16, 17, 18, 20, 25, 30, 35, 40, 45, 80, 90, 99}

getAuditStatus(code) == IF code \in StatusCodes THEN code ELSE None

\* The back end's end points: the audit node each one is named for, and the
\* type of order it takes.
AuditEndpoints == [node : {25, 30, 35, 40, 80, 90}, poType : {Pay}]
                    \cup [node : {10, 25, 30, 35, 40, 90}, poType : {Purchase}]
UnpassEndpoints == [node : {None}, poType : {Pay, Purchase}]

ASSUME NullAssumption == None \notin StatusCodes \cup AuditEndpoints \cup UnpassEndpoints

\* Mutated form: no case for the financial specialist.
CaseLabels_without25 == {10, 30, 35, 40, 80, 90}

\* The case labels of the switch in verify.  Every end point is posted to
\* under the label of its own node.
CaseLabels == {10, 25, 30, 35, 40, 80, 90}

\* The end points posted to, for this type, at or below the label for code.
\* The labels stand in ascending order in the source and no case breaks, so
\* "below" is "with a larger node".
Reachable(code, poType) ==
    {e \in AuditEndpoints : e.poType = poType /\ code <= e.node}

\* Mutated form: the last matching case, not the first.
verify_last(code, poType) ==
    IF getAuditStatus(code) \in CaseLabels /\ Reachable(code, poType) # {}
    THEN CHOOSE e \in Reachable(code, poType) :
            \A f \in Reachable(code, poType) : f.node <= e.node
    ELSE None

verify(code, poType) ==
    IF getAuditStatus(code) \in CaseLabels /\ Reachable(code, poType) # {}
    THEN CHOOSE e \in Reachable(code, poType) :
            \A f \in Reachable(code, poType) : e.node <= f.node
    ELSE None

\* Mutated form: purchases forgotten.
unPass_payOnly(poType) ==
    IF poType = Pay THEN [node |-> None, poType |-> poType] ELSE None

unPass(poType) ==
    IF poType \in {Pay, Purchase} THEN [node |-> None, poType |-> poType] ELSE None
==============================================================================
