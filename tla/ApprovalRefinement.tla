-------------------------- MODULE ApprovalRefinement --------------------------
(***************************************************************************)
(* The pages and the handler of Approval implement Decisions: a request is *)
(* a decision about the order its body names, at the node of its state.    *)
(***************************************************************************)
EXTENDS ApprovalProperties

Status(c) == CASE click[c].server = "idle" -> "not made"
               [] Applied(c) -> "effective"
               [] click[c].server \in {"answered", "refused", "lost"} /\ ~Applied(c) -> "void"
               [] OTHER -> "made"

\* A refusal posts no state, an agreement without cookies neither.
decisionOf == [c \in Clicks |-> [status |-> Status(c),
                                 order |-> click[c].body.order,
                                 node |-> click[c].body.state]]

D == INSTANCE Decisions WITH Decisions <- Clicks, Nodes <- StatusCodes, passed <- decidedNodes,
                             refused <- rejected, decision <- decisionOf

(* With the cookies of one page, or of payments, every decision takes effect *)
(* at most once, on the order and at the node it was posted for, or comes to *)
(* nothing: pages, cookies and handler add no other outcome                  *)
(* (waitingPayOrderList.html, paySubstituteDetail.html, VerifyController).   *)
ImplementsDecisions == D!Spec

(* And every decision is concluded, whatever the handler could not do        *)
(* (VerifyController.verifyPass answers in every case).                      *)
DecisionsAreConcluded == D!Concluding
===============================================================================
