------------------------------ MODULE Decisions ------------------------------
(***************************************************************************)
(* What an auditor is promised, with no pages, cookies or requests: every  *)
(* decision names an order and, for an approval, the node it is given at;  *)
(* it takes effect at most once, on that order and at that node, or comes  *)
(* to nothing; and it does not stay undecided for ever.                    *)
(***************************************************************************)
EXTENDS Naturals, Sequences

CONSTANTS Orders, Flow,  \* the orders and the audit nodes of each
          Nodes,         \* the codes of the audit nodes
          Decisions,     \* names of decisions
          None           \* no order, no node

VARIABLES passed,        \* number of nodes each order has passed
          refused,       \* orders refused
          decision       \* the decisions, by name

vars == <<passed, refused, decision>>

NotMade == [status |-> "not made", order |-> None, node |-> None]

Open(order) == order \in Orders \ refused /\ passed[order] < Len(Flow[order])

Init == /\ passed = [o \in Orders |-> 0]
        /\ refused = {}
        /\ decision = [d \in Decisions |-> NotMade]

\* node = None: a refusal.  order = None: a decision about nothing.
Make(d) ==
    /\ decision[d] = NotMade
    /\ UNCHANGED <<passed, refused>>
    /\ \E order \in Orders \cup {None}, node \in Nodes \cup {None} :
          decision' = [decision EXCEPT ![d] = [status |-> "made", order |-> order, node |-> node]]

Pass(order) == /\ passed' = [passed EXCEPT ![order] = @ + 1]
               /\ UNCHANGED refused

RefuseOrder(order) == refused' = refused \cup {order} /\ UNCHANGED passed

TakeEffect(d) ==
    /\ decision[d].status = "made" /\ Open(decision[d].order)
    /\ LET o == decision[d].order
       IN  IF decision[d].node = None
           THEN RefuseOrder(o)
           ELSE decision[d].node = Flow[o][passed[o] + 1] /\ Pass(o)
    /\ decision' = [decision EXCEPT ![d].status = "effective"]

ComeToNothing(d) ==
    /\ decision[d].status = "made"
    /\ decision' = [decision EXCEPT ![d].status = "void"]
    /\ UNCHANGED <<passed, refused>>

\* Another auditor's decision.
Elsewhere(order) == /\ Open(order)
                    /\ Pass(order) \/ RefuseOrder(order)
                    /\ UNCHANGED decision

Conclude(d) == TakeEffect(d) \/ ComeToNothing(d)

Next == \/ \E d \in Decisions : Make(d) \/ Conclude(d)
        \/ \E o \in Orders : Elsewhere(o)

Spec == Init /\ [][Next]_vars

\* No decision stays made for ever.
Concluding == \A d \in Decisions : WF_vars(Conclude(d))
==============================================================================
