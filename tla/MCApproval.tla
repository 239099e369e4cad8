------------------------------ MODULE MCApproval ------------------------------
(* Approval on small instances.  Each flow is a stretch of the real ones     *)
(* (StatusConstant): a specialist's node, then the general manager's.        *)
EXTENDS ApprovalRefinement

CONSTANT Short      \* orders that only the general manager still has to pass

MCFlow == [o \in Orders |-> CASE o \in Short -> <<90>>
                              [] o \in PayOrders -> <<25, 90>>
                              [] OTHER -> <<10, 90>>]
===============================================================================
