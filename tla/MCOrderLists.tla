----------------------------- MODULE MCOrderLists -----------------------------
\* A payment and a purchase of one number, as their tables count them separately,
\* another purchase, and a document of a type the list does not show.
EXTENDS OrderLists

Order(id, poType) == [id |-> id, poType |-> poType]

MCOrders == {Order(1, "pay"), Order(1, "purchase"), Order(2, "purchase"), Order(3, "other")}
===============================================================================
