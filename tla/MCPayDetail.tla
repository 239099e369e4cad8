------------------------------ MODULE MCPayDetail ------------------------------
\* Two payments, one or two live pages.
EXTENDS PayDetail, TLC

CONSTANTS t1, t2, o1, o2

OneTab == {t1}
TwoTabs == {t1, t2}
TwoOrders == {o1, o2}
Symmetry == Permutations(TwoTabs) \cup Permutations(TwoOrders)
===============================================================================
