------------------------------ MODULE MCSession ------------------------------
(* Session with two browsers, two users and three logins.                    *)
EXTENDS Session, TLC

Symmetry == Permutations(Tokens) \cup Permutations(Logins)
              \cup Permutations(Users) \cup Permutations(Browsers)
==============================================================================
