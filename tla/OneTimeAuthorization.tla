------------------------ MODULE OneTimeAuthorization ------------------------
(***************************************************************************)
(* What the token endpoint promises about one sign-in, whatever the number *)
(* of requests that present its code and its refresh tokens: the right to  *)
(* obtain tokens is in one place at a time, one request at a time draws    *)
(* one access token on it, and once it is lost it does not come back.      *)
(***************************************************************************)
CONSTANT Authorizations

VARIABLE place

Places == {"none", "code", "redeeming", "issued", "refreshable", "spent"}

Init == place = [a \in Authorizations |-> "none"]

Move(a, from, to) ==
  /\ place[a] \in from
  /\ place' = [place EXCEPT ![a] = to]

Grant(a)  == Move(a, {"none"}, "code")
Redeem(a) == Move(a, {"code", "refreshable"}, "redeeming")
Issue(a)  == Move(a, {"redeeming"}, "issued")
Rotate(a) == Move(a, {"issued"}, "refreshable")

\* Refused, expired or abandoned: a sweep may end several at once.
Lose(S) ==
  /\ \A a \in S : place[a] # "none"
  /\ place' = [a \in Authorizations |-> IF a \in S THEN "spent" ELSE place[a]]

Next ==
  \/ \E a \in Authorizations : Grant(a) \/ Redeem(a) \/ Issue(a) \/ Rotate(a)
  \/ \E S \in SUBSET Authorizations : Lose(S)

Spec == Init /\ [][Next]_place
=============================================================================
