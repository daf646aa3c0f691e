------------------------- MODULE AuthorizationCodes -------------------------
(***************************************************************************)
(* The map of authorization codes as the two halves of src/src/oauth.rs    *)
(* share it: the authorization endpoints store codes, the token endpoint   *)
(* takes them out, and both sweep it.  A code has one grant, whose expiry  *)
(* was fixed at some earlier reading of the clock, and never comes back.   *)
(***************************************************************************)
EXTENDS Integers

CONSTANTS
  Codes,
  Authorities,  \* what a code may stand for
  CodeTtl

VARIABLES
  now,
  status,  \* of each code
  grant    \* of each live code, <<>> of the others

vars == <<now, status, grant>>

Init ==
  /\ now = 0
  /\ status = [c \in Codes |-> "fresh"]
  /\ grant = [c \in Codes |-> <<>>]

\* A code is stored for a, with the lifetime of a request that read the clock at t.
Store(c, a, t) ==
  /\ status[c] = "fresh"
  /\ status' = [status EXCEPT ![c] = "live"]
  /\ grant' = [grant EXCEPT ![c] = [stands_for |-> a, expires |-> t + CodeTtl]]
  /\ UNCHANGED now

End(ended) ==
  /\ status' = [c \in Codes |-> IF c \in ended THEN "gone" ELSE status[c]]
  /\ grant' = [c \in Codes |-> IF c \in ended THEN <<>> ELSE grant[c]]
  /\ UNCHANGED now

\* A code is redeemed, or refused to who presents it.
Take(c) == status[c] = "live" /\ End({c})

\* Codes that had expired at t are removed.
Sweep(t) == End({c \in Codes : status[c] = "live" /\ grant[c].expires <= t})

Tick == now' = now + 1 /\ UNCHANGED <<status, grant>>

Next ==
  \/ \E c \in Codes, a \in Authorities, t \in 0..now : Store(c, a, t)
  \/ \E c \in Codes : Take(c)
  \/ \E t \in 0..now : Sweep(t)
  \/ Tick

Spec == Init /\ [][Next]_vars
=============================================================================
