-------------------------- MODULE MCTokenRefresher --------------------------
(* Model-checking instances of TokenRefresher: processes are model values. *)
EXTENDS TokenRefresher

CONSTANTS p1, p2, p3

TwoProcs == {p1, p2}
ThreeProcs == {p1, p2, p3}
=============================================================================
