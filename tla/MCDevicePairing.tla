--------------------------- MODULE MCDevicePairing ---------------------------
(* Small instances of DevicePairing: one device that asks for less and for  *)
(* more, two operators, the gateway and a server that may start again.      *)
EXTENDS DevicePairing, TLC

CONSTANTS c1, c2, c3, r1, r2, s, d, k

ThreeConnects == {c1, c2, c3}
TwoResolves == {r1, r2}
OneServer == {s}
OneDevice == {d}
Ask(scopes) == [device |-> d, key |-> k, role |-> "operator", scopes |-> scopes]
LessThenMore == [c \in ThreeConnects |-> {Ask(IF c = c2 THEN {"read", "write"} ELSE {"read"})}]

Symmetric == Permutations({c1, c3}) \cup Permutations(TwoResolves)
=============================================================================
