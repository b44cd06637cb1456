---------------------------- MODULE MCAcpSessions ----------------------------
(* Small instances of AcpSessions: a turn on one session, any call beside   *)
(* it, and any call on that session or another.                             *)
EXTENDS AcpSessions

CONSTANTS c1, c2, c3, k1, k2

ThreeCalls == {c1, c2, c3}
TwoSessions == {k1, k2}

Asks(kinds, keys) == [kind: kinds, key: keys]
TurnAndTwo == {j \in [ThreeCalls -> Asks(Kinds, TwoSessions)] :
                  /\ j[c1] = [kind |-> "turn", key |-> k1]
                  /\ j[c2].key = k1
                  /\ j[c3].key = k1 => j[c3].kind \in {"turn", "cancel", "close"}}
=============================================================================
