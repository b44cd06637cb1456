---------------------------- MODULE MCWorkUnits ----------------------------
(* Small instances of WorkUnits. *)
EXTENDS WorkUnits, TLC

CONSTANTS u1, u2, u3, o1, o2

OneUnit == {u1}
TwoUnits == {u1, u2}
ThreeUnits == {u1, u2, u3}
OneOwner == {o1}
TwoOwners == {o1, o2}

\* A unit whose backoff is no storable time: recovering its lease fails, and with it
\* the recovery of all the others.
ImpatientUnits ==
    [u \in Units |-> IF u = u1
                     THEN [max_attempts |-> 2, initial_backoff |-> 3, max_backoff |-> 3]
                     ELSE [max_attempts |-> 2, initial_backoff |-> 2, max_backoff |-> 4]]

UnitSymmetry == Permutations({u2, u3})
=============================================================================
