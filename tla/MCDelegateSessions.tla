------------------------- MODULE MCDelegateSessions -------------------------
(***************************************************************************)
(* Instances of DelegateSessions for the model checker.                    *)
(***************************************************************************)
EXTENDS DelegateSessions

CONSTANTS k1, k2, o1

TwoChildren == {k1, k2}
OneOperator == {o1}

\* One child of every kind, next to one in the parent's own turn.
OneInline ==
    [k \in TwoChildren |-> IF k = k1 THEN {"inline", "async", "detached"} ELSE {"inline"}]

=============================================================================
