----------------------------- MODULE SessionLine -----------------------------
(***************************************************************************)
(* What the ACP session manager promises of a session's queue: the calls   *)
(* on one session form a single line, served from its head in the order    *)
(* they came; a call joins at the end, and leaves from the head when it is *)
(* through or from any place when its caller drops it.                     *)
(***************************************************************************)
EXTENDS Naturals, Sequences

CONSTANTS Calls, Sessions

VARIABLE line  \* line[k]: the calls on session k, the one being served first

Init == line = [k \in Sessions |-> <<>>]

\* s without its i-th element.
Without(s, i) == SubSeq(s, 1, i - 1) \o SubSeq(s, i + 1, Len(s))

InLine(c) == \E k \in Sessions : \E i \in DOMAIN line[k] : line[k][i] = c

Join(c, k) ==
    /\ ~InLine(c)
    /\ line' = [line EXCEPT ![k] = Append(@, c)]

Leave(c, k) ==
    \E i \in DOMAIN line[k] :
        /\ line[k][i] = c
        /\ line' = [line EXCEPT ![k] = Without(@, i)]

Next == \E c \in Calls, k \in Sessions : Join(c, k) \/ Leave(c, k)

Spec == Init /\ [][Next]_line
=============================================================================
