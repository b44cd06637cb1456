------------------------------ MODULE AuditLog ------------------------------
(***************************************************************************)
(* What an audit sink promises (AuditSink::record,                         *)
(* crates/kernel/src/audit.rs): a log that only grows, one event at a      *)
(* time, and an Ok answer only for an event that is in it.                 *)
(***************************************************************************)
EXTENDS Sequences

CONSTANT Events

VARIABLES log,    \* the events on record, in order
          acked   \* the events whose record call returned Ok

Init == log \in Seq(Events) /\ acked = {}

Record(e) == log' = Append(log, e) /\ UNCHANGED acked

Acknowledge(e) ==
    /\ \E i \in DOMAIN log : log[i] = e
    /\ acked' = acked \cup {e}
    /\ UNCHANGED log

Next == \E e \in Events : Record(e) \/ Acknowledge(e)

Spec == Init /\ [][Next]_<<log, acked>>
=============================================================================
