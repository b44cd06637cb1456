---------------------------- MODULE AuditJournal ----------------------------
(***************************************************************************)
(* The hash-chained JSONL audit journal: JsonlAuditSink::record and the    *)
(* verification and repair of the file (crates/kernel/src/audit.rs).       *)
(*                                                                         *)
(* Several processes have the journal open, each with one sink, and        *)
(* several threads record through a sink.  A record takes the sink's       *)
(* mutex, then the file lock, reads the tail hash, appends one line and    *)
(* unlocks; every one of these is a step of its own, and a process may     *)
(* end between any two.                                                    *)
(*                                                                         *)
(* The file is a sequence of decodable lines and the state of its end.     *)
(* Every append goes behind a tail line that decoded, so only the last     *)
(* line can be undecodable; what it holds is of no interest.  A hash is    *)
(* the sequence of the events it covers, which takes SHA-256 for           *)
(* injective; NoHash stands for an absent one.  File locks are flock(2):   *)
(* owned by the process, gone when it ends, and granted again to its owner *)
(* (what relocking does is up to the platform; this is Linux).             *)
(***************************************************************************)
EXTENDS Naturals, Sequences

CONSTANTS Processes,
          Threads,
          ProcessOf,    \* the process each thread runs in
          MaxEvents,    \* bound on events, for TLC
          MaxLegacy,    \* lines without integrity a journal may start with
          Faults,       \* which faults the environment may inject
          Nobody

\* A write that fails, or whose process ends, has put nothing, a part or all but the
\* newline of its line into the file; a read or an unlock may fail.
Tears == {"nothing", "part", "whole"}

ASSUME AuditJournalAssumption ==
    /\ ProcessOf \in [Threads -> Processes]
    /\ MaxEvents \in Nat /\ MaxLegacy \in 0 .. MaxEvents
    /\ Faults \subseteq Tears \cup {"read", "unlock"}
    /\ Nobody \notin Processes /\ Nobody \notin Threads

Events == 1 .. MaxEvents
Hash == Seq(Events)
NoHash == <<>>
Line == [event: Events, prev: Hash, hash: Hash]
Steps == {"idle", "waiting", "mutexed", "locked", "sealed", "written", "torn"}

VARIABLES lines,    \* the decodable lines of the file
          tail,     \* how it ends: "ended" by a newline, "unended" without one after
                    \* the last of lines, or by a "garbage" line
          alive,    \* the processes that have a sink open
          lock,     \* the process that holds the file lock
          mutex,    \* per process, the thread that holds the sink's mutex
          cached,   \* per process, last_entry_hash: written, never read
          call,     \* per thread, where its record call is
          issued,   \* the number of events so far
          acked     \* the events whose record call returned Ok

file == <<lines, tail>>
vars == <<lines, tail, alive, lock, mutex, cached, call, issued, acked>>

Idle == [step |-> "idle", event |-> 0, prev |-> NoHash]

TailHash == IF lines = <<>> THEN NoHash ELSE lines[Len(lines)].hash

Sealed(event, prev) == [event |-> event, prev |-> prev, hash |-> Append(prev, event)]

Init ==
    /\ \E n \in 0 .. MaxLegacy :
          /\ lines = [i \in 1 .. n |-> [event |-> i, prev |-> NoHash, hash |-> NoHash]]
          /\ issued = n
    /\ tail = "ended"
    /\ alive = {}
    /\ lock = Nobody
    /\ mutex = [p \in Processes |-> Nobody]
    /\ cached = [p \in Processes |-> NoHash]
    /\ call = [t \in Threads |-> Idle]
    /\ acked = {}

-----------------------------------------------------------------------------
(* Processes *)

\* JsonlAuditSink::new reads the tail hash, without the lock.
OpenSink(p) ==
    /\ p \notin alive
    /\ tail # "garbage"
    /\ alive' = alive \cup {p}
    /\ cached' = [cached EXCEPT ![p] = TailHash]
    /\ UNCHANGED <<file, lock, mutex, call, issued, acked>>

\* A process ends, cleanly or not: its calls, mutex and file lock are gone.
EndProcess(p) ==
    /\ p \in alive
    /\ alive' = alive \ {p}
    /\ lock' = IF lock = p THEN Nobody ELSE lock
    /\ mutex' = [mutex EXCEPT ![p] = Nobody]
    /\ call' = [t \in Threads |-> IF ProcessOf[t] = p THEN Idle ELSE call[t]]
    /\ UNCHANGED <<file, cached, issued, acked>>

-----------------------------------------------------------------------------
(* record *)

At(t, step) == call[t].step = step
Goto(t, step) == call' = [call EXCEPT ![t].step = step]
\* Mutant: the mutex outlives the call.
MutReturn(t) ==
    /\ call' = [call EXCEPT ![t] = Idle]
    /\ UNCHANGED mutex

Return(t) ==
    /\ call' = [call EXCEPT ![t] = Idle]
    /\ mutex' = [mutex EXCEPT ![ProcessOf[t]] = Nobody]

Call(t) ==
    /\ At(t, "idle")
    /\ ProcessOf[t] \in alive
    /\ issued < MaxEvents
    /\ issued' = issued + 1
    /\ call' = [call EXCEPT ![t] = [step |-> "waiting", event |-> issued', prev |-> NoHash]]
    /\ UNCHANGED <<file, alive, lock, mutex, cached, acked>>

\* Nothing that record does under the mutex panics, so it is never found poisoned.
LockMutex(t) ==
    /\ At(t, "waiting")
    /\ mutex[ProcessOf[t]] = Nobody
    /\ mutex' = [mutex EXCEPT ![ProcessOf[t]] = t]
    /\ Goto(t, "mutexed")
    /\ UNCHANGED <<file, alive, lock, cached, issued, acked>>

LockFile(t) ==
    /\ At(t, "mutexed")
    /\ lock \in {Nobody, ProcessOf[t]}
    /\ lock' = ProcessOf[t]
    /\ Goto(t, "locked")
    /\ UNCHANGED <<file, alive, mutex, cached, issued, acked>>

\* Mutant: the hash is the sink's cached one, not the one in the file.
MutPreviousHash(t) == cached[ProcessOf[t]]

\* The previous hash is read from the file: other processes append to it too.
PreviousHash(t) == TailHash

LoadTail(t) ==
    /\ At(t, "locked")
    /\ tail # "garbage"
    /\ call' = [call EXCEPT ![t].step = "sealed", ![t].prev = PreviousHash(t)]
    /\ UNCHANGED <<file, alive, lock, mutex, cached, issued, acked>>

\* The early return of load_last_audit_entry_hash_from_file keeps the file lock.
FailToLoad(t) ==
    /\ At(t, "locked")
    /\ tail = "garbage" \/ "read" \in Faults
    /\ Return(t)
    /\ UNCHANGED <<file, alive, lock, cached, issued, acked>>

\* Bytes appended behind a line without newline spoil that line.
SpoilTail ==
    /\ lines' = IF tail = "unended" THEN SubSeq(lines, 1, Len(lines) - 1) ELSE lines
    /\ tail' = "garbage"

\* The line reaches the file, with or without the newline at its end.
AppendLine(t, end) ==
    IF tail = "unended" THEN SpoilTail
    ELSE /\ lines' = Append(lines, Sealed(call[t].event, call[t].prev))
         /\ tail' = end

WriteLine(t) ==
    /\ At(t, "sealed")
    /\ AppendLine(t, "ended")
    /\ Goto(t, "written")
    /\ UNCHANGED <<alive, lock, mutex, cached, issued, acked>>

TearWrite(t, tear) ==
    /\ At(t, "sealed")
    /\ tear \in Faults
    /\ \/ tear = "nothing" /\ UNCHANGED file
       \/ tear = "part" /\ SpoilTail
       \/ tear = "whole" /\ AppendLine(t, "unended")
    /\ Goto(t, "torn")
    /\ UNCHANGED <<alive, lock, mutex, cached, issued, acked>>

\* Mutant: a failed write is answered like one that succeeded.
MutSucceeded(t) == TRUE

Succeeded(t) == At(t, "written")

\* Mutant: the call is cleared before its event is acknowledged.
MutRecordedEvent(t) == Idle.event

RecordedEvent(t) == call[t].event

\* The file is unlocked whether the write succeeded or not.
UnlockFile(t) ==
    /\ At(t, "written") \/ At(t, "torn")
    /\ lock' = Nobody
    /\ IF Succeeded(t)
       THEN /\ cached' = [cached EXCEPT ![ProcessOf[t]] = Append(call[t].prev, call[t].event)]
            /\ acked' = acked \cup {RecordedEvent(t)}
       ELSE UNCHANGED <<cached, acked>>
    /\ Return(t)
    /\ UNCHANGED <<file, alive, issued>>

\* The event is in the file, the answer is an error and the lock is kept.
FailToUnlock(t) ==
    /\ At(t, "written") \/ At(t, "torn")
    /\ "unlock" \in Faults
    /\ Return(t)
    /\ UNCHANGED <<file, alive, lock, cached, issued, acked>>

-----------------------------------------------------------------------------
(* Verification and repair *)

\* verify_jsonl_audit_journal of the decodable lines: legacy lines first, then one
\* unbroken chain.
Verified ==
    \A i \in DOMAIN lines :
        IF lines[i].hash = NoHash
        THEN \A j \in 1 .. i - 1 : lines[j].hash = NoHash
        ELSE /\ lines[i].prev = (IF i = 1 THEN NoHash ELSE lines[i - 1].hash)
             /\ lines[i].hash = Append(lines[i].prev, lines[i].event)

\* Every line sealed anew, in one chain from the first.
Repaired ==
    [i \in DOMAIN lines |->
        [event |-> lines[i].event,
         prev |-> [j \in 1 .. i - 1 |-> lines[j].event],
         hash |-> [j \in 1 .. i |-> lines[j].event]]]

\* repair_jsonl_audit_journal, run while no process has the journal open, as its
\* comment demands; written to a temporary file and renamed, so it is one step.
RepairJournal ==
    /\ alive = {}
    /\ tail # "garbage"
    /\ Verified
    /\ \E i \in DOMAIN lines : lines[i].hash = NoHash
    /\ lines' = Repaired
    /\ tail' = "ended"
    /\ UNCHANGED <<alive, lock, mutex, cached, call, issued, acked>>

-----------------------------------------------------------------------------

Advance(t) ==
    \/ LockMutex(t) \/ LockFile(t) \/ LoadTail(t) \/ FailToLoad(t)
    \/ WriteLine(t) \/ UnlockFile(t)

Next ==
    \/ \E p \in Processes : OpenSink(p) \/ EndProcess(p)
    \/ \E t \in Threads : Call(t) \/ Advance(t) \/ FailToUnlock(t)
    \/ \E t \in Threads, tear \in Tears : TearWrite(t, tear)
    \/ RepairJournal

Spec == Init /\ [][Next]_vars

\* A thread inside record that can take its next step takes it.  Neither the mutex
\* nor the file lock is fair; the bound on events is what rules out barging for ever.
FairSpec == Spec /\ \A t \in Threads : WF_vars(Advance(t))

-----------------------------------------------------------------------------
(* Properties *)

\* Type correctness.
TypeOK ==
    /\ lines \in Seq(Line)
    /\ tail \in {"ended", "unended", "garbage"}
    /\ alive \subseteq Processes
    /\ lock \in Processes \cup {Nobody}
    /\ mutex \in [Processes -> Threads \cup {Nobody}]
    /\ cached \in [Processes -> Hash]
    /\ call \in [Threads -> [step: Steps, event: Events \cup {0}, prev: Hash]]
    /\ issued \in 0 .. MaxEvents
    /\ acked \subseteq Events

\* The journal verifies up to its end at every moment, whichever processes append to
\* it, crash, fail or repair it (verify_jsonl_audit_journal never reports a mismatch).
JournalVerifies == Verified

\* An event whose record call returned Ok stays on a line that decodes.
AckedEventsKept == \A e \in acked : \E i \in DOMAIN lines : lines[i].event = e

\* The journal is an audit log: its decodable events only grow, by one event at a
\* time, repair included, and only they are acknowledged.
EventLog == [i \in DOMAIN lines |-> lines[i].event]
Log == INSTANCE AuditLog WITH log <- EventLog
ImplementsAuditLog == Log!Spec

\* The file lock is held by a process none of whose records holds it.
LockLeaked ==
    /\ lock # Nobody
    /\ \A t \in Threads :
          ProcessOf[t] = lock => call[t].step \notin {"locked", "sealed", "written", "torn"}

\* A record call only ever waits for ever for a file lock an earlier record leaked:
\* mutexes, failed writes and the ends of processes never hold it up (audit.rs:662).
OnlyLeaksBlock ==
    \A t \in Threads : call[t].step = "waiting" ~> call[t].step = "idle" \/ LockLeaked

\* Every record call returns.
RecordReturns == \A t \in Threads : call[t].step = "waiting" ~> call[t].step = "idle"
=============================================================================
