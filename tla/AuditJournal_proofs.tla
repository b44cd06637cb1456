------------------------ MODULE AuditJournal_proofs ------------------------
(***************************************************************************)
(* Proofs about the audit journal, for any processes, threads and faults.  *)
(*                                                                         *)
(* The inductive invariant says who owns what: a thread past the mutex     *)
(* holds it, a thread past the file lock has it for its process, so at     *)
(* most one thread anywhere has read the tail hash and not yet written;    *)
(* and the hash that thread has is still the tail's.                       *)
(***************************************************************************)
EXTENDS AuditJournal, SequenceTheorems, TLAPS

InMutex == {"mutexed", "locked", "sealed", "written", "torn"}
InLock == {"locked", "sealed", "written", "torn"}

\* A thread past the mutex holds it, one past the lock has it for its process, and
\* both run in a process that is up.
Owns(t) ==
    /\ call[t].step # "idle" => ProcessOf[t] \in alive /\ call[t].event \in Events
    /\ call[t].step \in InMutex => mutex[ProcessOf[t]] = t
    /\ call[t].step \in InLock => lock = ProcessOf[t]

\* The hash a thread is about to chain to is the hash of the last line.
Chains(t) == call[t].step = "sealed" => call[t].prev = TailHash

Inv ==
    /\ TypeOK
    /\ \A t \in Threads : Owns(t)
    /\ \A t \in Threads : Chains(t)

-----------------------------------------------------------------------------
(* Type correctness *)

\* The tail hash of a well-typed file is a hash.
LEMMA TailHashType ==
    ASSUME lines \in Seq(Line)
    PROVE  TailHash \in Hash
<1>1. CASE lines = <<>>
  BY <1>1 DEF TailHash, NoHash, Hash
<1>2. CASE lines # <<>>
  <2>1. lines[Len(lines)] \in Line
    BY <1>2, EmptySeq, ElementOfSeq
  <2> QED
    BY <1>2, <2>1 DEF TailHash, Line
<1> QED
  BY <1>1, <1>2

\* Sealing an event behind a hash gives a line.
LEMMA SealedType ==
    ASSUME NEW event \in Events, NEW prev \in Hash
    PROVE  Sealed(event, prev) \in Line
<1>1. Append(prev, event) \in Hash
  BY AppendProperties DEF Hash
<1> QED
  BY <1>1 DEF Sealed, Line

\* The file without its last line.
LEMMA FrontType ==
    ASSUME lines \in Seq(Line)
    PROVE  /\ SubSeq(lines, 1, Len(lines) - 1) \in Seq(Line)
           /\ Len(SubSeq(lines, 1, Len(lines) - 1)) <= Len(lines)
           /\ \A i \in 1 .. Len(SubSeq(lines, 1, Len(lines) - 1)) :
                 SubSeq(lines, 1, Len(lines) - 1)[i] = lines[i]
<1>1. Len(lines) \in Nat
  BY LenProperties
<1>2. \A i \in 1 .. Len(lines) - 1 : lines[i] \in Line
  BY <1>1, ElementOfSeq
<1> QED
  BY <1>1, <1>2, SubSeqProperties

\* Both ways an append can go leave a well-typed file.
LEMMA AppendType ==
    ASSUME TypeOK, NEW t \in Threads, call[t].event \in Events,
           NEW end \in {"ended", "unended"}, AppendLine(t, end)
    PROVE  lines' \in Seq(Line) /\ tail' \in {"ended", "unended", "garbage"}
<1>1. Sealed(call[t].event, call[t].prev) \in Line
  BY SealedType DEF TypeOK
<1>2. CASE tail = "unended"
  BY <1>2, FrontType DEF TypeOK, AppendLine, SpoilTail
<1>3. CASE tail # "unended"
  BY <1>1, <1>3, AppendProperties DEF TypeOK, AppendLine
<1> QED
  BY <1>2, <1>3

\* A repaired file is well typed.
LEMMA RepairedType ==
    ASSUME lines \in Seq(Line)
    PROVE  Repaired \in Seq(Line)
<1>1. Len(lines) \in Nat /\ DOMAIN lines = 1 .. Len(lines)
  BY LenProperties
<1>2. \A i \in 1 .. Len(lines) : lines[i].event \in Events
  <2>1. \A i \in 1 .. Len(lines) : lines[i] \in Line
    BY ElementOfSeq
  <2> QED
    BY <2>1 DEF Line
<1>3. ASSUME NEW i \in 1 .. Len(lines), NEW n \in {i - 1, i}
      PROVE  [j \in 1 .. n |-> lines[j].event] \in Hash
  <2>1. n \in Nat /\ \A j \in 1 .. n : j \in 1 .. Len(lines)
    BY <1>1
  <2>2. [j \in 1 .. n |-> lines[j].event] \in [1 .. n -> Events]
    BY <1>2, <2>1
  <2> QED
    BY <2>1, <2>2, SeqDef DEF Hash
<1>4. Repaired \in [1 .. Len(lines) -> Line]
  BY <1>1, <1>2, <1>3 DEF Repaired, Line
<1> QED
  BY <1>1, <1>4, SeqDef
-----------------------------------------------------------------------------
(* The invariant is preserved *)

\* The types of what a single call's step writes.
LEMMA CallType ==
    ASSUME TypeOK, NEW t \in Threads
    PROVE  /\ ProcessOf[t] \in Processes
           /\ call[t].step \in Steps /\ call[t].prev \in Hash
           /\ call[t].event \in Events \cup {0}
           /\ \A s \in Steps : [call EXCEPT ![t].step = s] \in
                 [Threads -> [step: Steps, event: Events \cup {0}, prev: Hash]]
           /\ Idle \in [step: Steps, event: Events \cup {0}, prev: Hash]
BY AuditJournalAssumption, EmptySeq DEF TypeOK, Idle, NoHash, Hash, Steps

\* At most one thread is past the file lock.
LEMMA OneInLock ==
    ASSUME Inv, NEW s \in Threads, NEW t \in Threads,
           call[s].step \in InLock, call[t].step \in InLock
    PROVE  s = t
BY DEF Inv, Owns, InLock, InMutex

\* Opening a sink on a type-correct file keeps the invariant.
LEMMA OpenStep ==
    ASSUME Inv, NEW p \in Processes, OpenSink(p)
    PROVE  Inv'
<1>1. TailHash \in Hash
  BY TailHashType DEF Inv, TypeOK
<1>2. TypeOK'
  BY <1>1 DEF Inv, TypeOK, OpenSink, file
<1> QED
  BY <1>2 DEF Inv, Owns, Chains, OpenSink, file, TailHash

\* The end of a process frees what its threads held and nothing else.
LEMMA EndStep ==
    ASSUME Inv, NEW p \in Processes, EndProcess(p)
    PROVE  Inv'
<1>1. Idle \in [step: Steps, event: Events \cup {0}, prev: Hash] /\ Idle.step = "idle"
  BY EmptySeq DEF Idle, NoHash, Hash, Steps
<1>2. TypeOK'
  BY <1>1 DEF Inv, TypeOK, EndProcess, file
<1>3. ASSUME NEW t \in Threads PROVE Owns(t)' /\ Chains(t)'
  <2>1. CASE ProcessOf[t] = p
    BY <1>1, <2>1 DEF Owns, Chains, EndProcess, InMutex, InLock
  <2>2. CASE ProcessOf[t] # p
    BY <2>2, AuditJournalAssumption
       DEF Inv, TypeOK, Owns, Chains, EndProcess, InMutex, InLock, TailHash, file
  <2> QED
    BY <2>1, <2>2
<1> QED
  BY <1>2, <1>3 DEF Inv

\* A call begins with no lock.
LEMMA CallStep ==
    ASSUME Inv, NEW t \in Threads, Call(t)
    PROVE  Inv'
<1> DEFINE begun == [step |-> "waiting", event |-> issued', prev |-> NoHash]
<1>1. /\ begun \in [step: Steps, event: Events \cup {0}, prev: Hash]
      /\ begun.step = "waiting" /\ begun.event \in Events
  <2>1. issued' \in Events
    BY AuditJournalAssumption DEF Inv, TypeOK, Call, Events
  <2>2. NoHash \in Hash
    BY EmptySeq DEF Hash, NoHash
  <2> QED
    BY <2>1, <2>2 DEF Steps
<1>2. call' = [call EXCEPT ![t] = begun] /\ issued' \in 0 .. MaxEvents
  BY AuditJournalAssumption DEF Call, Inv, TypeOK
<1> HIDE DEF begun
<1>3. TypeOK'
  BY <1>1, <1>2 DEF Inv, TypeOK, Call, file
<1>4. ASSUME NEW s \in Threads PROVE Owns(s)' /\ Chains(s)'
  <2>1. CASE s = t
    BY <1>1, <1>2, <2>1 DEF Inv, TypeOK, Owns, Chains, Call, InMutex, InLock
  <2>2. CASE s # t
    BY <1>2, <2>2 DEF Inv, TypeOK, Owns, Chains, Call, TailHash, file
  <2> QED
    BY <2>1, <2>2
<1> QED
  BY <1>3, <1>4 DEF Inv

\* Taking the free mutex keeps every other process's threads as they were.
LEMMA LockMutexStep ==
    ASSUME Inv, NEW t \in Threads, LockMutex(t)
    PROVE  Inv'
<1>1. TypeOK'
  BY CallType DEF Inv, TypeOK, LockMutex, Goto, file, Steps
<1>2. ASSUME NEW s \in Threads PROVE Owns(s)' /\ Chains(s)'
  BY CallType, AuditJournalAssumption
     DEF Inv, TypeOK, Owns, Chains, LockMutex, At, Goto, file, TailHash, InMutex, InLock
<1> QED
  BY <1>1, <1>2 DEF Inv

\* Only the holder of the mutex goes for the file lock, and only when it is free.
LEMMA LockFileStep ==
    ASSUME Inv, NEW t \in Threads, LockFile(t)
    PROVE  Inv'
<1>1. TypeOK'
  BY CallType DEF Inv, TypeOK, LockFile, Goto, file, Steps
<1>2. ASSUME NEW s \in Threads PROVE Owns(s)' /\ Chains(s)'
  BY CallType, AuditJournalAssumption
     DEF Inv, TypeOK, Owns, Chains, LockFile, At, Goto, file, TailHash, InMutex, InLock
<1> QED
  BY <1>1, <1>2 DEF Inv

\* What the holder of the file lock reads is the tail it will chain to.
LEMMA LoadTailStep ==
    ASSUME Inv, NEW t \in Threads, LoadTail(t)
    PROVE  Inv'
<1>1. TailHash \in Hash
  BY TailHashType DEF Inv, TypeOK
<1>2. TypeOK'
  BY <1>1 DEF Inv, TypeOK, LoadTail, PreviousHash, file, Steps
<1>3. ASSUME NEW s \in Threads PROVE Owns(s)' /\ Chains(s)'
  BY <1>1 DEF Inv, TypeOK, Owns, Chains, LoadTail, PreviousHash, At, file, TailHash,
              InMutex, InLock
<1> QED
  BY <1>2, <1>3 DEF Inv

\* A call that returns gives up the mutex, and only its own.
LEMMA ReturnStep ==
    ASSUME Inv, NEW t \in Threads, call[t].step \in InMutex, Return(t)
    PROVE  /\ mutex' \in [Processes -> Threads \cup {Nobody}]
           /\ call' \in [Threads -> [step: Steps, event: Events \cup {0}, prev: Hash]]
           /\ call'[t].step = "idle"
           /\ \A s \in Threads \ {t} :
                 /\ call'[s] = call[s]
                 /\ call[s].step \in InMutex => mutex'[ProcessOf[s]] = s
<1>1. Idle \in [step: Steps, event: Events \cup {0}, prev: Hash] /\ Idle.step = "idle"
  BY EmptySeq DEF Idle, NoHash, Hash, Steps
<1> QED
  BY <1>1, AuditJournalAssumption DEF Inv, TypeOK, Owns, Return

\* The early return on a tail that does not load gives up the mutex and touches no line.
LEMMA FailToLoadStep ==
    ASSUME Inv, NEW t \in Threads, FailToLoad(t)
    PROVE  Inv'
<1>1. call[t].step \in InMutex /\ Return(t)
  BY DEF FailToLoad, At, InMutex
<1>2. TypeOK'
  BY <1>1, ReturnStep DEF Inv, TypeOK, FailToLoad, file
<1>3. ASSUME NEW s \in Threads PROVE Owns(s)' /\ Chains(s)'
  BY <1>1, ReturnStep DEF Inv, Owns, Chains, FailToLoad, file, TailHash, InMutex, InLock
<1> QED
  BY <1>2, <1>3 DEF Inv

\* Unlocking lets the next writer in only once this one has nothing left to write.
LEMMA UnlockFileStep ==
    ASSUME Inv, NEW t \in Threads, UnlockFile(t)
    PROVE  Inv'
<1>1. call[t].step \in InLock /\ call[t].step \in InMutex /\ Return(t)
  BY DEF UnlockFile, At, InMutex, InLock
<1>2. call[t].event \in Events /\ Append(call[t].prev, call[t].event) \in Hash
  BY <1>1, AppendProperties DEF Inv, TypeOK, Owns, Hash, InLock
<1>3. TypeOK'
  <2>1. cached' \in [Processes -> Hash] /\ acked' \subseteq Events
    BY <1>2 DEF Inv, TypeOK, UnlockFile, RecordedEvent
  <2> QED
    BY <1>1, <2>1, ReturnStep DEF Inv, TypeOK, UnlockFile, file
<1>4. ASSUME NEW s \in Threads PROVE Owns(s)' /\ Chains(s)'
  <2>1. CASE s = t
    BY <1>1, <2>1, ReturnStep DEF Owns, Chains, InMutex, InLock
  <2>2. CASE s # t
    BY <1>1, <2>2, ReturnStep, OneInLock
       DEF Inv, Owns, Chains, UnlockFile, file, TailHash, InLock
  <2> QED
    BY <2>1, <2>2
<1> QED
  BY <1>3, <1>4 DEF Inv

\* An unlock that fails keeps the lock and gives up the mutex.
LEMMA FailToUnlockStep ==
    ASSUME Inv, NEW t \in Threads, FailToUnlock(t)
    PROVE  Inv'
<1>1. call[t].step \in InMutex /\ Return(t)
  BY DEF FailToUnlock, At, InMutex
<1>2. TypeOK'
  BY <1>1, ReturnStep DEF Inv, TypeOK, FailToUnlock, file
<1>3. ASSUME NEW s \in Threads PROVE Owns(s)' /\ Chains(s)'
  BY <1>1, ReturnStep DEF Inv, Owns, Chains, FailToUnlock, file, TailHash, InMutex, InLock
<1> QED
  BY <1>2, <1>3 DEF Inv

\* While a thread writes no other is about to chain to the tail it moves.
LEMMA WriteStep ==
    ASSUME Inv, NEW t \in Threads, At(t, "sealed"),
           NEW step \in {"written", "torn"}, Goto(t, step),
           lines' \in Seq(Line), tail' \in {"ended", "unended", "garbage"},
           UNCHANGED <<alive, lock, mutex, cached, issued, acked>>
    PROVE  Inv'
<1>1. TypeOK'
  BY CallType DEF Inv, TypeOK, Goto, Steps
<1>2. ASSUME NEW s \in Threads PROVE Owns(s)' /\ Chains(s)'
  <2>1. CASE s = t
    BY <2>1, CallType DEF Inv, TypeOK, Owns, Chains, At, Goto, InMutex, InLock
  <2>2. CASE s # t
    <3>1. call[s].step # "sealed"
      BY <2>2, OneInLock DEF At, InLock
    <3> QED
      BY <2>2, <3>1 DEF Inv, TypeOK, Owns, Chains, Goto
  <2> QED
    BY <2>1, <2>2
<1> QED
  BY <1>1, <1>2 DEF Inv

\* A repair runs while no sink is open, so no thread has read a tail.
LEMMA RepairStep ==
    ASSUME Inv, RepairJournal
    PROVE  Inv'
<1>1. TypeOK'
  BY RepairedType DEF Inv, TypeOK, RepairJournal
<1>2. ASSUME NEW t \in Threads PROVE Owns(t)' /\ Chains(t)'
  BY DEF Inv, Owns, Chains, RepairJournal
<1> QED
  BY <1>1, <1>2 DEF Inv

\* Every step keeps the inductive invariant: one case per action of Next.
LEMMA InvStep == Inv /\ [Next]_vars => Inv'
<1> SUFFICES ASSUME Inv, [Next]_vars PROVE Inv'
  OBVIOUS
<1>1. ASSUME NEW t \in Threads, call[t].step = "sealed" PROVE call[t].event \in Events
  BY <1>1 DEF Inv, Owns
<1>2. ASSUME NEW t \in Threads, WriteLine(t) PROVE Inv'
  BY <1>1, <1>2, AppendType, WriteStep DEF Inv, WriteLine, At
<1>3. ASSUME NEW t \in Threads, NEW tear \in Tears, TearWrite(t, tear) PROVE Inv'
  <2>1. lines' \in Seq(Line) /\ tail' \in {"ended", "unended", "garbage"}
    <3>1. CASE tear = "nothing" /\ UNCHANGED file
      BY <3>1 DEF Inv, TypeOK, file
    <3>2. CASE tear = "part" /\ SpoilTail
      BY <3>2, FrontType DEF Inv, TypeOK, SpoilTail
    <3>3. CASE tear = "whole" /\ AppendLine(t, "unended")
      BY <3>3, <1>1, <1>3, AppendType DEF Inv, TearWrite, At
    <3> QED
      BY <1>3, <3>1, <3>2, <3>3 DEF TearWrite
  <2> QED
    BY <1>3, <2>1, WriteStep DEF TearWrite
<1>4. ASSUME NEW t \in Threads, Advance(t) PROVE Inv'
  BY <1>2, <1>4, LockMutexStep, LockFileStep, LoadTailStep, FailToLoadStep, UnlockFileStep
     DEF Advance
<1>5. CASE UNCHANGED vars
  BY <1>5 DEF vars, Inv, TypeOK, Owns, Chains, TailHash
<1> QED
  BY <1>3, <1>4, <1>5, OpenStep, EndStep, CallStep, FailToUnlockStep, RepairStep DEF Next

\* The invariant holds at the start, of an empty file and of a legacy one.
LEMMA InitInv == Init => Inv
<1> SUFFICES ASSUME Init PROVE Inv
  OBVIOUS
<1>1. PICK n \in 0 .. MaxLegacy :
          /\ lines = [i \in 1 .. n |-> [event |-> i, prev |-> NoHash, hash |-> NoHash]]
          /\ issued = n
  BY DEF Init
<1>2. NoHash \in Hash
  BY EmptySeq DEF NoHash, Hash
<1>3. n \in Nat /\ n \in 0 .. MaxEvents /\ \A i \in 1 .. n : i \in Events
  BY AuditJournalAssumption DEF Events
<1>4. lines \in [1 .. n -> Line]
  BY <1>1, <1>2, <1>3 DEF Line
<1>5. lines \in Seq(Line)
  BY <1>3, <1>4, SeqDef
<1>6. Idle \in [step: Steps, event: Events \cup {0}, prev: Hash] /\ Idle.step = "idle"
  BY <1>2 DEF Idle, Steps
<1>7. TypeOK
  BY <1>1, <1>2, <1>3, <1>5, <1>6 DEF Init, TypeOK
<1> QED
  BY <1>6, <1>7 DEF Init, Inv, Owns, Chains, InMutex, InLock

\* The inductive invariant holds for ever.
LEMMA InvHolds == Spec => []Inv
BY InitInv, InvStep, PTL DEF Spec

\* The file and the bookkeeping of its writers keep their types through crashes, failed
\* writes and repairs (JsonlAuditSink::record, repair_jsonl_audit_journal).
THEOREM TypeCorrect == Spec => []TypeOK
<1>1. Inv => TypeOK
  BY DEF Inv
<1> QED
  BY <1>1, InvHolds, PTL

-----------------------------------------------------------------------------
(* The chain *)

\* Losing the last line, or none, leaves the rest verified.
LEMMA SpoilVerified ==
    ASSUME Inv, Verified, SpoilTail
    PROVE  Verified'
<1>1. Len(lines) \in Nat /\ DOMAIN lines = 1 .. Len(lines) /\ lines \in Seq(Line)
  BY LenProperties DEF Inv, TypeOK
<1>2. \E n \in Nat : n <= Len(lines) /\ DOMAIN lines' = 1 .. n
  <2>1. Len(lines') \in Nat /\ Len(lines') <= Len(lines) /\ DOMAIN lines' = 1 .. Len(lines')
    BY <1>1, FrontType, LenProperties DEF SpoilTail
  <2> QED
    BY <2>1
<1>3. PICK n \in Nat : n <= Len(lines) /\ DOMAIN lines' = 1 .. n
  BY <1>2
<1>4. \A i \in 1 .. n : i \in DOMAIN lines /\ lines'[i] = lines[i]
  BY <1>1, <1>3, FrontType, LenProperties DEF SpoilTail
<1>5. \A i \in 1 .. n : (i = 1 \/ i - 1 \in 1 .. n) /\ \A j \in 1 .. i - 1 : j \in 1 .. n
  BY <1>3
<1> QED
  BY <1>3, <1>4, <1>5 DEF Verified

\* An append leaves every older line where it was and chains the new one.
LEMMA AppendVerified ==
    ASSUME Inv, Verified, NEW t \in Threads, call[t].step = "sealed",
           NEW end, AppendLine(t, end)
    PROVE  Verified'
<1>1. Len(lines) \in Nat /\ DOMAIN lines = 1 .. Len(lines)
  BY LenProperties DEF Inv, TypeOK
<1>2. CASE tail = "unended"
  BY <1>2, SpoilVerified DEF AppendLine
<1>3. CASE tail # "unended"
  <2> DEFINE new == Sealed(call[t].event, call[t].prev)
             n == Len(lines)
  <2>1. new \in Line /\ call[t].prev \in Hash /\ call[t].event \in Events
    BY SealedType DEF Inv, TypeOK, Owns
  <2>2. lines' = Append(lines, new) /\ lines \in Seq(Line)
    BY <1>3 DEF Inv, TypeOK, AppendLine
  <2>3. new.prev = TailHash /\ new.hash = Append(new.prev, new.event) /\ new.hash # NoHash
    BY <2>1, AppendProperties, EmptySeq DEF Inv, Chains, Sealed, NoHash, Hash
  <2>4. TailHash = IF n = 0 THEN NoHash ELSE lines[n].hash
    BY <1>1, EmptySeq DEF Inv, TypeOK, TailHash
  <2> HIDE DEF new
  <2>5. /\ Append(lines, new) \in Seq(Line) /\ Len(Append(lines, new)) = n + 1
        /\ Append(lines, new)[n + 1] = new
        /\ \A i \in 1 .. n : Append(lines, new)[i] = lines[i]
    BY <2>1, <2>2, AppendProperties
  <2>6. DOMAIN lines' = 1 .. n + 1
    BY <2>2, <2>5, LenProperties
  <2>7. lines'[n + 1] = new /\ \A i \in 1 .. n : lines'[i] = lines[i]
    BY <2>2, <2>5
  <2> HIDE DEF n
  <2>8. n \in Nat
    BY <1>1 DEF n
  <2>9. ASSUME NEW i \in 1 .. n
        PROVE  IF lines'[i].hash = NoHash
               THEN \A j \in 1 .. i - 1 : lines'[j].hash = NoHash
               ELSE /\ lines'[i].prev = (IF i = 1 THEN NoHash ELSE lines'[i - 1].hash)
                    /\ lines'[i].hash = Append(lines'[i].prev, lines'[i].event)
    <3>1. i \in Nat /\ i >= 1 /\ i <= n /\ (i # 1 => i - 1 \in 1 .. n)
          /\ \A j \in 1 .. i - 1 : j \in 1 .. n
      BY <2>8
    <3>2. /\ lines'[i] = lines[i]
          /\ i # 1 => lines'[i - 1] = lines[i - 1]
          /\ \A j \in 1 .. i - 1 : lines'[j] = lines[j]
      BY <2>7, <3>1
    <3>3. IF lines[i].hash = NoHash
          THEN \A j \in 1 .. i - 1 : lines[j].hash = NoHash
          ELSE /\ lines[i].prev = (IF i = 1 THEN NoHash ELSE lines[i - 1].hash)
               /\ lines[i].hash = Append(lines[i].prev, lines[i].event)
      BY <1>1, <3>1 DEF Verified, n
    <3>. QED BY <3>2, <3>3
  <2>10. ASSUME NEW i \in Nat, i = n + 1
         PROVE  lines'[i].prev = (IF i = 1 THEN NoHash ELSE lines'[i - 1].hash)
    <3>1. lines'[i].prev = TailHash
      BY <2>3, <2>7, <2>10
    <3>2. CASE n = 0
      BY <2>4, <2>10, <3>1, <3>2
    <3>3. CASE n # 0
      <4>1. i # 1 /\ i - 1 = n /\ n \in 1 .. n
        BY <2>8, <2>10, <3>3
      <4>2. lines'[i - 1].hash = TailHash
        BY <2>4, <2>7, <3>3, <4>1
      <4> QED
        BY <3>1, <4>1, <4>2
    <3> QED
      BY <3>2, <3>3
  <2>11. ASSUME NEW i \in 1 .. n + 1
         PROVE  IF lines'[i].hash = NoHash
                THEN \A j \in 1 .. i - 1 : lines'[j].hash = NoHash
                ELSE /\ lines'[i].prev = (IF i = 1 THEN NoHash ELSE lines'[i - 1].hash)
                     /\ lines'[i].hash = Append(lines'[i].prev, lines'[i].event)
    <3>1. CASE i \in 1 .. n
      BY <2>9, <3>1
    <3>2. CASE i = n + 1
      <4>1. lines'[i] = new /\ lines'[i].hash # NoHash
        BY <2>3, <2>7, <3>2
      <4>2. lines'[i].hash = Append(lines'[i].prev, lines'[i].event)
        BY <2>3, <4>1
      <4>3. lines'[i].prev = (IF i = 1 THEN NoHash ELSE lines'[i - 1].hash)
        BY <2>8, <2>10, <3>2
      <4> QED
        BY <4>1, <4>2, <4>3
    <3> QED
      BY <2>8, <3>1, <3>2
  <2> QED
    BY <2>6, <2>11 DEF Verified
<1> QED
  BY <1>2, <1>3

\* The hash of a repaired line is the one of the line before with its event appended.
LEMMA RepairedVerified ==
    ASSUME lines \in Seq(Line), lines' = Repaired
    PROVE  Verified'
<1>1. Len(lines) \in Nat /\ DOMAIN lines = 1 .. Len(lines)
  BY LenProperties
<1>2. \A i \in 1 .. Len(lines) : lines[i].event \in Events
  <2>1. \A i \in 1 .. Len(lines) : lines[i] \in Line
    BY ElementOfSeq
  <2> QED
    BY <2>1 DEF Line
<1> DEFINE covered(n) == [j \in 1 .. n |-> lines[j].event]
<1>3. \A n \in 0 .. Len(lines) : covered(n) \in Seq(Events) /\ Len(covered(n)) = n
  <2>1. ASSUME NEW n \in 0 .. Len(lines)
        PROVE  covered(n) \in [1 .. n -> Events] /\ n \in Nat
    BY <1>1, <1>2
  <2>2. ASSUME NEW n \in 0 .. Len(lines)
        PROVE  covered(n) \in Seq(Events)
    BY <2>1, SeqDef
  <2> QED
    BY <2>1, <2>2, LenProperties
<1>4. ASSUME NEW i \in 1 .. Len(lines)
      PROVE  covered(i) = Append(covered(i - 1), lines[i].event)
  <2>1. i - 1 \in 0 .. Len(lines) /\ i \in 0 .. Len(lines) /\ i - 1 + 1 = i
    BY <1>1
  <2> DEFINE longer == Append(covered(i - 1), lines[i].event)
  <2>2. /\ longer \in Seq(Events) /\ Len(longer) = i
        /\ longer[i] = lines[i].event
        /\ \A j \in 1 .. i - 1 : longer[j] = covered(i - 1)[j]
    BY <1>2, <1>3, <2>1, AppendProperties
  <2>3. \A j \in 1 .. i : longer[j] = covered(i)[j]
    BY <2>2
  <2>4. covered(i) \in Seq(Events) /\ Len(covered(i)) = i
    BY <1>3, <2>1
  <2> HIDE DEF longer, covered
  <2>5. longer = covered(i)
    BY <2>2, <2>3, <2>4, SeqEqual
  <2> QED
    BY <2>5 DEF longer
<1>5. ASSUME NEW i \in 1 .. Len(lines)
      PROVE  /\ lines'[i].event = lines[i].event /\ lines'[i].hash = covered(i)
             /\ lines'[i].prev = covered(i - 1)
  BY <1>1 DEF Repaired
<1>6. DOMAIN lines' = 1 .. Len(lines)
  BY <1>1 DEF Repaired
<1>7. covered(0) = NoHash /\ \A i \in 1 .. Len(lines) : covered(i) # NoHash
  BY <1>1, <1>3, EmptySeq DEF NoHash
<1> HIDE DEF covered
<1>8. ASSUME NEW i \in 1 .. Len(lines)
      PROVE  lines'[i].prev = (IF i = 1 THEN NoHash ELSE lines'[i - 1].hash)
  <2>1. CASE i = 1
    BY <1>5, <1>7, <2>1
  <2>2. CASE i # 1
    <3>1. i - 1 \in 1 .. Len(lines)
      BY <1>1, <2>2
    <3> QED
      BY <1>5, <2>2, <3>1
  <2> QED
    BY <2>1, <2>2
<1>9. ASSUME NEW i \in 1 .. Len(lines)
      PROVE  /\ lines'[i].hash # NoHash
             /\ lines'[i].hash = Append(lines'[i].prev, lines'[i].event)
  BY <1>4, <1>5, <1>7
<1>10. ASSUME NEW i \in DOMAIN lines'
       PROVE  /\ lines'[i].hash # NoHash
              /\ lines'[i].prev = (IF i = 1 THEN NoHash ELSE lines'[i - 1].hash)
              /\ lines'[i].hash = Append(lines'[i].prev, lines'[i].event)
  BY <1>6, <1>8, <1>9
<1> QED
  BY <1>10 DEF Verified

\* The journal verifies to its end at every moment: concurrent appends, crashes, torn
\* and failed writes and repairs never break the chain (verify_jsonl_audit_journal).
THEOREM ChainNeverBreaks == Spec => []JournalVerifies
<1>1. Init => Verified
  <2> SUFFICES ASSUME Init PROVE Verified
    OBVIOUS
  <2>1. PICK n \in 0 .. MaxLegacy :
            lines = [i \in 1 .. n |-> [event |-> i, prev |-> NoHash, hash |-> NoHash]]
    BY DEF Init
  <2>2. n \in Nat
    BY AuditJournalAssumption
  <2> QED
    BY <2>1, <2>2 DEF Verified
<1>2. Inv /\ Verified /\ [Next]_vars => Verified'
  <2> SUFFICES ASSUME Inv, Verified, [Next]_vars PROVE Verified'
    OBVIOUS
  <2>1. CASE UNCHANGED lines
    BY <2>1 DEF Verified
  <2>2. ASSUME NEW t \in Threads, WriteLine(t) PROVE Verified'
    BY <2>2, AppendVerified DEF WriteLine, At
  <2>3. ASSUME NEW t \in Threads, NEW tear \in Tears, TearWrite(t, tear) PROVE Verified'
    BY <2>1, <2>3, SpoilVerified, AppendVerified DEF TearWrite, At, file
  <2>4. CASE RepairJournal
    BY <2>4, RepairedVerified DEF Inv, TypeOK, RepairJournal
  <2>5. UNCHANGED lines
        \/ (\E t \in Threads : WriteLine(t))
        \/ (\E t \in Threads, tear \in Tears : TearWrite(t, tear))
        \/ RepairJournal
    BY DEF Next, Advance, OpenSink, EndProcess, Call, LockMutex, LockFile, LoadTail, FailToLoad,
           UnlockFile, FailToUnlock, vars, file
  <2> QED
    BY <2>1, <2>2, <2>3, <2>4, <2>5
<1> QED
  BY <1>1, <1>2, InvHolds, PTL DEF Spec, JournalVerifies

-----------------------------------------------------------------------------
(* The journal implements the audit log, unless a write can stop right before *)
(* its newline                                                                *)

\* Every line ends in a newline or is garbage, and a written event is on a line.
WholeLines ==
    /\ tail # "unended"
    /\ \A t \in Threads : call[t].step = "written" =>
          \E i \in DOMAIN lines : lines[i].event = call[t].event

\* The log of a well-typed file is a sequence of events, one per line.
LEMMA EventLogType ==
    ASSUME lines \in Seq(Line)
    PROVE  /\ EventLog \in Seq(Events) /\ Len(EventLog) = Len(lines)
           /\ DOMAIN EventLog = DOMAIN lines
           /\ \A i \in DOMAIN lines : EventLog[i] = lines[i].event
<1>1. Len(lines) \in Nat /\ DOMAIN lines = 1 .. Len(lines)
  BY LenProperties
<1>2. \A i \in 1 .. Len(lines) : lines[i].event \in Events
  <2>1. \A i \in 1 .. Len(lines) : lines[i] \in Line
    BY ElementOfSeq
  <2> QED
    BY <2>1 DEF Line
<1>3. EventLog \in [1 .. Len(lines) -> Events]
  BY <1>1, <1>2 DEF EventLog
<1>4. EventLog \in Seq(Events)
  BY <1>1, <1>3, SeqDef
<1> QED
  BY <1>1, <1>3, <1>4, LenProperties DEF EventLog

\* A whole line appended to a file of whole lines is one event appended to the log.
LEMMA AppendLogged ==
    ASSUME Inv, tail # "unended", NEW t \in Threads, call[t].event \in Events,
           AppendLine(t, "ended")
    PROVE  /\ EventLog' = Append(EventLog, call[t].event)
           /\ DOMAIN lines \subseteq DOMAIN lines'
           /\ \A i \in DOMAIN lines : lines'[i].event = lines[i].event
           /\ \E i \in DOMAIN lines' : lines'[i].event = call[t].event
           /\ tail' = "ended"
<1> DEFINE new == Sealed(call[t].event, call[t].prev)
           n == Len(lines)
<1>1. new \in Line /\ lines \in Seq(Line) /\ n \in Nat /\ DOMAIN lines = 1 .. n
  BY SealedType, LenProperties DEF Inv, TypeOK
<1>2. lines' = Append(lines, new) /\ tail' = "ended" /\ new.event = call[t].event
  BY DEF AppendLine, Sealed
<1> HIDE DEF new
<1>3. /\ Append(lines, new) \in Seq(Line) /\ Len(Append(lines, new)) = n + 1
      /\ Append(lines, new)[n + 1] = new
      /\ \A i \in 1 .. n : Append(lines, new)[i] = lines[i]
  BY <1>1, AppendProperties
<1>4. DOMAIN lines' = 1 .. n + 1
  BY <1>2, <1>3, LenProperties
<1>5. lines'[n + 1] = new /\ \A i \in 1 .. n : lines'[i] = lines[i]
  BY <1>2, <1>3
<1> HIDE DEF n
<1>6. DOMAIN lines \subseteq DOMAIN lines' /\ n + 1 \in DOMAIN lines'
  BY <1>1, <1>4
<1> DEFINE longer == Append(EventLog, call[t].event)
<1>7. /\ longer \in Seq(Events) /\ Len(longer) = n + 1 /\ longer[n + 1] = call[t].event
      /\ \A i \in 1 .. n : longer[i] = lines[i].event
  BY <1>1, EventLogType, AppendProperties DEF n
<1>8. EventLog' = [i \in 1 .. n + 1 |-> lines'[i].event]
  BY <1>4 DEF EventLog
<1>9. longer = EventLog'
  <2>1. longer \in [1 .. n + 1 -> Events]
    BY <1>7, LenProperties
  <2> HIDE DEF longer
  <2>2. ASSUME NEW i \in 1 .. n + 1 PROVE longer[i] = lines'[i].event
    BY <1>1, <1>2, <1>5, <1>7
  <2> QED
    BY <1>8, <2>1, <2>2
<1> QED
  BY <1>1, <1>2, <1>5, <1>6, <1>9

\* What a step does to the log and the acknowledgements, if no write can stop right
\* before its newline.
LEMMA LogStep ==
    ASSUME "whole" \notin Faults, Inv, WholeLines, [Next]_vars
    PROVE  WholeLines' /\ [Log!Next]_<<EventLog, acked>>
<1>1. ASSUME NEW t \in Threads, WriteLine(t)
      PROVE  WholeLines' /\ Log!Next
  <2>1. call[t].event \in Events /\ call[t].step = "sealed"
    BY <1>1 DEF Inv, Owns, WriteLine, At
  <2>2. /\ EventLog' = Append(EventLog, call[t].event)
        /\ DOMAIN lines \subseteq DOMAIN lines'
        /\ \A i \in DOMAIN lines : lines'[i].event = lines[i].event
        /\ \E i \in DOMAIN lines' : lines'[i].event = call[t].event
        /\ tail' = "ended"
    BY <1>1, <2>1, AppendLogged DEF WholeLines, WriteLine
  <2>3. WholeLines'
    BY <1>1, <2>2 DEF Inv, TypeOK, WholeLines, WriteLine, Goto
  <2> QED
    BY <1>1, <2>1, <2>2, <2>3 DEF WriteLine, Log!Next, Log!Record
<1>2. ASSUME NEW t \in Threads, UnlockFile(t)
      PROVE  WholeLines' /\ [Log!Next]_<<EventLog, acked>>
  <2>1. UNCHANGED EventLog /\ UNCHANGED file
    BY <1>2 DEF UnlockFile, file, EventLog
  <2>2. WholeLines'
    BY <1>2, <2>1 DEF Inv, TypeOK, WholeLines, UnlockFile, Return, Idle, file
  <2>3. CASE Succeeded(t)
    <3>1. acked' = acked \cup {call[t].event}
      BY <1>2, <2>3 DEF UnlockFile, RecordedEvent
    <3>2. \E i \in DOMAIN EventLog : EventLog[i] = call[t].event
      BY <2>3, EventLogType DEF Inv, TypeOK, WholeLines, Succeeded, At
    <3>3. call[t].event \in Events
      BY <2>3 DEF Inv, Owns, Succeeded, At
    <3> QED
      BY <2>1, <2>2, <3>1, <3>2, <3>3 DEF Log!Next, Log!Acknowledge
  <2>4. CASE ~Succeeded(t)
    BY <1>2, <2>1, <2>2, <2>4 DEF UnlockFile
  <2> QED
    BY <2>3, <2>4
<1>3. CASE RepairJournal
  <2>1. /\ DOMAIN lines' = DOMAIN lines
        /\ \A i \in DOMAIN lines : lines'[i].event = lines[i].event
    BY <1>3 DEF RepairJournal, Repaired
  <2>2. EventLog' = EventLog
    BY <2>1 DEF EventLog
  <2> QED
    BY <1>3, <2>1, <2>2 DEF WholeLines, RepairJournal
<1>4. ASSUME NEW t \in Threads, NEW tear \in Tears, TearWrite(t, tear)
      PROVE  WholeLines' /\ UNCHANGED <<EventLog, acked>>
  <2>1. lines' = lines /\ tail' # "unended"
    BY <1>4 DEF TearWrite, SpoilTail, WholeLines, file
  <2> QED
    BY <1>4, <2>1 DEF Inv, TypeOK, WholeLines, EventLog, TearWrite, Goto
<1>5. ASSUME UNCHANGED <<lines, tail, acked>>,
             \A t \in Threads : call'[t].step = "written" => call'[t] = call[t]
      PROVE  WholeLines' /\ UNCHANGED <<EventLog, acked>>
  BY <1>5 DEF WholeLines, EventLog
<1> DEFINE Quiet == /\ UNCHANGED <<lines, tail, acked>>
                    /\ \A t \in Threads : call'[t].step = "written" => call'[t] = call[t]
<1>6. ASSUME NEW p \in Processes, OpenSink(p) \/ EndProcess(p) PROVE Quiet
  BY <1>6 DEF Inv, TypeOK, OpenSink, EndProcess, Idle, file
<1>7. ASSUME NEW t \in Threads, FailToLoad(t) \/ FailToUnlock(t) PROVE Quiet
  BY <1>7 DEF Inv, TypeOK, FailToLoad, FailToUnlock, Return, Idle, file
<1>8. ASSUME NEW t \in Threads, Call(t) PROVE Quiet
  BY <1>8 DEF Inv, TypeOK, Call, file
<1>9. ASSUME NEW t \in Threads, LockMutex(t) \/ LockFile(t) \/ LoadTail(t) PROVE Quiet
  <2>1. ASSUME NEW s \in Threads \ {t} PROVE call'[s] = call[s]
    BY <1>9 DEF Inv, TypeOK, LockMutex, LockFile, LoadTail, Goto
  <2>2. call'[t].step # "written"
    BY <1>9 DEF Inv, TypeOK, LockMutex, LockFile, LoadTail, Goto
  <2>3. UNCHANGED <<lines, tail, acked>>
    BY <1>9 DEF LockMutex, LockFile, LoadTail, file
  <2> QED
    BY <2>1, <2>2, <2>3
<1>10. CASE UNCHANGED vars
  BY <1>5, <1>10 DEF vars
<1> HIDE DEF Quiet
<1>11. Quiet => WholeLines' /\ [Log!Next]_<<EventLog, acked>>
  BY <1>5 DEF Quiet
<1> QED
  BY <1>1, <1>2, <1>3, <1>4, <1>6, <1>7, <1>8, <1>9, <1>10, <1>11 DEF Next, Advance

\* The journal implements the audit log: its events only grow, by one at a time and through
\* repairs, and Ok is answered only for one of them, as long as no write stops right
\* before its newline (JsonlAuditSink::record, repair_jsonl_audit_journal).
THEOREM JournalImplementsLog ==
    ASSUME "whole" \notin Faults
    PROVE  Spec => ImplementsAuditLog
<1>1. Init => WholeLines /\ Log!Init
  <2> SUFFICES ASSUME Init PROVE WholeLines /\ Log!Init
    OBVIOUS
  <2>1. Inv
    BY InitInv
  <2>2. EventLog \in Seq(Events)
    BY <2>1, EventLogType DEF Inv, TypeOK
  <2>3. WholeLines
    BY DEF Init, WholeLines, Idle
  <2> QED
    BY <2>2, <2>3 DEF Init, Log!Init
<1>2. Inv /\ WholeLines /\ [Next]_vars => WholeLines' /\ [Log!Next]_<<EventLog, acked>>
  BY LogStep
<1> QED
  BY <1>1, <1>2, InvHolds, PTL DEF Spec, ImplementsAuditLog, Log!Spec

-----------------------------------------------------------------------------
(* What makes Ok and the file lock hold *)

\* Ok is only for an event on record.
AckedLogged == \A e \in acked : \E i \in DOMAIN EventLog : EventLog[i] = e

\* A step of the audit log keeps what is acknowledged on record.
LEMMA LogKeeps ==
    ASSUME EventLog \in Seq(Events), AckedLogged, [Log!Next]_<<EventLog, acked>>
    PROVE  AckedLogged'
<1>1. ASSUME NEW e \in Events, Log!Record(e) PROVE AckedLogged'
  <2>1. acked' = acked /\ EventLog' = Append(EventLog, e)
    BY <1>1 DEF Log!Record
  <2>2. PICK n \in Nat : n = Len(EventLog) /\ DOMAIN EventLog = 1 .. n
    BY LenProperties
  <2>3. /\ DOMAIN EventLog' = 1 .. n + 1
        /\ \A i \in 1 .. n : EventLog'[i] = EventLog[i]
    BY <2>1, <2>2, AppendProperties, LenProperties
  <2> QED
    BY <2>1, <2>2, <2>3 DEF AckedLogged
<1>2. ASSUME NEW e \in Events, Log!Acknowledge(e) PROVE AckedLogged'
  BY <1>2 DEF Log!Acknowledge, AckedLogged
<1>3. CASE UNCHANGED <<EventLog, acked>>
  BY <1>3 DEF AckedLogged
<1> QED
  BY <1>1, <1>2, <1>3 DEF Log!Next

\* As long as no write stops right before its newline, an event that was answered Ok stays
\* on a line that decodes, through failed reads and unlocks, torn lines, ends of processes
\* and repairs: the lost newline is the only way to lose one (JsonlAuditSink::record).
THEOREM AckedKept ==
    ASSUME "whole" \notin Faults
    PROVE  Spec => []AckedEventsKept
<1>1. Init => WholeLines /\ AckedLogged
  BY DEF Init, WholeLines, AckedLogged, Idle
<1>2. Inv /\ WholeLines /\ AckedLogged /\ [Next]_vars => WholeLines' /\ AckedLogged'
  BY LogStep, LogKeeps, EventLogType DEF Inv, TypeOK
<1>3. Inv /\ AckedLogged => AckedEventsKept
  BY EventLogType DEF Inv, TypeOK, AckedLogged, AckedEventsKept
<1> QED
  BY <1>1, <1>2, <1>3, InvHolds, PTL DEF Spec

\* The file has no undecodable tail, and whoever has the file lock is using it.
LockInUse ==
    /\ tail = "ended"
    /\ lock # Nobody => \E t \in Threads : ProcessOf[t] = lock /\ call[t].step \in InLock

\* Where writes fail only as a whole and reads and unlocks never do, the file lock always
\* has a record that will let it go: a leak takes a torn line, a failed read or a failed
\* unlock, never an interleaving or the end of a process alone (audit.rs:669).
THEOREM LockNeverLeaks ==
    ASSUME Faults \subseteq {"nothing"}
    PROVE  Spec => []~LockLeaked
<1>1. Init => LockInUse
  BY DEF Init, LockInUse
<1>2. ASSUME Inv, LockInUse, [Next]_vars PROVE LockInUse'
  <2>1. ASSUME tail' = tail, lock' = lock,
               \A t \in Threads : call[t].step \in InLock => call'[t].step \in InLock
        PROVE  LockInUse'
    BY <1>2, <2>1 DEF LockInUse
  <2>2. CASE UNCHANGED vars
    BY <2>1, <2>2 DEF vars, file
  <2>3. ASSUME NEW p \in Processes, OpenSink(p) PROVE LockInUse'
    BY <2>1, <2>3 DEF OpenSink, file
  <2>4. ASSUME NEW p \in Processes, EndProcess(p) PROVE LockInUse'
    <3>1. CASE lock = p
      BY <1>2, <2>4, <3>1 DEF EndProcess, LockInUse, file
    <3>2. CASE lock # p
      BY <1>2, <2>4, <3>2 DEF EndProcess, LockInUse, file
    <3> QED
      BY <3>1, <3>2
  <2>5. ASSUME NEW t \in Threads, Call(t) PROVE LockInUse'
    BY <1>2, <2>1, <2>5 DEF Call, At, InLock, Inv, TypeOK, file
  <2>6. ASSUME NEW t \in Threads, LockMutex(t) PROVE LockInUse'
    BY <1>2, <2>1, <2>6 DEF LockMutex, Goto, At, InLock, Inv, TypeOK, file
  <2>7. ASSUME NEW t \in Threads, LockFile(t) PROVE LockInUse'
    BY <1>2, <2>7 DEF LockFile, Goto, At, InLock, Inv, TypeOK, LockInUse, file
  <2>8. ASSUME NEW t \in Threads, LoadTail(t) PROVE LockInUse'
    BY <1>2, <2>1, <2>8 DEF LoadTail, At, InLock, Inv, TypeOK, file
  <2>9. ASSUME NEW t \in Threads, FailToLoad(t) \/ FailToUnlock(t) PROVE FALSE
    BY <1>2, <2>9 DEF FailToLoad, FailToUnlock, LockInUse
  <2>10. ASSUME NEW t \in Threads, WriteLine(t) PROVE LockInUse'
    <3>1. tail' = tail
      BY <1>2, <2>10 DEF WriteLine, AppendLine, LockInUse
    <3> QED
      BY <1>2, <2>1, <2>10, <3>1 DEF WriteLine, Goto, At, InLock, Inv, TypeOK
  <2>11. ASSUME NEW t \in Threads, NEW tear \in Tears, TearWrite(t, tear) PROVE LockInUse'
    <3>1. tail' = tail
      BY <2>11 DEF TearWrite, file
    <3> QED
      BY <1>2, <2>1, <2>11, <3>1 DEF TearWrite, Goto, At, InLock, Inv, TypeOK
  <2>12. ASSUME NEW t \in Threads, UnlockFile(t) PROVE LockInUse'
    BY <1>2, <2>12 DEF UnlockFile, LockInUse, file
  <2>13. CASE RepairJournal
    BY <1>2, <2>1, <2>13 DEF RepairJournal, LockInUse
  <2> QED
    BY <1>2, <2>2, <2>3, <2>4, <2>5, <2>6, <2>7, <2>8, <2>9, <2>10, <2>11, <2>12, <2>13
       DEF Next, Advance
<1>3. LockInUse => ~LockLeaked
  BY DEF LockInUse, LockLeaked, InLock
<1> QED
  BY <1>1, <1>2, <1>3, InvHolds, PTL DEF Spec

-----------------------------------------------------------------------------
(* Who waits for whom *)

\* A sink's mutex belongs to a record of its process that is past it and not yet over.
MutexInUse ==
    \A p \in Processes :
        mutex[p] # Nobody => /\ mutex[p] \in Threads /\ ProcessOf[mutex[p]] = p
                             /\ call[mutex[p]].step \in InMutex

\* A record waits for nobody: it has the file lock, or what it waits for is free.
CanGoOn(t) ==
    \/ At(t, "waiting") /\ mutex[ProcessOf[t]] = Nobody
    \/ At(t, "mutexed") /\ lock \in {Nobody, ProcessOf[t]}
    \/ call[t].step \in InLock

\* The safety half of OnlyLeaksBlock: while any record is under way and the file lock is
\* not leaked, some record can take its next step: threads that wait for mutexes of their
\* processes, and processes that wait for the file lock, never wait in a circle or for
\* somebody who is gone.
NoStandstill ==
    (\E t \in Threads : ~At(t, "idle")) /\ ~LockLeaked => \E t \in Threads : CanGoOn(t)

\* Records take their sink's mutex when they pass it, and return it when they are over.
LEMMA MutexStep ==
    ASSUME Inv, MutexInUse, [Next]_vars
    PROVE  MutexInUse'
<1>1. /\ mutex \in [Processes -> Threads \cup {Nobody}] /\ Nobody \notin Threads
      /\ \A t \in Threads : ProcessOf[t] \in Processes
  BY AuditJournalAssumption DEF Inv, TypeOK
<1>2. ASSUME mutex' = mutex,
             \A t \in Threads : call[t].step \in InMutex => call'[t].step \in InMutex
      PROVE  MutexInUse'
  BY <1>2 DEF MutexInUse
<1>3. ASSUME NEW t \in Threads, Return(t)
      PROVE  MutexInUse'
  <2>1. /\ mutex'[ProcessOf[t]] = Nobody
        /\ \A p \in Processes \ {ProcessOf[t]} : mutex'[p] = mutex[p]
        /\ \A u \in Threads \ {t} : call'[u] = call[u]
    BY <1>1, <1>3 DEF Return, Inv, TypeOK
  <2> QED
    BY <1>1, <2>1 DEF MutexInUse
<1>4. CASE UNCHANGED vars
  BY <1>2, <1>4 DEF vars
<1>5. ASSUME NEW p \in Processes, OpenSink(p) PROVE MutexInUse'
  BY <1>2, <1>5 DEF OpenSink
<1>6. ASSUME NEW p \in Processes, EndProcess(p) PROVE MutexInUse'
  <2>1. /\ mutex'[p] = Nobody /\ \A q \in Processes \ {p} : mutex'[q] = mutex[q]
        /\ \A t \in Threads : ProcessOf[t] # p => call'[t] = call[t]
    BY <1>1, <1>6 DEF EndProcess
  <2> QED
    BY <1>1, <2>1 DEF MutexInUse
<1>7. ASSUME NEW t \in Threads, Call(t) PROVE MutexInUse'
  <2>1. mutex' = mutex /\ At(t, "idle") /\ \A u \in Threads \ {t} : call'[u] = call[u]
    BY <1>7 DEF Call, Inv, TypeOK
  <2> QED
    BY <1>2, <2>1 DEF At, InMutex
<1>8. ASSUME NEW t \in Threads, LockMutex(t) PROVE MutexInUse'
  <2>1. /\ mutex'[ProcessOf[t]] = t
        /\ \A p \in Processes \ {ProcessOf[t]} : mutex'[p] = mutex[p]
        /\ call'[t].step = "mutexed" /\ At(t, "waiting")
        /\ \A u \in Threads \ {t} : call'[u] = call[u]
    BY <1>1, <1>8 DEF LockMutex, Goto, Inv, TypeOK
  <2> QED
    BY <1>1, <2>1 DEF MutexInUse, At, InMutex
<1>9. ASSUME NEW t \in Threads, LockFile(t) \/ WriteLine(t) \/ \E tear \in Tears : TearWrite(t, tear)
      PROVE  MutexInUse'
  <2>1. mutex' = mutex /\ \E step \in InMutex : call' = [call EXCEPT ![t].step = step]
    BY <1>9 DEF LockFile, WriteLine, TearWrite, Goto, InMutex
  <2> QED
    BY <1>2, <2>1 DEF Inv, TypeOK
<1>10. ASSUME NEW t \in Threads, LoadTail(t) PROVE MutexInUse'
  <2>1. /\ mutex' = mutex /\ call'[t].step = "sealed"
        /\ \A u \in Threads \ {t} : call'[u] = call[u]
    BY <1>10 DEF LoadTail, Inv, TypeOK
  <2> QED
    BY <1>2, <2>1 DEF InMutex
<1>11. ASSUME NEW t \in Threads, FailToLoad(t) \/ UnlockFile(t) \/ FailToUnlock(t)
       PROVE  MutexInUse'
  BY <1>3, <1>11 DEF FailToLoad, UnlockFile, FailToUnlock
<1>12. CASE RepairJournal
  BY <1>2, <1>12 DEF RepairJournal
<1> QED
  BY <1>4, <1>5, <1>6, <1>7, <1>8, <1>9, <1>10, <1>11, <1>12 DEF Next, Advance

\* However many processes and threads record, some record under way can go on unless an
\* earlier one left the file lock behind: a failed write or a process that ends leaves
\* neither a mutex nor a lock that nobody would release (JsonlAuditSink::record).
THEOREM JournalNeverStandsStill == Spec => []NoStandstill
<1>1. Init => MutexInUse
  BY DEF Init, MutexInUse
<1>2. ASSUME Inv, MutexInUse PROVE NoStandstill
  <2> SUFFICES ASSUME NEW t \in Threads, ~At(t, "idle"), ~LockLeaked
               PROVE  \E u \in Threads : CanGoOn(u)
    BY DEF NoStandstill
  <2>1. ASSUME NEW u \in Threads, call[u].step \in InMutex PROVE \E v \in Threads : CanGoOn(v)
    <3>1. CASE call[u].step \in InLock \/ lock = Nobody
      BY <2>1, <3>1 DEF CanGoOn, At, InMutex, InLock
    <3>2. CASE lock # Nobody
      <4>1. PICK v \in Threads : ProcessOf[v] = lock /\ call[v].step \in InLock
        BY <3>2 DEF LockLeaked, InLock
      <4> QED
        BY <4>1 DEF CanGoOn
    <3> QED
      BY <3>1, <3>2
  <2>2. CASE call[t].step \in InMutex
    BY <2>1, <2>2
  <2>3. CASE At(t, "waiting")
    <3>1. CASE mutex[ProcessOf[t]] = Nobody
      BY <2>3, <3>1 DEF CanGoOn
    <3>2. CASE mutex[ProcessOf[t]] # Nobody
      <4>1. ProcessOf[t] \in Processes
        BY AuditJournalAssumption
      <4> QED
        BY <1>2, <2>1, <3>2, <4>1 DEF MutexInUse
    <3> QED
      BY <3>1, <3>2
  <2>4. call[t].step \in Steps
    BY <1>2 DEF Inv, TypeOK
  <2> QED
    BY <2>2, <2>3, <2>4 DEF Steps, At, InMutex
<1> QED
  BY <1>1, <1>2, MutexStep, InvHolds, PTL DEF Spec
=============================================================================
