-------------------------- MODULE WorkUnits_proofs --------------------------
(***************************************************************************)
(* Proofs about the work-unit queue, for any number of units, owners and   *)
(* milliseconds: type correctness, leases that match their status, the     *)
(* retry budget, finished units staying finished, and dependencies that    *)
(* never close a cycle.                                                    *)
(*                                                                         *)
(* Every operation writes single rows, so one lemma per operation says     *)
(* what the row it writes looks like (RowOK) and the invariants follow     *)
(* row by row.                                                             *)
(***************************************************************************)
EXTENDS WorkUnits, TLAPS

\* What every row satisfies: its type, its lease and its budget.
RowOK(u, row) ==
    /\ row \in Unit
    /\ row.status \in ActiveStatuses <=> row.owner # None
    /\ row.status \in ActiveStatuses <=> row.expires # None
    /\ row.status \in InitialStatuses =>
          row.attempts < RetryPolicy[u].max_attempts \/ row.credit = 1

Rows ==
    /\ DOMAIN unit \subseteq Units
    /\ \A u \in DOMAIN unit : RowOK(u, unit[u])
    /\ deps \subseteq (DOMAIN unit) \X (DOMAIN unit)

-----------------------------------------------------------------------------
(* The row each operation writes *)

\* An epoch time plus a stored delay is an epoch time (add_delay_ms saturates).
LEMMA AfterIsTime ==
    ASSUME NEW now \in Times, NEW delay \in Times
    PROVE  After(now, delay) \in Times
BY WorkUnitAssumption DEF After, Times

\* What callers may ask for, and what every unit's policy allows.
LEMMA CallersAsk ==
    /\ DueTimes \subseteq Times
    /\ \A u \in Units : RetryPolicy[u].max_attempts \in Nat /\ RetryPolicy[u].max_attempts > 0
<1>. SUFFICES ASSUME NEW u \in Units
              PROVE  RetryPolicy[u].max_attempts \in Nat /\ RetryPolicy[u].max_attempts > 0
  BY WorkUnitAssumption
<1>1. RetryPolicy[u] \in Policy
  BY WorkUnitAssumption DEF ValidPolicy
<1>. QED BY <1>1 DEF Policy

\* A row that leaves its lease for a status that is not leased or running is in order
\* when retrying it is within its budget.
LEMMA ReleasedRowOK ==
    ASSUME NEW u, NEW row, RowOK(u, row),
           NEW status \in Statuses \ ActiveStatuses,
           NEW nextRun \in Times,
           status \in InitialStatuses => row.attempts < RetryPolicy[u].max_attempts
    PROVE  RowOK(u, Released(row, status, nextRun))
BY WorkUnitAssumption
   DEF RowOK, Released, Unit, Statuses, ActiveStatuses, InitialStatuses, FinishedStatuses

\* Storing a row that is in order keeps every row in order.
LEMMA StoreRows ==
    ASSUME Rows, NEW u \in Units, NEW row, RowOK(u, row), Store(u, row), UNCHANGED deps
    PROVE  Rows'
BY DEF Rows, Store, RowOK

\* A new row holds no lease and all its attempts.
LEMMA CreateRows ==
    ASSUME Rows, NEW u \in Units, NEW status, NEW rank \in Ranks, NEW nextRun \in DueTimes,
           CreateWorkUnit(u, status, rank, nextRun)
    PROVE  Rows'
<1> DEFINE row == [status |-> status, rank |-> rank, attempts |-> 0, nextRun |-> nextRun,
                   owner |-> None, expires |-> None, credit |-> 0]
<1>1. RowOK(u, row)
  BY WorkUnitAssumption, CallersAsk
     DEF CreateWorkUnit, RowOK, Unit, Statuses, InitialStatuses, ActiveStatuses
<1> QED
  BY <1>1, StoreRows DEF CreateWorkUnit

\* A manual update keeps the lease, and reopening a cancelled row grants its credit.
LEMMA UpdateRows ==
    ASSUME Rows, NEW u \in Units, NEW status, NEW rank \in Ranks, NEW nextRun \in DueTimes,
           UpdateWorkUnit(u, status, rank, nextRun)
    PROVE  Rows'
<1> DEFINE old == unit[u]
           next == IF status = None THEN old.status ELSE status
           credit == IF old.status = "cancelled" /\ status # None /\ status # "cancelled"
                     THEN 1 ELSE old.credit
           row == [old EXCEPT !.status = next, !.rank = rank, !.nextRun = nextRun,
                              !.credit = credit]
<1>1. RowOK(u, old) /\ old \in Unit
  BY DEF Rows, UpdateWorkUnit, Exists, RowOK
<1>2. next = old.status \/ (old.status \in ManualStatuses /\ next \in ManualStatuses)
  BY DEF UpdateWorkUnit, ManualChange
<1>3. next \in InitialStatuses => old.status \in InitialStatuses \/ credit = 1
  BY <1>2, WorkUnitAssumption DEF ManualStatuses, InitialStatuses, Statuses
<1>4. credit \in 0 .. 1 /\ (credit = old.credit \/ credit = 1)
  BY <1>1 DEF Unit
<1>5. next \in Statuses /\ (next \in ActiveStatuses <=> old.status \in ActiveStatuses)
  BY <1>1, <1>2 DEF Unit, Statuses, ManualStatuses, InitialStatuses, ActiveStatuses,
                    FinishedStatuses
<1>6. Store(u, row) /\ UNCHANGED deps
  BY DEF UpdateWorkUnit
<1> HIDE DEF next, credit
<1>7. row \in Unit
  BY <1>1, <1>4, <1>5, CallersAsk DEF Unit
<1>8. /\ row.status = next /\ row.owner = old.owner /\ row.expires = old.expires
      /\ row.attempts = old.attempts /\ row.credit = credit
  BY <1>1 DEF Unit
<1>9. RowOK(u, row)
  BY <1>1, <1>3, <1>4, <1>5, <1>7, <1>8 DEF RowOK
<1> QED
  BY <1>6, <1>9, StoreRows

\* An archived row had finished, so it holds no lease.
LEMMA ArchiveRows ==
    ASSUME Rows, NEW u \in Units, ArchiveWorkUnit(u)
    PROVE  Rows'
<1> DEFINE row == [unit[u] EXCEPT !.status = "archived"]
<1>1. RowOK(u, unit[u]) /\ unit[u].status \in FinishedStatuses
  BY DEF Rows, ArchiveWorkUnit, Exists
<1>2. RowOK(u, row)
  BY <1>1 DEF RowOK, Unit, Statuses, FinishedStatuses, ActiveStatuses, InitialStatuses
<1> QED
  BY <1>2, StoreRows DEF ArchiveWorkUnit

\* A leased row has an owner and an expiry that is a time, whatever the clock says.
LEMMA AcquireRows ==
    ASSUME Rows, NEW u \in Units, NEW owner \in Owners, NEW ttl \in Ttls, NEW now \in Times,
           AcquireNextReadyLease(u, owner, ttl, now)
    PROVE  Rows'
<1> DEFINE expires == After(now, ttl)
           attempts == unit[u].attempts + 1
           row == [unit[u] EXCEPT !.status = "leased", !.attempts = attempts, !.owner = owner,
                                  !.expires = expires, !.credit = 0]
<1>1. RowOK(u, unit[u])
  BY DEF Rows, AcquireNextReadyLease, Exists
<1>2. expires \in Times
  BY AfterIsTime, WorkUnitAssumption DEF Times
<1>3. Store(u, row) /\ UNCHANGED deps
  BY DEF AcquireNextReadyLease
<1>4. unit[u] \in Unit /\ attempts \in Nat /\ expires # None /\ owner # None
  BY <1>1, <1>2, WorkUnitAssumption DEF RowOK, Unit
<1> HIDE DEF expires, attempts
<1>5. row \in Unit
  <2>1. "leased" \in Statuses /\ 0 \in 0 .. 1
    BY DEF Statuses, ActiveStatuses
  <2> QED
    BY <1>2, <1>4, <2>1 DEF Unit
<1>6. row.status = "leased" /\ row.owner = owner /\ row.expires = expires
  BY <1>4 DEF Unit
<1>7. RowOK(u, row)
  BY <1>4, <1>5, <1>6 DEF RowOK, ActiveStatuses, InitialStatuses
<1> QED
  BY <1>3, <1>7, StoreRows

\* Starting the work keeps the lease.
LEMMA MarkRows ==
    ASSUME Rows, NEW u \in Units, NEW owner \in Owners, MarkLeasedRunning(u, owner)
    PROVE  Rows'
<1> DEFINE row == [unit[u] EXCEPT !.status = "running"]
<1>1. RowOK(u, unit[u]) /\ unit[u].status = "leased"
  BY DEF Rows, MarkLeasedRunning, Holds, Exists
<1>2. RowOK(u, row)
  BY <1>1 DEF RowOK, Unit, Statuses, ActiveStatuses, InitialStatuses
<1> QED
  BY <1>2, StoreRows DEF MarkLeasedRunning

\* A heartbeat moves the expiry of a lease its sender holds.
LEMMA HeartbeatRows ==
    ASSUME Rows, NEW u \in Units, NEW owner \in Owners, NEW ttl \in Ttls, NEW now \in Times,
           HeartbeatLease(u, owner, ttl, now)
    PROVE  Rows'
<1> DEFINE expires == After(now, ttl)
           row == [unit[u] EXCEPT !.expires = expires]
<1>1. RowOK(u, unit[u]) /\ unit[u].status \in ActiveStatuses
  BY DEF Rows, HeartbeatLease, Holds, Exists
<1>2. expires \in Times
  BY AfterIsTime, WorkUnitAssumption DEF Times
<1>3. Store(u, row) /\ UNCHANGED deps
  BY DEF HeartbeatLease
<1> HIDE DEF expires
<1>4. RowOK(u, row)
  BY <1>1, <1>2, WorkUnitAssumption DEF RowOK, Unit
<1> QED
  BY <1>3, <1>4, StoreRows

\* A finished row gives up owner and expiry together.
LEMMA FinishRows ==
    ASSUME Rows, NEW u \in Units, NEW owner \in Owners,
           NEW status \in FinishedStatuses \cup {"retry_pending"}, NEW now \in Times,
           FinishWorkUnit(u, owner, status, now)
    PROVE  Rows'
<1> DEFINE final == IF status = "retry_pending" THEN "failed_terminal" ELSE status
<1>1. RowOK(u, unit[u])
  BY DEF Rows, FinishWorkUnit, Holds, Exists
<1>2. final \in Statuses \ ActiveStatuses /\ final \notin InitialStatuses
  BY DEF Statuses, FinishedStatuses, ActiveStatuses, InitialStatuses
<1>3. RowOK(u, Released(unit[u], final, now))
  BY <1>1, <1>2, ReleasedRowOK
<1> QED
  BY <1>3, StoreRows DEF FinishWorkUnit

\* A retried row is within its budget and due at a time, given or computed.
LEMMA RetryRows ==
    ASSUME Rows, NEW u \in Units, NEW owner \in Owners, NEW now \in Times,
           RetryWorkUnit(u, owner, now)
    PROVE  Rows'
<1>1. RowOK(u, unit[u]) /\ unit[u].attempts < RetryPolicy[u].max_attempts
  BY CallersAsk DEF Rows, RetryWorkUnit, Holds, Exists, Exhausted, RowOK, Unit
<1>2. PICK nextRun \in Times : Store(u, Released(unit[u], "retry_pending", nextRun))
  <2>1. CASE \E nextRun \in DueTimes : Store(u, Released(unit[u], "retry_pending", nextRun))
    BY <2>1, CallersAsk
  <2>2. CASE /\ Storable(RetryDelay(u))
             /\ Store(u, Released(unit[u], "retry_pending", After(now, RetryDelay(u))))
    BY <2>2, AfterIsTime DEF Storable
  <2> QED
    BY <2>1, <2>2 DEF RetryWorkUnit
<1>3. "retry_pending" \in Statuses \ ActiveStatuses
  BY DEF Statuses, InitialStatuses, ActiveStatuses
<1>4. RowOK(u, Released(unit[u], "retry_pending", nextRun))
  BY <1>1, <1>3, ReleasedRowOK
<1> QED
  BY <1>2, <1>4, StoreRows DEF RetryWorkUnit

\* Recovery releases every expired row, and retries only those within their budget.
LEMMA RecoverRows ==
    ASSUME Rows, NEW now \in Times, RecoverExpiredLeases(now)
    PROVE  Rows'
<1> DEFINE expired == {u \in DOMAIN unit : Expired(u, now)}
<1>1. SUFFICES ASSUME NEW u \in DOMAIN unit
               PROVE  RowOK(u, unit'[u])
  BY DEF Rows, RecoverExpiredLeases, RowOK
<1>2. RowOK(u, unit[u]) /\ unit[u] \in Unit
  BY DEF Rows, RowOK
<1>3. {"failed_terminal", "retry_pending"} \subseteq Statuses \ ActiveStatuses
  BY DEF Statuses, InitialStatuses, FinishedStatuses, ActiveStatuses
<1>4. CASE u \notin expired
  BY <1>2, <1>4 DEF RecoverExpiredLeases
<1>5. CASE u \in expired /\ Exhausted(u)
  <2>1. RowOK(u, Released(unit[u], "failed_terminal", now))
    BY <1>2, <1>3, ReleasedRowOK DEF InitialStatuses
  <2>2. unit'[u] = Released(unit[u], "failed_terminal", now)
    BY <1>5 DEF RecoverExpiredLeases
  <2> QED
    BY <2>1, <2>2
<1>6. CASE u \in expired /\ ~Exhausted(u)
  <2>1. After(now, RetryDelay(u)) \in Times
    BY <1>6, AfterIsTime DEF RecoverExpiredLeases, Storable
  <2>2. unit[u].attempts < RetryPolicy[u].max_attempts
    <3>1. u \in Units
      BY DEF Rows
    <3>. QED BY <1>2, <1>6, <3>1, CallersAsk DEF Exhausted, Unit
  <2>3. RowOK(u, Released(unit[u], "retry_pending", After(now, RetryDelay(u))))
    BY <1>2, <1>3, <2>1, <2>2, ReleasedRowOK
  <2>4. unit'[u] = Released(unit[u], "retry_pending", After(now, RetryDelay(u)))
    BY <1>6 DEF RecoverExpiredLeases
  <2> QED
    BY <2>3, <2>4
<1> QED
  BY <1>4, <1>5, <1>6
-----------------------------------------------------------------------------
(* The rows are in order in every reachable state *)

\* Edges are added between existing rows only.
LEMMA DependencyRows ==
    ASSUME Rows, NEW u \in Units, NEW v \in Units, AddDependency(u, v) \/ RemoveDependency(u, v)
    PROVE  Rows'
BY DEF Rows, RowOK, AddDependency, RemoveDependency, Exists

\* Every step keeps every row in order.
LEMMA RowsStep == Rows /\ [Next]_vars => Rows'
<1> SUFFICES ASSUME Rows, [Next]_vars PROVE Rows'
  OBVIOUS
<1>1. ASSUME NEW u \in Units, Operate(u) PROVE Rows'
  <2>1. CASE \E s \in RequestedStatuses, r \in Ranks, t \in DueTimes : CreateWorkUnit(u, s, r, t)
    BY <2>1, CreateRows
  <2>2. CASE \E s \in RequestedStatuses \cup {None}, r \in Ranks, t \in DueTimes :
                UpdateWorkUnit(u, s, r, t)
    BY <2>2, UpdateRows
  <2>3. CASE ArchiveWorkUnit(u)
    BY <2>3, ArchiveRows
  <2>4. CASE \E v \in Units : AddDependency(u, v) \/ RemoveDependency(u, v)
    BY <2>4, DependencyRows
  <2> QED
    BY <1>1, <2>1, <2>2, <2>3, <2>4 DEF Operate
<1>2. ASSUME NEW u \in Units, Work(u) PROVE Rows'
  <2>1. PICK o \in Owners, now \in Times :
            \/ \E ttl \in Ttls :
                  AcquireNextReadyLease(u, o, ttl, now) \/ HeartbeatLease(u, o, ttl, now)
            \/ MarkLeasedRunning(u, o)
            \/ \E s \in FinishedStatuses \cup {"retry_pending"} : FinishWorkUnit(u, o, s, now)
            \/ RetryWorkUnit(u, o, now)
    BY <1>2 DEF Work
  <2> QED
    BY <2>1, AcquireRows, HeartbeatRows, MarkRows, FinishRows, RetryRows
<1>3. CASE UNCHANGED vars
  BY <1>3 DEF vars, Rows, RowOK
<1> QED
  BY <1>1, <1>2, <1>3, RecoverRows DEF Next

\* Every row is in order in every reachable state.
LEMMA RowsInvariant == Spec => []Rows
<1>1. Init => Rows
  BY DEF Init, Rows
<1> QED
  BY <1>1, RowsStep, PTL DEF Spec

\* Both tables keep their types, however the operations of workers and operators mix.
THEOREM TypeCorrect == Spec => []TypeOK
<1>1. Rows => TypeOK
  BY DEF Rows, RowOK, TypeOK
<1> QED
  BY <1>1, RowsInvariant, PTL

\* Leased or running, and only then, a row names an owner and an expiry
\* (recover_expired_leases never meets half a lease).
THEOREM LeasesMatchStatus == Spec => []LeaseMatchesStatus
<1>1. Rows => LeaseMatchesStatus
  BY DEF Rows, RowOK, LeaseMatchesStatus
<1> QED
  BY <1>1, RowsInvariant, PTL

\* What may be leased again has attempts left or was reopened by an operator
\* (resolve_completion, resolve_recovery, validate_manual_update_status).
THEOREM RetryBudget == Spec => []RetryBudgetHolds
<1>1. Rows => RetryBudgetHolds
  BY DEF Rows, RowOK, RetryBudgetHolds
<1> QED
  BY <1>1, RowsInvariant, PTL

-----------------------------------------------------------------------------
(* Finished units *)

\* What a step may do to the row of u when it is finished.
RowStaysFinished(u) ==
    /\ unit[u].status \in {"completed", "failed_terminal"} =>
          unit'[u].status \in {unit[u].status, "archived"}
    /\ unit[u].status = "archived" => unit'[u] = unit[u]

\* No operation takes a completed or failed unit anywhere but into the archive, and
\* none touches an archived one.
LEMMA FinishedStep ==
    ASSUME Rows, [Next]_vars, NEW u \in DOMAIN unit
    PROVE  RowStaysFinished(u)
<1>1. unit[u] \in Unit
  BY DEF Rows, RowOK
<1>2. CASE unit' = unit
  BY <1>2 DEF RowStaysFinished
<1>3. ASSUME NEW w \in Units, Operate(w) PROVE RowStaysFinished(u)
  <2>1. CASE \E s \in RequestedStatuses, r \in Ranks, t \in DueTimes : CreateWorkUnit(w, s, r, t)
    BY <2>1 DEF CreateWorkUnit, Exists, Store, RowStaysFinished
  <2>2. ASSUME NEW s \in RequestedStatuses \cup {None}, NEW r \in Ranks, NEW t \in DueTimes,
               UpdateWorkUnit(w, s, r, t)
        PROVE  RowStaysFinished(u)
    <3>1. s = None \/ unit[w].status \in ManualStatuses
      BY <2>2 DEF UpdateWorkUnit, ManualChange
    <3>2. s = None => unit'[w].status = unit[w].status
      BY <2>2 DEF UpdateWorkUnit, Exists, Store, Rows, RowOK, Unit
    <3> QED
      BY <2>2, <3>1, <3>2 DEF UpdateWorkUnit, Exists, Store, RowStaysFinished,
                              ManualStatuses, InitialStatuses
  <2>3. CASE ArchiveWorkUnit(w)
    BY <1>1, <2>3 DEF ArchiveWorkUnit, Exists, Store, RowStaysFinished, Unit
  <2>4. CASE \E v \in Units : AddDependency(w, v) \/ RemoveDependency(w, v)
    BY <2>4, <1>2 DEF AddDependency, RemoveDependency
  <2> QED
    BY <1>3, <2>1, <2>2, <2>3, <2>4 DEF Operate
<1>4. ASSUME NEW w \in Units, Work(w) PROVE RowStaysFinished(u)
  <2>1. PICK row : Store(w, row)
    BY <1>4 DEF Work, AcquireNextReadyLease, HeartbeatLease, MarkLeasedRunning, FinishWorkUnit,
                RetryWorkUnit
  <2>2. /\ Exists(w)
        /\ unit[w].status \in ActiveStatuses \cup {"ready", "retry_pending"}
    BY <1>4 DEF Work, AcquireNextReadyLease, NextReady, ReadyAt, HeartbeatLease,
                MarkLeasedRunning, FinishWorkUnit, RetryWorkUnit, Holds
  <2> QED
    BY <2>1, <2>2 DEF Store, Exists, ActiveStatuses, RowStaysFinished
<1>5. ASSUME NEW now \in Times, RecoverExpiredLeases(now) PROVE RowStaysFinished(u)
  BY <1>5 DEF RecoverExpiredLeases, Expired, ActiveStatuses, RowStaysFinished
<1> QED
  BY <1>2, <1>3, <1>4, <1>5 DEF Next, vars

\* Late heartbeats, completions and manual updates never revive a unit that completed
\* or failed for good (validate_manual_update_status, complete_work_unit).
THEOREM FinishedStaysFinished == Spec => FinishedIsFinal
<1>1. Rows /\ [Next]_vars =>
        [\A u \in DOMAIN unit :
            /\ unit[u].status \in {"completed", "failed_terminal"} =>
                  unit'[u].status \in {unit[u].status, "archived"}
            /\ unit[u].status = "archived" => unit'[u] = unit[u]]_vars
  BY FinishedStep DEF RowStaysFinished
<1> QED
  BY <1>1, RowsInvariant, PTL DEF Spec, FinishedIsFinal

-----------------------------------------------------------------------------
(* Dependencies *)

\* The chain of x is closed: what x blocks is in it, and what its members block.
LEMMA ChainIsClosed ==
    ASSUME NEW E, NEW x \in Units
    PROVE  ChainClosed(E, x, Chain(E, x))
BY DEF ChainClosed, Chain

\* An edge that leads nowhere back closes no cycle.  A set S without an unblocked
\* member would have none under the old edges either: if S reaches outside the units
\* that blocked leads to, the rest of S is not entered by the new edge; otherwise S
\* lies among them, where blocking is not.
LEMMA AcyclicExtended ==
    ASSUME NEW E, NEW a \in Units, NEW b \in Units,
           Acyclic(E), a # b, a \notin Chain(E, b)
    PROVE  Acyclic(E \cup {<<a, b>>})
<1> DEFINE D == Chain(E, b) \cup {b}
<1>1. D \subseteq Units /\ a \notin D /\ b \in D
  BY DEF Chain
<1>2. \A v, w \in Units : v \in D /\ <<v, w>> \in E => w \in D
  BY ChainIsClosed DEF ChainClosed
<1> HIDE DEF D
<1> SUFFICES ASSUME NEW S \in SUBSET Units, S # {}
             PROVE  \E u \in S : \A v \in S : <<v, u>> \notin E \cup {<<a, b>>}
  BY DEF Acyclic
<1>3. CASE S \ D # {}
  <2>1. PICK u \in S \ D : \A v \in S \ D : <<v, u>> \notin E
    BY <1>3 DEF Acyclic
  <2>2. \A v \in S : <<v, u>> \notin E
    BY <1>2, <2>1
  <2> QED
    BY <1>1, <2>1, <2>2
<1>4. CASE S \ D = {}
  <2>1. PICK u \in S : \A v \in S : <<v, u>> \notin E
    BY DEF Acyclic
  <2> QED
    BY <1>1, <1>4, <2>1
<1> QED
  BY <1>3, <1>4

\* Every step but add_dependency and remove_dependency leaves the edges alone.
LEMMA EdgeStep ==
    ASSUME [Next]_vars
    PROVE  \/ deps' \subseteq deps
           \/ \E a, b \in Units : AddDependency(a, b)
<1>1. ASSUME NEW u \in Units, Operate(u)
      PROVE  deps' \subseteq deps \/ \E b \in Units : AddDependency(u, b)
  BY <1>1 DEF Operate, CreateWorkUnit, UpdateWorkUnit, ArchiveWorkUnit, RemoveDependency
<1>2. ASSUME NEW u \in Units, Work(u)
      PROVE  deps' = deps
  BY <1>2 DEF Work, AcquireNextReadyLease, MarkLeasedRunning, HeartbeatLease, FinishWorkUnit,
              RetryWorkUnit
<1>3. ASSUME NEW now \in Times, RecoverExpiredLeases(now)
      PROVE  deps' = deps
  BY <1>3 DEF RecoverExpiredLeases
<1>4. CASE UNCHANGED vars
  BY <1>4 DEF vars
<1>. QED BY <1>1, <1>2, <1>3, <1>4 DEF Next

\* No sequence of additions and removals ever closes a cycle of dependencies
\* (would_create_dependency_cycle).
THEOREM NoDependencyCycle == Spec => []DependenciesAcyclic
<1>1. Init => DependenciesAcyclic
  BY DEF Init, DependenciesAcyclic, Acyclic
<1>2. DependenciesAcyclic /\ [Next]_vars => DependenciesAcyclic'
  <2> SUFFICES ASSUME Acyclic(deps), [Next]_vars PROVE Acyclic(deps')
    BY DEF DependenciesAcyclic, Acyclic
  <2>1. CASE deps' \subseteq deps
    BY <2>1 DEF Acyclic
  <2>2. ASSUME NEW a \in Units, NEW b \in Units, AddDependency(a, b) PROVE Acyclic(deps')
    BY <2>2, AcyclicExtended DEF AddDependency, WouldCreateCycle
  <2> QED
    BY <2>1, <2>2, EdgeStep
<1> QED
  BY <1>1, <1>2, PTL DEF Spec

\* While units are open, one of them is not blocked: dependencies alone never bring
\* the queue to a standstill (add_dependency, select_next_ready_raw_work_unit).
THEOREM NoStandstill == Spec => []SomeUnitUnblocked
<1>1. TypeOK /\ DependenciesAcyclic => SomeUnitUnblocked
  <2> DEFINE open == {u \in DOMAIN unit : unit[u].status \notin FinishedStatuses}
  <2> SUFFICES ASSUME TypeOK, Acyclic(deps), open # {} PROVE \E u \in open : ~Blocked(u)
    BY DEF SomeUnitUnblocked, DependenciesAcyclic
  <2>1. PICK u \in open : \A v \in open : <<v, u>> \notin deps
    BY DEF Acyclic, TypeOK
  <2> QED
    BY <2>1 DEF Blocked
<1> QED
  BY <1>1, TypeCorrect, NoDependencyCycle, PTL
=============================================================================
