----------------------------- MODULE WorkUnits -----------------------------
(***************************************************************************)
(* The durable work-unit queue: WorkUnitRepository                         *)
(* (crates/app/src/work/repository.rs).  Every operation is one SQLite     *)
(* transaction, so every operation is one action; what interleaves is      *)
(* whole operations of workers and operators in any order, each with the   *)
(* now_ms its caller passes or reads from its own clock.                   *)
(*                                                                         *)
(* A unit's text, assignment, notes and event log are left out: no guard   *)
(* reads them; nor does one read lease_version, which moves in step with   *)
(* attempt_count.  Its archived_at_ms is non-null exactly when its status is  *)
(* archived.  A transaction that fails rolls back and changes nothing.     *)
(***************************************************************************)
EXTENDS Naturals, FiniteSets

CONSTANTS Units,              \* work unit ids
          Owners,             \* lease owner names
          Ranks,              \* priority ranks
          RequestedStatuses,  \* statuses callers ask for in create and update
          DueTimes,           \* next_run_at_ms values callers ask for
          Ttls,               \* lease lifetimes, in ms
          MaxTime,            \* i64::MAX for epoch milliseconds
          RetryPolicy,        \* the retry policy each unit is created with, and keeps
          AttemptBound,       \* bound on the acquisitions of all units together, for TLC
          None

Times == 0 .. MaxTime

InitialStatuses == {"captured", "triaged", "ready", "waiting_external",
                    "waiting_review", "retry_pending"}
ManualStatuses == InitialStatuses \cup {"cancelled"}
ActiveStatuses == {"leased", "running"}
FinishedStatuses == {"completed", "failed_terminal", "cancelled", "archived"}
Statuses == InitialStatuses \cup ActiveStatuses \cup FinishedStatuses

\* validate_retry_policy, which every unit passes when it is created.
Policy == [max_attempts: Nat \ {0}, initial_backoff: Nat \ {0}, max_backoff: Nat]
ValidPolicy(policy) == policy \in Policy /\ policy.initial_backoff <= policy.max_backoff

ASSUME WorkUnitAssumption ==
    /\ MaxTime \in Nat
    /\ DOMAIN RetryPolicy = Units
    /\ \A u \in Units : ValidPolicy(RetryPolicy[u])
    /\ DueTimes \subseteq Times
    /\ Ttls \subseteq 1 .. MaxTime
    /\ Ranks \subseteq Nat
    /\ RequestedStatuses \subseteq Statuses
    /\ AttemptBound \in Nat
    /\ None \notin Owners /\ None \notin Times /\ None \notin Statuses

Unit == [status: Statuses, rank: Ranks, attempts: Nat, nextRun: Times,
         owner: Owners \cup {None}, expires: Times \cup {None}, credit: 0 .. 1]

VARIABLES unit,   \* the rows of work_units, by id; "credit" is for the properties
                  \* only: 1 when taken out of cancelled since the last lease
          deps    \* the rows of work_unit_dependencies: <<blocking, blocked>>

vars == <<unit, deps>>

Init == unit = <<>> /\ deps = {}

Exists(u) == u \in DOMAIN unit
Store(u, row) == unit' = [v \in DOMAIN unit \cup {u} |-> IF v = u THEN row ELSE unit[v]]

-----------------------------------------------------------------------------
(* Retry policy *)

\* Mutant: the sum does not saturate.
MutAfter(now, delay) == now + delay

\* add_delay_ms: the sum saturates (a delay beyond i64 is an error, see Storable).
After(now, delay) == IF now + delay > MaxTime THEN MaxTime ELSE now + delay
Storable(delay) == delay \in Times

\* compute_retry_delay_ms: doubled and clamped once per attempt after the first.
RetryDelay(u) ==
    LET delay[n \in Nat] ==
            IF n <= 1 THEN RetryPolicy[u].initial_backoff
            ELSE LET doubled == 2 * delay[n - 1]
                 IN  IF doubled > RetryPolicy[u].max_backoff
                     THEN RetryPolicy[u].max_backoff ELSE doubled
    IN  delay[unit[u].attempts]

\* Mutant: one attempt too many.
MutExhausted(u) == unit[u].attempts > RetryPolicy[u].max_attempts

Exhausted(u) == unit[u].attempts >= RetryPolicy[u].max_attempts

\* Mutant: recovery and completion keep the expiry of the lease they end.
MutReleased(row, status, nextRun) ==
    [row EXCEPT !.status = status, !.nextRun = nextRun, !.owner = None]

Released(row, status, nextRun) ==
    [row EXCEPT !.status = status, !.nextRun = nextRun, !.owner = None, !.expires = None]

-----------------------------------------------------------------------------
(* Operators: create, update, archive *)

CreateWorkUnit(u, status, rank, nextRun) ==
    /\ ~Exists(u)
    /\ status \in InitialStatuses
    /\ Store(u, [status |-> status, rank |-> rank, attempts |-> 0, nextRun |-> nextRun,
                 owner |-> None, expires |-> None, credit |-> 0])
    /\ UNCHANGED deps

\* Mutant: only the target of a manual status change is checked.
MutManualChange(current, next) == next \in ManualStatuses

\* validate_manual_update_status: both ends of the change must be manual ones.
ManualChange(current, next) == current \in ManualStatuses /\ next \in ManualStatuses

\* With status None the row keeps its status, and any row not archived is reached.
UpdateWorkUnit(u, status, rank, nextRun) ==
    /\ Exists(u)
    /\ unit[u].status # "archived"
    /\ status # None => ManualChange(unit[u].status, status)
    /\ Store(u, [unit[u] EXCEPT
                   !.status = IF status = None THEN @ ELSE status,
                   !.rank = rank,
                   !.nextRun = nextRun,
                   !.credit = IF unit[u].status = "cancelled" /\ status # None /\ status # "cancelled"
                              THEN 1 ELSE @])
    /\ UNCHANGED deps

ArchiveWorkUnit(u) ==
    /\ Exists(u)
    /\ unit[u].status \in FinishedStatuses \ {"archived"}
    /\ Store(u, [unit[u] EXCEPT !.status = "archived"])
    /\ UNCHANGED deps

-----------------------------------------------------------------------------
(* Dependencies *)

\* The units that unit x blocks, directly or through others, by the edges E: the
\* least set the recursive query dependency_chain reaches.
ChainClosed(E, x, S) ==
    /\ \A v \in Units : <<x, v>> \in E => v \in S
    /\ \A v, w \in Units : v \in S /\ <<v, w>> \in E => w \in S
Chain(E, x) == {v \in Units : \A S \in SUBSET Units : ChainClosed(E, x, S) => v \in S}

\* Mutant: only a direct edge back is looked for.
MutWouldCreateCycle(blocking, blocked) == <<blocked, blocking>> \in deps

WouldCreateCycle(blocking, blocked) == blocking \in Chain(deps, blocked)

AddDependency(blocking, blocked) ==
    /\ blocking # blocked
    /\ Exists(blocking) /\ Exists(blocked)
    /\ ~WouldCreateCycle(blocking, blocked)
    /\ deps' = deps \cup {<<blocking, blocked>>}
    /\ UNCHANGED unit

RemoveDependency(blocking, blocked) ==
    /\ blocking # blocked
    /\ Exists(blocked)
    /\ deps' = deps \ {<<blocking, blocked>>}
    /\ UNCHANGED unit

Blocked(u) == \E b \in DOMAIN unit : <<b, u>> \in deps /\ unit[b].status \notin FinishedStatuses

-----------------------------------------------------------------------------
(* Leases *)

ReadyAt(u, now) ==
    /\ unit[u].status \in {"ready", "retry_pending"}
    /\ unit[u].nextRun <= now
    /\ unit[u].expires # None => unit[u].expires <= now
    /\ ~Blocked(u)

\* select_next_ready: highest rank, then earliest next_run_at_ms; the remaining
\* tie-breakers (updated_at_ms, id) are left open.
NextReady(u, now) ==
    /\ ReadyAt(u, now)
    /\ \A v \in DOMAIN unit : ReadyAt(v, now) =>
          \/ unit[v].rank < unit[u].rank
          \/ unit[v].rank = unit[u].rank /\ unit[v].nextRun >= unit[u].nextRun

\* The attempts made on all units together.
Attempts ==
    Cardinality({a \in (DOMAIN unit) \X (1 .. AttemptBound) : a[2] <= unit[a[1]].attempts})

AcquireNextReadyLease(u, owner, ttl, now) ==
    /\ Exists(u)
    /\ Attempts < AttemptBound
    /\ NextReady(u, now)
    /\ Store(u, [unit[u] EXCEPT !.status = "leased", !.attempts = @ + 1, !.owner = owner,
                                !.expires = After(now, ttl), !.credit = 0])
    /\ UNCHANGED deps

Holds(u, owner) == Exists(u) /\ unit[u].status \in ActiveStatuses /\ unit[u].owner = owner

MarkLeasedRunning(u, owner) ==
    /\ Holds(u, owner)
    /\ unit[u].status = "leased"
    /\ Store(u, [unit[u] EXCEPT !.status = "running"])
    /\ UNCHANGED deps

\* The expiry is not consulted: a late heartbeat revives a lease not yet recovered.
HeartbeatLease(u, owner, ttl, now) ==
    /\ Holds(u, owner)
    /\ Store(u, [unit[u] EXCEPT !.expires = After(now, ttl)])
    /\ UNCHANGED deps

\* complete_work_unit with disposition completed, cancelled or failed_terminal, and
\* with retry_pending once the attempts are used up.
FinishWorkUnit(u, owner, status, now) ==
    /\ Holds(u, owner)
    /\ \/ status \in {"completed", "cancelled", "failed_terminal"}
       \/ status = "retry_pending" /\ Exhausted(u)
    /\ Store(u, Released(unit[u],
                         IF status = "retry_pending" THEN "failed_terminal" ELSE status, now))
    /\ UNCHANGED deps

\* complete_work_unit with disposition retry_pending: the caller's next_run_at_ms,
\* or the backoff, whose overflow is an error.
RetryWorkUnit(u, owner, now) ==
    /\ Holds(u, owner)
    /\ ~Exhausted(u)
    /\ \/ \E nextRun \in DueTimes : Store(u, Released(unit[u], "retry_pending", nextRun))
       \/ /\ Storable(RetryDelay(u))
          /\ Store(u, Released(unit[u], "retry_pending", After(now, RetryDelay(u))))
    /\ UNCHANGED deps

Expired(u, now) ==
    unit[u].status \in ActiveStatuses /\ unit[u].expires # None /\ unit[u].expires < now

\* recover_expired_leases: all expired leases or, when one row's backoff
\* overflows, none.
RecoverExpiredLeases(now) ==
    LET expired == {u \in DOMAIN unit : Expired(u, now)}
    IN  /\ expired # {}
        /\ \A u \in expired : Exhausted(u) \/ Storable(RetryDelay(u))
        /\ unit' = [u \in DOMAIN unit |->
              IF u \notin expired THEN unit[u]
              ELSE IF Exhausted(u) THEN Released(unit[u], "failed_terminal", now)
              ELSE Released(unit[u], "retry_pending", After(now, RetryDelay(u)))]
        /\ UNCHANGED deps

-----------------------------------------------------------------------------

Operate(u) ==
    \/ \E s \in RequestedStatuses, r \in Ranks, t \in DueTimes : CreateWorkUnit(u, s, r, t)
    \/ \E s \in RequestedStatuses \cup {None}, r \in Ranks, t \in DueTimes :
          UpdateWorkUnit(u, s, r, t)
    \/ ArchiveWorkUnit(u)
    \/ \E v \in Units : AddDependency(u, v) \/ RemoveDependency(u, v)

Work(u) ==
    \E o \in Owners, now \in Times :
        \/ \E ttl \in Ttls : AcquireNextReadyLease(u, o, ttl, now) \/ HeartbeatLease(u, o, ttl, now)
        \/ MarkLeasedRunning(u, o)
        \/ \E s \in FinishedStatuses \cup {"retry_pending"} : FinishWorkUnit(u, o, s, now)
        \/ RetryWorkUnit(u, o, now)

Next ==
    \/ \E u \in Units : Operate(u) \/ Work(u)
    \/ \E now \in Times : RecoverExpiredLeases(now)

Spec == Init /\ [][Next]_vars

-----------------------------------------------------------------------------
(* Properties *)

\* Type correctness of both tables.
TypeOK ==
    /\ DOMAIN unit \subseteq Units
    /\ \A u \in DOMAIN unit : unit[u] \in Unit
    /\ deps \subseteq (DOMAIN unit) \X (DOMAIN unit)

\* A row carries an owner and an expiry exactly while it is leased or running, so
\* recovery never meets the half lease that would abort its whole transaction
\* (build_expired_lease_error), and no finished or waiting row can look expired.
LeaseMatchesStatus ==
    \A u \in DOMAIN unit :
        /\ unit[u].status \in ActiveStatuses <=> unit[u].owner # None
        /\ unit[u].status \in ActiveStatuses <=> unit[u].expires # None

\* Every set of units holds one that no member of the set blocks.
Acyclic(E) ==
    \A S \in SUBSET Units : S # {} => \E u \in S : \A v \in S : <<v, u>> \notin E

\* However edges are added and removed, the dependencies stay without a cycle
\* (would_create_dependency_cycle).
DependenciesAcyclic == Acyclic(deps)

\* Blocking is never mutual: while units are open, one of them is not blocked, so
\* finishing what can run eventually unblocks the rest.
SomeUnitUnblocked ==
    LET open == {u \in DOMAIN unit : unit[u].status \notin FinishedStatuses}
    IN  open # {} => \E u \in open : ~Blocked(u)

\* A row that may be leased again has attempts left, however completions, expiries
\* and manual updates mix; only an operator who reopens a cancelled unit may lift an
\* exhausted one over its budget, for one lease (resolve_completion, resolve_recovery).
RetryBudgetHolds ==
    \A u \in DOMAIN unit :
        unit[u].status \in InitialStatuses =>
            unit[u].attempts < RetryPolicy[u].max_attempts \/ unit[u].credit = 1

\* A unit that completed or failed for good changes no more except to be archived,
\* and an archived unit never changes (validate_manual_update_status).
FinishedIsFinal ==
    [][\A u \in DOMAIN unit :
          /\ unit[u].status \in {"completed", "failed_terminal"} =>
                unit'[u].status \in {unit[u].status, "archived"}
          /\ unit[u].status = "archived" => unit'[u] = unit[u]]_vars
=============================================================================
