----------------------------- MODULE AcpSessions -----------------------------
(***************************************************************************)
(* The ACP session manager: AcpSessionManager (acp/manager.rs) with its    *)
(* per-session queue (manager_actor.rs) and its idle cleanup               *)
(* (manager_sessions.rs).  The manager is shared, so any number of tasks   *)
(* call it at once, and a caller may drop a call at any of its awaits.     *)
(*                                                                         *)
(* A session's queue is a tokio mutex kept in a registry.  A call counts   *)
(* itself in actor_ref_counts, takes the mutex out of the registry or puts *)
(* a new one in, and waits for it; the last call out removes the entry.    *)
(* Each call puts in at most one mutex, so a mutex is named after the call *)
(* that made it, and its queue lists the calls in the order tokio serves   *)
(* them, the holder first.                                                 *)
(*                                                                         *)
(* A session key, its conversation and its route give one actor key, so a  *)
(* session stands for all of them; metadata is its state.  The agent       *)
(* backend answers every request either way.  Whether a session has been   *)
(* idle for its ttl is left open: any time may pass between two calls.     *)
(***************************************************************************)
EXTENDS Naturals, Sequences, FiniteSets

CONSTANTS Calls,     \* calls on the manager, each made at most once
          Sessions,
          Jobs,      \* what the calls may ask: the method and the session of each
          Reported,  \* states a backend may report, in its status or with a turn's result
          Limit,     \* max_concurrent_sessions
          None

Kinds == {"turn", "control", "cancel", "close", "status", "observe"}
States == {"Ready", "Busy", "Cancelling", "Error", "Closed", "Initializing"}

ASSUME AcpAssumption ==
    /\ IsFiniteSet(Calls)
    /\ Jobs \subseteq [Calls -> [kind: Kinds, key: Sessions]]
    /\ Reported \subseteq States
    /\ Limit \in Nat
    /\ None \notin Calls \cup Sessions \cup States

\* Where a call can be.  Registered calls are counted, the joined ones have a mutex
\* and the guarded ones own it.  A call that observes sweeps without a guard.
Asleep == {"evicting", "creating", "running", "asking"}
Guarded == Asleep \cup {"sweeping", "choosing", "checking", "swept", "resolved", "marked",
                        "settling", "closing", "releasing"}
Queued == {"queued"} \cup Guarded
Joined == Queued \cup {"joined", "released"}
Counted == Joined \cup {"registered"}
Places == Counted \cup {"idle", "found", "signalled", "preempting", "preempted",
                        "uncounted", "done"}

VARIABLES job,      \* the method and the session of each call
          at,       \* where each call is
          mine,     \* the mutex a call took from the registry
          meta,     \* the state in a call's copy of the metadata
          todo,     \* idle sessions a cleanup still has to look at
          victim,   \* the session a cleanup is closing
          sweeps,   \* cleanups a call still has to run
          dropped,  \* calls whose caller dropped them
          entry,    \* session_actor_locks: the mutex of each session
          queue,    \* the callers of each mutex, the holder first
          refs,     \* actor_ref_counts
          pending,  \* pending_turns
          active,   \* active_turns: the call whose turn is registered
          store     \* the state of each stored session

sweep == <<todo, victim, sweeps>>
registry == <<entry, queue, refs, pending>>
vars == <<job, at, mine, meta, sweep, dropped, registry, active, store>>

Kind(c) == job[c].kind
Key(c) == job[c].key
HasGuard(c) == at[c] \in Guarded /\ Kind(c) # "observe"

Init ==
    /\ job \in Jobs
    /\ at = [c \in Calls |-> "idle"]
    /\ mine = [c \in Calls |-> None]
    /\ meta = [c \in Calls |-> None]
    /\ todo = [c \in Calls |-> {}]
    /\ victim = [c \in Calls |-> None]
    /\ sweeps = [c \in Calls |-> 0]
    /\ dropped = {}
    /\ entry = [k \in Sessions |-> None]
    /\ queue = [c \in Calls |-> <<>>]
    /\ refs = [k \in Sessions |-> 0]
    /\ pending = [k \in Sessions |-> 0]
    /\ active = [k \in Sessions |-> None]
    /\ store = [k \in Sessions |-> None]

MoveTo(c, place) == at' = [at EXCEPT ![c] = place]
Store(k, state) == store' = [store EXCEPT ![k] = state]

-----------------------------------------------------------------------------
(* The queue of a session *)

\* s without its i-th element.
Without(s, i) == SubSeq(s, 1, i - 1) \o SubSeq(s, i + 1, Len(s))

\* A turn is also counted among the pending ones.
CountIn(c) ==
    /\ refs' = [refs EXCEPT ![Key(c)] = @ + 1]
    /\ pending' = [pending EXCEPT ![Key(c)] = IF Kind(c) = "turn" THEN @ + 1 ELSE @]

\* Mutant: whatever call leaves, a pending turn is counted out.
MutCountOut(c) ==
    /\ refs' = [refs EXCEPT ![Key(c)] = @ - 1]
    /\ pending' = [pending EXCEPT ![Key(c)] = @ - 1]

CountOut(c) ==
    /\ refs' = [refs EXCEPT ![Key(c)] = @ - 1]
    /\ pending' = [pending EXCEPT ![Key(c)] = IF Kind(c) = "turn" THEN @ - 1 ELSE @]

\* PendingSessionActorRegistration::new.  cancel and close go past a running turn
\* first, and get_status does not wait for one.
Register(c) ==
    /\ \/ at[c] = "idle" /\ Kind(c) = "turn"
       \/ at[c] = "found" /\ (Kind(c) \in {"cancel", "close"} => active[Key(c)] = None)
                          /\ (Kind(c) = "status" => active[Key(c)] = None /\ pending[Key(c)] = 0)
       \/ at[c] = "preempted"
    /\ CountIn(c)
    /\ MoveTo(c, "registered")
    /\ UNCHANGED <<job, mine, meta, sweep, dropped, entry, queue, active, store>>

\* Takes the session's mutex, or puts a new one in.
Join(c) ==
    /\ at[c] = "registered"
    /\ LET mutex == IF entry[Key(c)] = None THEN c ELSE entry[Key(c)]
       IN  /\ entry' = [entry EXCEPT ![Key(c)] = mutex]
           /\ mine' = [mine EXCEPT ![c] = mutex]
    /\ MoveTo(c, "joined")
    /\ UNCHANGED <<job, meta, sweep, dropped, queue, refs, pending, active, store>>

\* The first poll of lock_owned: the caller owns a free mutex, or waits in turn.
Enqueue(c) ==
    /\ at[c] = "joined"
    /\ queue' = [queue EXCEPT ![mine[c]] = Append(@, c)]
    /\ MoveTo(c, "queued")
    /\ UNCHANGED <<job, mine, meta, sweep, dropped, entry, refs, pending, active, store>>

\* A turn cleans up once itself and once more in ensure_session.
Acquire(c) ==
    /\ at[c] = "queued"
    /\ queue[mine[c]][1] = c
    /\ sweeps' = [sweeps EXCEPT ![c] = IF Kind(c) = "turn" THEN 2 ELSE 1]
    /\ MoveTo(c, "sweeping")
    /\ UNCHANGED <<job, mine, meta, todo, victim, dropped, registry, active, store>>

\* SessionActorGuard::drop gives the mutex to the next in line,
Unlock(c) ==
    /\ at[c] = "releasing"
    /\ \E i \in DOMAIN queue[mine[c]] :
          /\ queue[mine[c]][i] = c
          /\ queue' = [queue EXCEPT ![mine[c]] = Without(@, i)]
    /\ MoveTo(c, "released")
    /\ UNCHANGED <<job, mine, meta, sweep, dropped, entry, refs, pending, active, store>>

\* then takes the call out of the counts,
Uncount(c) ==
    /\ at[c] = "released"
    /\ CountOut(c)
    /\ mine' = [mine EXCEPT ![c] = None]
    /\ MoveTo(c, "uncounted")
    /\ UNCHANGED <<job, meta, sweep, dropped, entry, queue, active, store>>

\* Mutant: the entry is removed without a look at the counts.
MutRemoveEntry(c) ==
    /\ at[c] = "uncounted"
    /\ entry' = [entry EXCEPT ![Key(c)] = None]
    /\ MoveTo(c, "done")
    /\ UNCHANGED <<job, mine, meta, sweep, dropped, queue, refs, pending, active, store>>

\* and removes the entry when nobody is counted any more.
RemoveEntry(c) ==
    /\ at[c] = "uncounted"
    /\ entry' = [entry EXCEPT ![Key(c)] = IF refs[Key(c)] = 0 THEN None ELSE @]
    /\ MoveTo(c, "done")
    /\ UNCHANGED <<job, mine, meta, sweep, dropped, queue, refs, pending, active, store>>

-----------------------------------------------------------------------------
(* Before the queue *)

\* Every method but run_turn starts from a stored session.
LookUp(c) ==
    /\ at[c] = "idle"
    /\ Kind(c) \notin {"turn", "observe"}
    /\ MoveTo(c, IF store[Key(c)] = None THEN "done" ELSE "found")
    /\ UNCHANGED <<job, mine, meta, sweep, dropped, registry, active, store>>

\* get_status answers from the store while a turn runs or waits.
AnswerFromStore(c) ==
    /\ at[c] = "found"
    /\ Kind(c) = "status"
    /\ active[Key(c)] # None \/ pending[Key(c)] > 0
    /\ MoveTo(c, "done")
    /\ UNCHANGED <<job, mine, meta, sweep, dropped, registry, active, store>>

\* cancel and close see a turn: they abort it,
Abort(c) ==
    /\ at[c] = "found"
    /\ Kind(c) \in {"cancel", "close"}
    /\ active[Key(c)] # None
    /\ MoveTo(c, "signalled")
    /\ UNCHANGED <<job, mine, meta, sweep, dropped, registry, active, store>>

\* write back the metadata they looked up as Cancelling, and ask the backend.
MarkCancelling(c) ==
    /\ at[c] = "signalled"
    /\ Store(Key(c), "Cancelling")
    /\ MoveTo(c, "preempting")
    /\ UNCHANGED <<job, mine, meta, sweep, dropped, registry, active>>

CancelAccepted(c) ==
    /\ at[c] = "preempting"
    /\ MoveTo(c, IF Kind(c) = "close" THEN "preempted" ELSE "done")
    /\ UNCHANGED <<job, mine, meta, sweep, dropped, registry, active, store>>

CancelFailed(c) ==
    /\ at[c] = "preempting"
    /\ Store(Key(c), "Error")
    /\ MoveTo(c, "done")
    /\ UNCHANGED <<job, mine, meta, sweep, dropped, registry, active>>

-----------------------------------------------------------------------------
(* Idle cleanup *)

Observe(c) ==
    /\ at[c] = "idle"
    /\ Kind(c) = "observe"
    /\ sweeps' = [sweeps EXCEPT ![c] = 1]
    /\ MoveTo(c, "sweeping")
    /\ UNCHANGED <<job, mine, meta, todo, victim, dropped, registry, active, store>>

\* Lists the sessions; those that have been idle long enough and whose listed state
\* allows it are looked at in turn.
ListIdle(c) ==
    /\ at[c] = "sweeping"
    /\ \E idle \in SUBSET {k \in Sessions :
                              store[k] \notin {None, "Busy", "Cancelling", "Initializing"}} :
          todo' = [todo EXCEPT ![c] = idle]
    /\ MoveTo(c, "choosing")
    /\ UNCHANGED <<job, mine, meta, victim, sweeps, dropped, registry, active, store>>

\* The next session is passed over when a call is counted on it.  A turn is counted among
\* all calls before it is counted as pending, so where no call is, no turn is pending.
SkipSession(c) ==
    /\ at[c] = "choosing"
    /\ \E k \in todo[c] :
          /\ refs[k] > 0
          /\ todo' = [todo EXCEPT ![c] = @ \ {k}]
    /\ UNCHANGED <<job, at, mine, meta, victim, sweeps, dropped, registry, active, store>>

FindUncounted(c) ==
    /\ at[c] = "choosing"
    /\ \E k \in todo[c] :
          /\ refs[k] = 0
          /\ todo' = [todo EXCEPT ![c] = @ \ {k}]
          /\ victim' = [victim EXCEPT ![c] = k]
    /\ MoveTo(c, "checking")
    /\ UNCHANGED <<job, mine, meta, sweeps, dropped, registry, active, store>>

\* The other registries are looked at later: a turn may have come meanwhile, and is seen
\* or not; one that is active is seen.
SkipTurn(c) ==
    /\ at[c] = "checking"
    /\ pending[victim[c]] > 0 \/ active[victim[c]] # None
    /\ victim' = [victim EXCEPT ![c] = None]
    /\ MoveTo(c, "choosing")
    /\ UNCHANGED <<job, mine, meta, todo, sweeps, dropped, registry, active, store>>

CloseIdle(c) ==
    /\ at[c] = "checking"
    /\ active[victim[c]] = None
    /\ MoveTo(c, "evicting")
    /\ UNCHANGED <<job, mine, meta, sweep, dropped, registry, active, store>>

\* The backend closed the session, and the manager forgets it.
Evict(c) ==
    /\ at[c] = "evicting"
    /\ Store(victim[c], None)
    /\ victim' = [victim EXCEPT ![c] = None]
    /\ MoveTo(c, "choosing")
    /\ UNCHANGED <<job, mine, meta, todo, sweeps, dropped, registry, active>>

\* The backend could not, and the session is kept.
KeepIdle(c) ==
    /\ at[c] = "evicting"
    /\ victim' = [victim EXCEPT ![c] = None]
    /\ MoveTo(c, "choosing")
    /\ UNCHANGED <<job, mine, meta, todo, sweeps, dropped, registry, active, store>>

EndSweep(c) ==
    /\ at[c] = "choosing"
    /\ todo[c] = {}
    /\ sweeps' = [sweeps EXCEPT ![c] = @ - 1]
    /\ MoveTo(c, IF sweeps[c] > 1 THEN "sweeping"
                 ELSE IF Kind(c) = "observe" THEN "done" ELSE "swept")
    /\ UNCHANGED <<job, mine, meta, todo, victim, dropped, registry, active, store>>

-----------------------------------------------------------------------------
(* run_turn, behind the queue *)

\* ensure_session finds the session and touches it,
ReuseSession(c) ==
    /\ at[c] = "swept"
    /\ Kind(c) = "turn"
    /\ store[Key(c)] # None
    /\ MoveTo(c, "resolved")
    /\ UNCHANGED <<job, mine, meta, sweep, dropped, registry, active, store>>

\* or asks the backend for one when the manager does not track too many,
CreateSession(c) ==
    /\ at[c] = "swept"
    /\ Kind(c) = "turn"
    /\ store[Key(c)] = None
    /\ MoveTo(c, IF Cardinality({k \in Sessions : store[k] # None}) < Limit
                 THEN "creating" ELSE "releasing")
    /\ UNCHANGED <<job, mine, meta, sweep, dropped, registry, active, store>>

SessionCreated(c) ==
    /\ at[c] = "creating"
    /\ Store(Key(c), "Ready")
    /\ MoveTo(c, "resolved")
    /\ UNCHANGED <<job, mine, meta, sweep, dropped, registry, active>>

CreationFailed(c) ==
    /\ at[c] = "creating"
    /\ MoveTo(c, "releasing")
    /\ UNCHANGED <<job, mine, meta, sweep, dropped, registry, active, store>>

MarkBusy(c) ==
    /\ at[c] = "resolved"
    /\ Store(Key(c), "Busy")
    /\ MoveTo(c, "marked")
    /\ UNCHANGED <<job, mine, meta, sweep, dropped, registry, active>>

\* register_active_turn, and the backend is given the turn.
StartTurn(c) ==
    /\ at[c] = "marked"
    /\ active' = [active EXCEPT ![Key(c)] = c]
    /\ MoveTo(c, "running")
    /\ UNCHANGED <<job, mine, meta, sweep, dropped, registry, store>>

\* Mutant: clear_active_turn is left out.
MutTurnReturns(c) ==
    /\ at[c] = "running"
    /\ \E state \in Reported \cup {"Error"} : meta' = [meta EXCEPT ![c] = state]
    /\ MoveTo(c, "settling")
    /\ UNCHANGED <<job, mine, sweep, dropped, registry, active, store>>

\* The turn returned a result, with the state the backend reports, or an error:
\* clear_active_turn,
TurnReturns(c) ==
    /\ at[c] = "running"
    /\ \E state \in Reported \cup {"Error"} : meta' = [meta EXCEPT ![c] = state]
    /\ active' = [active EXCEPT ![Key(c)] = None]
    /\ MoveTo(c, "settling")
    /\ UNCHANGED <<job, mine, sweep, dropped, registry, store>>

\* and its state is stored.
SettleTurn(c) ==
    /\ at[c] = "settling"
    /\ Store(Key(c), meta[c])
    /\ meta' = [meta EXCEPT ![c] = None]
    /\ MoveTo(c, "releasing")
    /\ UNCHANGED <<job, mine, sweep, dropped, registry, active>>

-----------------------------------------------------------------------------
(* The other methods, behind the queue *)

\* The session is looked up again, and the backend is asked.  get_status still gives
\* way to a turn.
AskBackend(c) ==
    /\ at[c] = "swept"
    /\ Kind(c) # "turn"
    /\ IF \/ store[Key(c)] = None
          \/ Kind(c) = "status" /\ (active[Key(c)] # None \/ pending[Key(c)] > 0)
       THEN MoveTo(c, "releasing") /\ UNCHANGED meta
       ELSE MoveTo(c, "asking") /\ meta' = [meta EXCEPT ![c] = store[Key(c)]]
    /\ UNCHANGED <<job, mine, sweep, dropped, registry, active, store>>

\* The states an answer may leave in the store: set_mode and set_config_option write
\* back the state they read, get_status the reported one if there is one.
Answers(c) ==
    CASE Kind(c) = "control" -> {meta[c], "Error"}
      [] Kind(c) = "cancel" -> {"Cancelling", "Error"}
      [] Kind(c) = "status" -> Reported \cup {store[Key(c)], "Error"}
      [] OTHER -> {store[Key(c)]}

BackendAnswers(c) ==
    /\ at[c] = "asking"
    /\ \E state \in Answers(c) : Store(Key(c), state)
    /\ meta' = [meta EXCEPT ![c] = None]
    /\ MoveTo(c, "releasing")
    /\ UNCHANGED <<job, mine, sweep, dropped, registry, active>>

\* The backend closed the session: clear_active_turn,
BackendCloses(c) ==
    /\ at[c] = "asking"
    /\ Kind(c) = "close"
    /\ active' = [active EXCEPT ![Key(c)] = None]
    /\ meta' = [meta EXCEPT ![c] = None]
    /\ MoveTo(c, "closing")
    /\ UNCHANGED <<job, mine, sweep, dropped, registry, store>>

\* and the manager forgets it.
ForgetSession(c) ==
    /\ at[c] = "closing"
    /\ Store(Key(c), None)
    /\ MoveTo(c, "releasing")
    /\ UNCHANGED <<job, mine, meta, sweep, dropped, registry, active>>

-----------------------------------------------------------------------------
(* A caller drops its call *)

\* Mutant: a dropped waiter leaves the queue but not the counts.
MutDropWaiterCounted(c) ==
    /\ at[c] = "queued"
    /\ \E i \in DOMAIN queue[mine[c]] :
          /\ queue[mine[c]][i] = c
          /\ queue' = [queue EXCEPT ![mine[c]] = Without(@, i)]
    /\ mine' = [mine EXCEPT ![c] = None]
    /\ dropped' = dropped \cup {c}
    /\ MoveTo(c, "done")
    /\ UNCHANGED <<job, meta, sweep, entry, refs, pending, active, store>>

\* Mutant: a dropped waiter keeps its place in the queue.
MutDropWaiter(c) ==
    /\ at[c] = "queued"
    /\ CountOut(c)
    /\ mine' = [mine EXCEPT ![c] = None]
    /\ dropped' = dropped \cup {c}
    /\ MoveTo(c, "done")
    /\ UNCHANGED <<job, meta, sweep, entry, queue, active, store>>

\* A waiter leaves its place and its counts; it leaves the registry alone.
DropWaiter(c) ==
    /\ at[c] = "queued"
    /\ \E i \in DOMAIN queue[mine[c]] :
          /\ queue[mine[c]][i] = c
          /\ queue' = [queue EXCEPT ![mine[c]] = Without(@, i)]
    /\ CountOut(c)
    /\ mine' = [mine EXCEPT ![c] = None]
    /\ dropped' = dropped \cup {c}
    /\ MoveTo(c, "done")
    /\ UNCHANGED <<job, meta, sweep, entry, active, store>>

\* A call that awaits the backend drops its guard and nothing else.
DropCall(c) ==
    /\ at[c] \in Asleep \cup {"preempting"}
    /\ dropped' = dropped \cup {c}
    /\ meta' = [meta EXCEPT ![c] = None]
    /\ todo' = [todo EXCEPT ![c] = {}]
    /\ victim' = [victim EXCEPT ![c] = None]
    /\ MoveTo(c, IF HasGuard(c) THEN "releasing" ELSE "done")
    /\ UNCHANGED <<job, mine, sweeps, registry, active, store>>

-----------------------------------------------------------------------------

QueueStep(c) ==
    \/ Register(c) \/ Join(c) \/ Enqueue(c) \/ Acquire(c)
    \/ Unlock(c) \/ Uncount(c) \/ RemoveEntry(c)

PreemptStep(c) ==
    \/ AnswerFromStore(c) \/ Abort(c) \/ MarkCancelling(c)
    \/ CancelAccepted(c) \/ CancelFailed(c)

SweepStep(c) ==
    \/ ListIdle(c) \/ SkipSession(c) \/ FindUncounted(c) \/ SkipTurn(c) \/ CloseIdle(c)
    \/ Evict(c) \/ KeepIdle(c) \/ EndSweep(c)

TurnStep(c) ==
    \/ ReuseSession(c) \/ CreateSession(c) \/ SessionCreated(c) \/ CreationFailed(c)
    \/ MarkBusy(c) \/ StartTurn(c) \/ TurnReturns(c) \/ SettleTurn(c)

ControlStep(c) == AskBackend(c) \/ BackendAnswers(c) \/ BackendCloses(c) \/ ForgetSession(c)

Begin(c) == at[c] = "idle" /\ (LookUp(c) \/ Observe(c) \/ Register(c))
Step(c) ==
    /\ at[c] # "idle"
    /\ QueueStep(c) \/ PreemptStep(c) \/ SweepStep(c) \/ TurnStep(c) \/ ControlStep(c)

Next == \E c \in Calls : Begin(c) \/ Step(c) \/ DropWaiter(c) \/ DropCall(c)

Spec == Init /\ [][Next]_vars

\* The runtime polls every task that can go on, and the backend answers every request.
FairSpec == Spec /\ \A c \in Calls : WF_vars(Step(c))

-----------------------------------------------------------------------------
(* What the manager promises *)

TypeOK ==
    /\ job \in [Calls -> [kind: Kinds, key: Sessions]]
    /\ at \in [Calls -> Places]
    /\ mine \in [Calls -> Calls \cup {None}]
    /\ meta \in [Calls -> States \cup {None}]
    /\ todo \in [Calls -> SUBSET Sessions]
    /\ victim \in [Calls -> Sessions \cup {None}]
    /\ sweeps \in [Calls -> 0 .. 2]
    /\ dropped \subseteq Calls
    /\ entry \in [Sessions -> Calls \cup {None}]
    /\ queue \in [Calls -> Seq(Calls)]
    /\ refs \in [Sessions -> Nat]
    /\ pending \in [Sessions -> Nat]
    /\ active \in [Sessions -> Calls \cup {None}]
    /\ store \in [Sessions -> States \cup {None}]

\* Two calls never work on one session at the same time, turns, control requests and
\* closes alike, whatever mutexes the registry dropped and made in between
\* (manager.rs:151, manager_actor.rs:305).
OneCallPerSession ==
    \A c, d \in Calls : HasGuard(c) /\ HasGuard(d) /\ Key(c) = Key(d) => c = d

CountedOn(k) == {c \in Calls : at[c] \in Counted /\ Kind(c) # "observe" /\ Key(c) = k}
TurnsOn(k) == {c \in CountedOn(k) : Kind(c) = "turn"}

\* The counts are those of the calls that are in line or about to be: a dropped waiter
\* takes itself out once, and nobody is counted out twice (manager_actor.rs:83).
CountsAreExact ==
    \A k \in Sessions : /\ refs[k] = Cardinality(CountedOn(k))
                        /\ pending[k] = Cardinality(TurnsOn(k))

\* active_turns and a Busy state outlive a turn only when its caller dropped it, or when
\* the backend itself reports a session Busy (manager.rs:209).
OnlyDroppedTurnsLinger ==
    \A k \in Sessions :
        /\ active[k] # None => at[active[k]] = "running" \/ active[k] \in dropped
        /\ store[k] = "Busy" /\ "Busy" \notin Reported =>
              \E c \in Calls : /\ Kind(c) = "turn" /\ Key(c) = k
                               /\ at[c] \in {"marked", "running", "settling"} \/ c \in dropped

\* The registry of counted mutexes is one line per session: calls are served in the
\* order they came, and the mutex of a session is never replaced under its waiters.
LineOf == [k \in Sessions |-> IF entry[k] = None THEN <<>> ELSE queue[entry[k]]]
Line == INSTANCE SessionLine WITH line <- LineOf
ImplementsLine == Line!Spec

\* Every call returns, whichever others run, wait or are dropped (manager_actor.rs:133).
EveryCallReturns == \A c \in Calls : at[c] # "idle" ~> at[c] = "done"

\* "idle cleanup must not evict a session while set_mode is in flight" (manager.rs:2584):
\* a session leaves the store by cleanup only when no call works on it.
EvictionSparesCallsInFlight ==
    [][\A c \in Calls : Evict(c) => \A d \in Calls : HasGuard(d) => Key(d) # victim[c]]_vars
=============================================================================
