# A TLA+ verification of Loong

Loong is an agent runtime in Rust: a kernel that gates what agents may do, an
application layer (sessions, tools, channels, work queue), and a daemon with an HTTP
gateway. This directory models the parts of it whose correctness depends on the order of
steps, checks them with TLC on small instances and proves the most important results with
TLAPS for every instance. Paths below are relative to `crates/`.

Run a configuration with `tlc -config kernel_gate.cfg MCKernelGate` and a proof module
with `tlapm KernelGate_proofs.tla`. `PROJECT.json` maps every definition to the lines of
code it stands for. Documents are named from the root of the repository.

Contents: 1 inventory, 2 how a module reads, 3 kernel gate, 4 work units, 5 audit journal,
6 gateway events, 7 ACP sessions, 8 device pairing, 9 delegate children, 10 where code and
documents disagree, 11 proofs, 12 what the modelled components leave out, 13 plan.

## 1. Inventory

### Modelled

| Component | State | Operations | What is hard | What makes it correct |
|---|---|---|---|---|
| **Kernel gate** (`kernel/src/kernel.rs`, `policy.rs`, `policy_ext.rs`) | packs, generation counter and threshold (two atomics), revoked-token set (mutex), token sequence, audit sink | register a pack; issue, scope and revoke tokens; `revoke_generation`; authorize; execute a task, connector or plane call | every method takes `&self`, so calls interleave between the look-ups of one authorization; adapters are awaited and may be dropped; the sink may fail after the fact; `u64` generations wrap | nothing passes with a revoked token or beyond pack and token; answers and evidence agree |
| **Work-unit queue** (`app/src/work/repository.rs`) | SQLite rows of units and dependencies | create, update, archive, add and remove dependency, lease, heartbeat, mark running, complete, recover | leases outlive workers; completions, recoveries and operators cross; budgets and backoff; cycles closed by many small edits | leases match statuses, budgets hold, finished units stay so, dependencies stay acyclic |
| **Audit journal** (`kernel/src/audit.rs`) | a JSONL file, one mutex per process, one `flock` for all | open, record, verify, repair | several writers; a process or a write ends anywhere; early returns around the lock | the chain verifies; an `Ok` event stays; `record` returns |
| **ACP session manager** (`app/src/acp/manager.rs`, `manager_actor.rs`, `manager_sessions.rs`) | a registry of mutexes counted by references, pending and active turns, the stored session states | run a turn; set mode and options; cancel, close, status; observe, with the cleanup of idle sessions | a mutex leaves the registry while others come for it; callers drop calls at any await; cleanup awaits the backend after it looked | one call per session at a time, in order; counts match the calls; a dropped turn alone leaves traces |
| **Device pairing** (`app/src/control_plane.rs`, tables in `app/src/session/repository/persistence.rs`) | two tables; per registry the requests and approved devices in memory | load a registry, connect, approve, reject | a registry per gateway request beside the server's; decisions on what memory says; a commit followed by a failed read-back or a process end | the tables are one authority; memory is never ahead of them; nobody is let in beyond an approval |
| **Delegate children** (`app/src/session/repository/`, `app/src/operator/delegate_runtime.rs`, `app/src/tools/session.rs`, `app/src/conversation/`) | session rows with state and outcome; tasks and processes that run children; the announce queue | delegate, start, finish, recover a failed write; cancel, recover and continue by tools; announce | a timeout, an operator and the child finish one row at once; writes fail in the midst; processes end | finished rows stay finished, nobody runs a child twice at a time, a first run's outcome tells its end, only lost children linger |
| **Gateway events** (`daemon/src/gateway/event_bus.rs`, `api_events.rs`, `pairing_api.rs`, `pairing_runtime.rs`; leases in `app/src/control_plane.rs`) | sequence number, retained window, broadcast channel, acknowledgements, persisted snapshot | publish, poll, stream, acknowledge, persist, restart | replay meets live delivery; snapshots are taken piecewise; slow receivers lag; restarts from old snapshots | each client gets events in order and once, and the newest page without a hole |

The kernel records through an audit sink, `JsonlAuditSink` in production: `KernelGate`
keeps the sink as an environment that answers either way, and `AuditJournal` models it,
both against the same promise (`AuditLog`: an `Ok` answer means the event is on record).
`DevicePairing` decides who may connect, and its tokens are checked by the gateway whose
events `GatewayEvents` models; the two share no table and no lock. Delegate children and
device pairing keep their rows in one SQLite database, in tables of their own, so each is
modelled with its own transactions. The work queue and the ACP manager share no state
with the others.

### Not modelled so far

| Component | State and operations | What is hard | Correct when |
|---|---|---|---|
| Task supervision (`kernel/src/task_supervisor.rs`) | one task state machine around `execute_task` | the future may be dropped between transitions | every run ends Completed or Faulted |
| Challenges and turns (`app/src/control_plane.rs`) | nonces with an expiry; turns with their events | one removal under one lock | a nonce is used once |
| Gateway control surface (`daemon/src/gateway/control.rs`, `state.rs`, `lifecycle.rs`) | owner slot files, stop requests | several processes; stale owners | one owner at a time |
| Channel runtime (`app/src/channel/runtime/`) | exclusive runtime files, heartbeats, stop requests | killed owners; reclaim racing a slow owner | one live owner per account |
| Connector circuit breaker (`spec/src/spec_runtime/connector_circuit.rs`) | phase, failures, probes left | outcomes of calls admitted in an older phase | no call while open; probes bounded; closes on success |
| Multi-channel supervisor (`daemon/src/supervisor.rs`) | phase per surface and in all | failure and shutdown in any order | the first reason stays; stopped means all stopped |
| Approval requests (`app/src/tools/approval.rs`) | approval rows | two resolutions of one request | an approval is executed once |
| Provider failover (`app/src/provider/`) | cooldowns and health per profile | numeric policy over time | every usable candidate is tried |
| Agent mailbox (`kernel/src/mailbox.rs`) | queue, sequence, watch channel | a wait racing a send | no wake-up is lost |
| Turn engine, memory, tools, plugins, MCP, channel adapters, transports, servers, CLI | mostly data: prompts, SQL, manifests, foreign protocols, rendering | little of it depends on interleaving | see `PROJECT.json`, one entry for each |

## 2. How a module reads

A step is the code between two accesses to state another thread or process can change, so
what happens under one lock, in one SQLite transaction or on one atomic is one action.
Data that no guard reads is left out. The environment (adapters, policy extensions, clocks,
faults, clients) is a nondeterministic choice. Each component has a module (constants with
named assumptions, actions, properties), an `MC` module with the sets TLC needs, and a
`_proofs` module.

Definitions named `Mut...` are plausible bugs: each stands right before the definition it
is a defective form of, and no action uses it. `PROJECT.json` pairs every property with a
`Mut` that breaks it, which shows that the property depends on the code and that the
bounds reach the case.

## 3. Kernel gate: `KernelGate`

`Calls` are method calls on one shared `LoongKernel`. A call's `frame` is its arguments and
what it read on entry; its `stage` says where it is.

| Actions | Code |
|---|---|
| `RegisterPack` (only while no call is in flight: `&mut self`) | `register_pack` |
| `IssueToken`/`IssueRefused`, then `AnnounceToken` | `issue_token`, `issue_scoped_token`: the engine mints, then the sink is told; without its answer the caller gets no token |
| `RevokeToken`, `AnnounceRevocation` | `revoke_token`, of any id: also of one that no token carries yet |
| `RaiseThreshold`, `FastForward` | `revoke_generation`: `fetch_max` on the threshold, then on the counter |
| `BeginCall`/`RefuseCall` | `get_pack` and the pack-boundary assertions; a refusal records nothing |
| `CheckRevokedTokens`, `CheckPolicy` | `StaticPolicyEngine::authorize`: the revoked-token set first, the generation, pack, expiry and capabilities later, then the extension chain (any verdict) |
| `RecordDenial`, `AdapterReturns`, `DropCall`, `RecordDispatch`, `RecordPlaneInvocation` | the rest of `execute_*`: await, then evidence, each record with `?` |

Every record may fail, with or without the event in the sink (a `FanoutAuditSink` whose
second child fails). `barred` is history for one property: whether the token was revoked
when the call was made.

- **kernel_gate** - three calls, a broad and a narrow pack and a second manifest under the
  broad id, thresholds 0 and 1, a counter bound of 7 so that nothing wraps. What the gate
  lets through is justified by pack and token; success and denial are answered only with
  their evidence, and evidence is truthful; a revoked token never passes, revocation is
  final, and a token minted while no `revoke_generation` is half done is live. Three calls
  are enough for a token to be issued, revoked and used while another call mints.
- **kernel_invocation_evidence** - see section 10.

Bounds: `MaxGeneration` and `MaxTime` stand for `u64::MAX`; three calls cannot reach the
former, and the proofs cover the wrap, but for `FreshTokensLive`, which says so.
`RevocableIds` are the ids of the first two tokens, revoked before or after they are minted.
A call is made once, so the system stops when all are used: deadlock is not an error in
these runs. The calls are symmetric
and no liveness is checked, so symmetry is sound.

Observed in the model and deliberately outside the property: with a threshold equal to
`MaxGeneration` (`revoke_generation(u64::MAX)`) the next mint wraps to generation 0, which
is exempt from revocation, and the following ones are born revoked, up to the wrap.
The wrap is thus outside `FreshTokensAreLive`, whose theorem demands a counter below its
maximum and whose run has a bound of 7: the property would not catch it. Token ids are
sequential, so one may be revoked before it is given; that token is born revoked, and the
property leaves it out as well. `revoke_generation` records no audit event.

## 4. Work units: `WorkUnits`

Every operation is one transaction, so one action. What interleaves is whole operations of
workers and operators, each with its own `now_ms` (the caller's, so any time).

| Actions | Code |
|---|---|
| `CreateWorkUnit`, `UpdateWorkUnit`, `ArchiveWorkUnit` | the operations of those names, with `validate_manual_update_status` |
| `AddDependency`, `RemoveDependency` | with `would_create_dependency_cycle`, a recursive query: the least set closed under the edges (`Chain`) |
| `AcquireNextReadyLease` | `select_next_ready`: rank, then next run; later tie-breakers are left open |
| `MarkLeasedRunning`, `HeartbeatLease` | owner and status are compared, the expiry is not |
| `FinishWorkUnit`, `RetryWorkUnit` | `complete_work_unit` by disposition; `RetryDelay` doubles and clamps, `After` saturates |
| `RecoverExpiredLeases` | all expired rows in one transaction, or none when one backoff overflows |

`credit` is history: a cancelled unit was reopened by an operator since its last lease, the
one way to go over the budget.

- **work_units** - three units, so that a cycle may close through two older edges, one
  owner, times 0..2, two attempts each; two units with a backoff of 2, and one with a backoff
  of 3, which no storable time is, so that recovering its lease fails and keeps the others
  from being recovered: a row names an owner and an expiry exactly while leased
  or running; what may run again has attempts left; a completed or failed unit never comes
  back; dependencies stay acyclic. That some open unit is then not blocked is what users
  rely on; it follows from the last and is proved (`NoStandstill`).

The retry policy is each unit's own, given at its creation and never changed, so it is a
constant of the unit (`RetryPolicy`). `AttemptBound` = 2 caps the leases of all units
together, as an operator can reopen without end: two are enough to use up the attempts of
one unit and for an operator to reopen it over its budget, or for two units to be leased at
a time; the lease that follows such a reopening is left to the proof. `DueTimes` are the times callers ask for:
at once, or the end of the clock; others come from backoffs and completions. Deadlock is not an error: at the bound, all
units archived, nothing is left to do. Recovery runs only when someone calls it
(`daemon/src/work_unit_cli.rs`), so no fairness is assumed and no liveness is claimed:
an expired lease may stay for ever.

Known and not a property: neither heartbeat nor completion looks at the expiry, and
requests carry no `lease_version`, so a worker restarted under the same owner name acts on
the lease its successor took.

## 5. Audit journal: `AuditJournal`, `AuditLog`

The file is a sequence of decodable lines and the state of its end: `ended` by a newline,
`unended` (decodable, newline missing) or `garbage`. A hash is the sequence of the events
it covers, so SHA-256 is taken as injective. A record is one call of `record`:

`Call` - `LockMutex` - `LockFile` - `LoadTail` (or `FailToLoad`, which returns with the
file lock held) - `WriteLine` (or `TearWrite`, which leaves nothing, a part, or all but the
newline) - `UnlockFile` (or `FailToUnlock`).

`OpenSink` and `EndProcess` are `JsonlAuditSink::new` and the end of a process between any
two steps, which frees its lock. `lock` is owned by processes, as `flock(2)` on Linux has
it. `RepairJournal` runs only while no sink is open, as the comment of
`repair_jsonl_audit_journal` demands. `Faults` selects what the environment may do.

`AuditLog` is what a sink promises: a log that only grows by one event at a time, and an
`Ok` only for an event in it. `Log == INSTANCE AuditLog WITH log <- EventLog` is the
refinement: the decodable lines' events.

- **audit_journal** - two processes, one with two threads (both kinds of contention), four
  events on a fresh or legacy journal, process ends, and reads, writes and unlocks that
  fail: the chain verifies at every moment, the journal implements `AuditLog`, and a
  `record` waits for ever only for a file lock that an earlier record leaked
  (`OnlyLeaksBlock`, under `FairSpec`).
- **audit_unended_line**, **audit_lock_leak** - see section 10.

Fairness: weak fairness of each thread's next step, which a running operating system
gives. Neither the mutex nor `flock` is fair, and the model does not make them so: the
bound on events (`MaxEvents`) is what excludes a thread being overtaken for ever.
`MaxLegacy` = 1 covers the one boundary between unhashed and hashed lines. In the runs with
faults a garbage journal refuses to be opened and the system may stop: deadlock is not
an error there.

## 6. Gateway events: `GatewayEvents`

Publishers and request handlers are threads. Actions and code:

| Actions | Code |
|---|---|
| `Publish`, `Send` | `GatewayEventBus::publish`: number, retain and trim under the lock; broadcast after it |
| `SnapshotLeases`, `LoadNextSeq`, `CloneRecent`, `WriteState` | `persist_gateway_pairing_runtime_state`: three reads under three locks, then a file replaced by rename; a failed write is ignored by its callers |
| `PollAcknowledging`, `Poll`, `CheckWindow`, `Fetch` | `/v1/pairing/events` with its `stale_cursor` check; the acknowledged number is the client's word |
| `OpenStream`, `CheckStream`, `Subscribe`, `Replay`, `DeliverPending`, `Receive`, `Lag`, `Disconnect` | `/v1/pairing/stream`: subscribe, replay, then live with deduplication; a lagging receiver skips to the oldest record in the channel and replays |
| `Restart` | the process ends between any two steps and starts from the disk (`from_snapshot`, `restore_leases`) |

`got` and `history` are history: what a client was given, and what was published under
which number.

- **gateway_events** - one publisher, a client that polls and streams, four events for a
  window, a page and a channel of two, snapshots taken in the midst of publishing, writes
  that fail and one restart at any moment: the window is in order, no client gets an event
  twice or out of order, no restored acknowledgement is ahead of the events to come, and a
  stream that stays connected gets to the newest event sent, however it lags. As long as
  nothing restarted, whatever a client's cursor is past it was given, unless a page of
  newer events had been published: polls, stale cursors, replays, live events and lag join
  without a hole in the newest page (`NewestPageGiven`).

Why so small: a cursor is stale, and a receiver lags, with one event more than the window
or the channel holds; what a receiver missed when it lagged counts only once it has been
given an event after that, hence four; and the other hazards need one publication between
two steps of a request or between two reads of a snapshot. `MaxRestarts` = 1
suffices for a restart from a snapshot taken in the midst of publishing; the proofs cover
any number.

Fairness (`FairSpec`): weak fairness of `Send` (a publisher that retained an event goes on)
and of a connection's service (`ServeStream`, a task of the async runtime). A client may
disconnect at any time, so the property asks only about streams that stay.

`NewestPageGiven` cannot be said of older events, after a restart, or with two publishers.
The following orders were seen in counterexamples of stronger statements and are kept here
as knowledge about the code. Most share one root: a number alone does not identify an event
or its place in the channel.

- a page has the newest `limit` retained events, and the next cursor skips the older ones,
  though "clients must never be forced to infer replay safety from missing rows"
  (docs/product-specs/local-product-control-plane.md:89);
- the window is checked (`pairing_api.rs:341`) and read (`:349`) under two locks; events
  published in between push out promised ones;
- with two publishers, records can enter the channel out of order, as broadcasting happens
  after the lock (`event_bus.rs:158-159`); a live stream takes the late one for a
  repetition and skips it, which is why `NewestPageGiven` speaks of one publisher;
- a receiver that lags by more than the window loses what the window lost, without a
  `stale_cursor` answer (`api_events.rs:114`);
- an event broadcast but not yet persisted at a crash leaves its number to another event,
  which a client past that number takes for seen;
- two threads persist concurrently, and the older snapshot may be written last
  (`pairing_runtime.rs:41`): an acknowledgement may fall back after a restart.

## 7. ACP sessions: `AcpSessions`, `SessionLine`

A call is one call of a manager method by any task: a turn, a control request
(`set_mode`, `set_config_option`), cancel, close, status, or an observation. `at` says
where it is, `job` what it asks of which session.

| Actions | Code |
|---|---|
| `LookUp`, `AnswerFromStore`, `Abort`, `MarkCancelling`, `CancelAccepted`/`CancelFailed` | what a method does before it queues: `cancel` and `close` go past a running turn, `get_status` answers from the store while one runs |
| `Register`, `Join`, `Enqueue`, `Acquire` | `PendingSessionActorRegistration::new`, the entry of `session_actor_locks`, the first poll of `lock_owned`, and the mutex in its turn |
| `Unlock`, `Uncount`, `RemoveEntry` | `SessionActorGuard::drop`: three separate steps, between which others may come in |
| `Observe`, `ListIdle`, `SkipSession`/`FindUncounted`, `SkipTurn`/`CloseIdle`, `Evict`/`KeepIdle`, `EndSweep` | `cleanup_idle_sessions`, which looks at the counts of calls, then at the turns, awaits the backend, then removes |
| `ReuseSession`, `CreateSession`, `SessionCreated`/`CreationFailed`, `MarkBusy`, `StartTurn`, `TurnReturns`, `SettleTurn` | `run_turn` behind the queue |
| `AskBackend`, `BackendAnswers`, `BackendCloses`, `ForgetSession` | the other methods behind the queue; a close clears the active turn, then removes the session |
| `DropWaiter`, `DropCall` | the caller drops the future: while it waits for the mutex, or while it awaits the backend |

A tokio mutex is the sequence of its callers, the holder first, and is named after the
call that made it. The abstract `SessionLine` knows no mutexes, counts or registry: per
session there is one line, joined at its end, left from its head or, by who is dropped,
from any place. The refinement maps a session's line to the queue of the mutex that is in
the registry now; it would break if a mutex were replaced under its waiters.

- **acp_sessions** - a turn on one session, any call beside it on that session, and a
  third on that or another session, with a limit of one session so that creation is
  refused, too: one call per session, exact counts, the refinement; `active_turns` and a
  `Busy` state outlive a turn only when its caller dropped it (or, where `Reported` allows
  `Busy`, because the backend said so); every call that began returns.
- **acp_idle_eviction** - see section 10.

Bounds: two calls show every race for one mutex, the third makes the entry come and go
under a waiter; the third call on the first session is restricted to the methods that
write. Everyone has returned at the end, so deadlock is no error; that calls do return is
`EveryCallReturns`. Fairness (`FairSpec`): weak fairness of each call's own steps, once it
began: the runtime polls woken tasks and tokio's mutex is fair, which the queue models; it
also assumes that the backend answers every request. Dropping is never forced.

## 8. Device pairing: `DevicePairing`, `PairingLedger`

The server keeps one `ControlPlanePairingRegistry`, the gateway makes one per request
(`gateway_pairing_registry`), so a call's `reg` is a server or the call itself. Tables are
`rows` and `tokens`, what a registry knows is `memory`.

| Actions | Code |
|---|---|
| `Begin` | a device connects or an operator resolves, at a server that is up or through the gateway |
| `LoadRequests`, `LoadTokens` | `with_memory_config`: two reads by two statements |
| `DecideByToken`, `AskPairing`, `FindPending`, `OpenRequest`, `OpenUnconfirmed` | `evaluate_connect`: the approved devices under one lock, the requests under another |
| `ResolveUnknown`, `ResolveSettled`, `Approve`, `ApproveUnconfirmed`, `ApproveRefused`, `RememberApproval`, `Reject`, `RejectUnconfirmed` | `resolve_request`: the transaction, then memory; *unconfirmed* is a row that was written and could not be read back |
| `Fails`, `Crash` | a statement fails before it writes; a process ends with its registries and calls |

`PairingLedger` is the one authority the tables ought to be: a request is opened once and
resolved once, an approval issues one fresh token, and a device's valid token is that of
its latest approval. `old` is history: tokens already superseded when a connect began.

- **device_pairing** - a device that asks for less, then more, then less, two operators
  with either verdict, one server and the gateway, two calls at a time, and one fault
  anywhere: the tables implement the ledger; what any registry remembers is so in the
  tables; a device is let in only with token, key, role and scopes of an approved request;
  the gateway refuses a token that was replaced before the request came in.
- **pairing_rejection** - see section 10.

Bounds: `MaxBusy` = 2 calls under way and `MaxFaults` = 1; a stale registry, a second
approval in between and a lost answer all fit, and the proofs cover any number. In the run
a device's requests differ in their scopes alone; that key and role are kept too is shown by
`AuthorizedApproved`, for any of them. A server may take a superseded token until it starts again, because it loads once;
`SupersededTokensRefused` speaks of the gateway for that reason.

## 9. Delegate children: `DelegateSessions`

A child is a row (`state`, `outcome`), run in the parent's turn (*inline*), by a task of
the parent's process (*async*) or by a process of its own (*detached*). Operators are
callers of the session tools.

| Actions | Code |
|---|---|
| `Delegate`, `DelegateUnconfirmed` | the children are counted and the row inserted in one immediate transaction |
| `Start`, `StartSkipped`, `StartFails` | Ready to Running by compare-and-set, or a spawn failure |
| `TurnEnds`, `TurnLost`, `Finish`, `FinishFails` | the turn answers, fails or times out; state, event and outcome are written in one transaction if the row is still as expected |
| `RecordRecovery`, `RecordRecoveryFails`, `MarkFailed`, `MarkFails`, `RecordOutcome`, `RecordOutcomeFails` | the recovery of a failed write: the transaction again, then the state alone, then the outcome |
| `Look`, `ApplyCancel`, `ApplyRecover`, `BeginContinue`, `GiveUp` | the tools read a child, then change it by compare-and-set |
| `Announce`, `TakeBatch`, `FlushBatch`, `FlushFails`, `FinishBatch` | the debounced announce queue and the task that drains it |
| `Leave`, `LeaveFails`, `Drop`, `Crash` | the hook at the end, a dropped turn, a killed process |

- **delegate_sessions** - a child of any kind beside an inline one, limited to one active
  child, an operator who may cancel, recover and continue at any moment, dropped turns,
  and one fault with all its recovery: the state of a failed or timed-out row never
  changes again, and a first outcome stays until the child is continued; nobody runs a
  child twice at a time; the limit holds for first runs; a child that was not continued has
  no outcome before its end and then the one its state tells, and every finished child has
  some outcome; a child that is queued or runs has somebody at work on it unless its task
  was lost; queued results are taken to be announced.

Bounds: `MaxFaults` = 1 counts failures not caused by an earlier one, so a whole recovery
that fails again at every step fits in. Children are used once; operators go round for
ever. There is one operator in the run; that two who continue one child do not run it twice
is shown by the theorem `OneRunner`, for any number. Fairness is of `Announce` and of the draining task, which the parent's runtime
polls. For `TakeBatch` this assumes that results do not keep arriving within the debounce
time for ever. A child's own turn may never end, so nothing else is fair.

Observed and outside the properties: a continued child that does not answer gets the
outcome of its earlier run back (`tools/session.rs:966`), so its row says failed and its
outcome ok. Continuing a child keeps its old outcome while it
runs (`tools/session.rs:930`), and a child with an outcome counts as finished, so one that
is lost while it was continued can neither be cancelled nor recovered; it is not counted
against `max_active_children` either. A running child is told to stop by an event nothing
in it looks at. What a detached child queues for its parent is lost when its process ends
before the debounce time.

## 10. Where code and documents disagree

Each is a run that TLC must find violated; the property states the document's claim.

| Run | Claim | What the code does |
|---|---|---|
| kernel_invocation_evidence | "policy denials, token lifecycle events, and module invocations all emit structured audit events" (ARCHITECTURE.md:188) | an adapter that fails, or a call dropped while it awaits, leaves no event: the error is returned with `?` before any record |
| audit_unended_line | "Audit events are never silently dropped" (docs/RELIABILITY.md:85) | a line that lacks only its newline decodes as tail; the next record is appended behind it on that line, is answered `Ok`, and both are lost |
| audit_lock_leak | sinks "fail closed on write errors" (docs/RELIABILITY.md:85) | a tail that does not decode makes `record` return while it holds the file lock (audit.rs:669 to 673); records of other processes block for ever instead of failing |
| acp_idle_eviction | "idle cleanup must not evict a session while set_mode is in flight" (acp/manager.rs:2584) | cleanup looks at the counts, awaits the backend's close without a guard, then removes the session: a call that takes its queue meanwhile works on a session closed under it |
| pairing_rejection | `pairing_registry_rejects_request_without_issuing_device_token` (control_plane_tests.rs:546) | a rejection whose request another registry has approved changes no row, and nobody looks (control_plane.rs:1458): it is answered as rejected while the token is valid |

## 11. Proofs

| Theorem | Statement | Argument |
|---|---|---|
| `KernelGate_proofs!TypeCorrect` | `TypeOK` | inductive together with the step |
| `RevocationFinal` | revoked stays revoked | the revoked set and the threshold only grow (`RevocationsAccumulate`) |
| `RevocationHolds` | a call made with a revoked token is never let through | `GateInv`: a barred call is held before the adapter; past the look-up by id its token is revoked by generation, which the later check cannot miss, since revocations accumulate |
| `GrantsJustified`, `TokensBounded`, `AnswersRecorded`, `EvidenceTrue` | grants are within pack and token, tokens within their pack; answers have their evidence and evidence is true | `EvidenceInv`: for each call, the stages it can be in with its operation and with its adapter called (`Placed`), what the checks it passed have established (`Bounded`), and the events it must and must not have caused (`Told`). A call only adds events of its own, and packs are only added |
| `FreshTokensLive` | `FreshTokensAreLive`, as long as `generation < MaxGeneration` | `CounterCatchesUp`: whenever no `revoke_generation` is half done the counter has reached the threshold, so the next generation lies above it; the id was not revoked ahead of time, by hypothesis. At `u64::MAX` the next mint wraps to a revoked generation, hence the hypothesis |
| `WorkUnits_proofs!TypeCorrect`, `LeasesMatchStatus`, `RetryBudget` | the row invariants | `Rows`: one lemma per operation shows that the row it writes is in order (`RowOK`) |
| `FinishedStaysFinished` | finished units only move to the archive | case by case over the operations |
| `NoDependencyCycle`, `NoStandstill` | the graph is acyclic; some open unit is not blocked | `AcyclicExtended`: an edge whose source is not reachable from its target leaves an acyclic graph acyclic. Reachability is the least closed set, so no induction over paths is needed. `NoStandstill` applies acyclicity to the open units |
| `AuditJournal_proofs!TypeCorrect`, `ChainNeverBreaks` | the journal always verifies | `Inv`: who is past the mutex or the lock owns it; whoever read the hash under the lock still finds it at the tail |
| `JournalImplementsLog` | `Spec => Log!Spec`, assuming `"whole" \notin Faults` | `WholeLines` in addition: no line lacks its newline, so a written event is in the file when `Ok` is answered. audit_unended_line shows the assumption is needed |
| `AckedKept` | `AckedEventsKept`, assuming `"whole" \notin Faults` | corollary of the refinement: the log only grows, and what is acknowledged is in it (`AckedLogged`) |
| `LockNeverLeaks` | `~LockLeaked`, assuming `Faults \subseteq {"nothing"}` | `LockInUse`: the tail decodes, and whoever has the file lock has a record past it |
| `JournalNeverStandsStill` | while a record is under way and the file lock is not leaked, some record can go on, for any faults | `MutexInUse`: a mutex belongs to a live record of its process, so every chain of waiters ends at a record that has the file lock or finds it free |
| `GatewayEvents_proofs!TypeCorrect`, `WindowInOrder`, `DeliveredInOrderOnce` | window and deliveries are in order, each event once | one order: numbers grow along the window, its snapshots, what a client was given and what it has yet to replay, with its cursor between the last two |
| `RestoredNotAhead` | no restored acknowledgement is ahead of the events to come | `SavedCovers`: a snapshot's number covers its acknowledgements, because it is read after them and raised to them |
| `NothingLeftOut` | `NewestPageGiven` | `CalmInv`: without a restart and with one publisher, the window and the channel hold the last events without a hole (`WindowComplete`), and each client was given what comes up to some number, a page of newer events aside, with what it has yet to replay and its place in the channel going on from there (`NothingSkipped`). Stale cursors and lagging receivers start again at most a page behind |
| `StreamsCaughtUp` | a live stream with nothing to replay or receive is at the newest event sent; any publishers, lag and restarts | `SentRetained`: what is sent is no newer than the end of the window; `ReadPast`: what a stream has read past it was given or is about to replay |
| `AcpSessions_proofs!TypeCorrect`, `OneCall`, `CountsExact`, `OnlyDroppedLinger` | types; one call per session; counts equal the calls counted; only dropped turns linger | `LineInv`: whoever has a mutex has the one in its session's entry, is in its queue once, and owns it only at the head; the exact counts are part of the invariant, since an entry is removed at count zero and must then have no user. `TurnInv` says which copy of `Busy` can be written back |
| `RegistryImplementsLine` | `Spec => Line!Spec` | a step of a call changes the line of at most its own session: `Enqueue` joins, `Unlock` and `DropWaiter` leave, and an entry appears or goes only with an empty queue |
| `NobodyWaitsForTheGone` | the head of the queue a call waits in works on the same session or may take the mutex | `LineInv`: who is in a queue has its mutex, the one in its session's entry, and an entry belongs to one session |
| `DevicePairing_proofs!TypeCorrect`, `MemoryBacked`, `AuthorizedApproved`, `SupersededRefused` | types; memory is backed by the tables; who is let in | rows only grow (`RowsGrow`), so `Sound(m)`, that a registry's content is backed, survives every step once true. An approved row and its token name each other (`RowInv`); a token superseded when a connect began is in no registry loaded later (`OldInv`) |
| `TablesImplementLedger` | `Spec => Ledger!Spec` | the tables change in three ways only: one request opens, one pending request is approved by a call whose token is new, or one is rejected; a rejection that comes too late is a stutter |
| `RejectionStands` | `RejectedWithoutToken`, assuming `MaxFaults = 0` and that one server serves every call | `UpToDate`: the registry's requests are the rows, and a call that holds its lock has written what it is about to remember, so it cannot reject what was approved |
| `DelegateSessions_proofs!TypeCorrect`, `OneRunner`, `LimitHolds`, `OnlyLostLinger`, `OutcomesMatch` | one runner; the limit; who lingers; until a child is continued its outcome says its end, and every finished child has some outcome | `ActorOK` (what each actor may count on where it is), `RowOK`, `WorkedOn` (who is to take a queued child on, and who is to finish a running one) and `Alone` (no two turns, no two recoveries that have marked a row, on one child) |
| `FinishedStays` | the state of a failed or timed-out row stays, a completed row only runs again, the first outcome stays until the child is continued | every write of a row is conditional on the state it expects, which with `ActorOK` is never a finished one, but for the outcome of a row the same actor has marked |
| `ResultsAreDrained` | queued results have a task that drains them, and leave only when written or when the process is killed | a batch is out only while it is written, so taking the next one overwrites nothing, and the task ends only with an empty queue |

The proofs assume the modules' named `ASSUME`s (constants are numbers in range, the
sets are disjoint), which TLC evaluates in every run, and five theorems have a hypothesis
of their own, given in the table. All of it holds for any number of calls, units,
processes, threads, clients, events, sessions, registries, devices, children, operators
and faults.

`JournalImplementsLog`, `AckedKept`, `LockNeverLeaks` and `RejectionStands` delimit the
findings of section 10: they say under which conditions the documented claim does hold,
and so that nothing else breaks it. An acknowledged event is lost only through a write that
stopped right before its newline; the file lock leaks only through a torn line, a failed
read or a failed unlock; a rejection goes wrong only beside a second registry or after a
statement that failed. For the last each condition is needed: pairing_rejection shows the
first, and with one server and one fault TLC finds an approval that is committed but not
read back, after which the registry rejects a request that has a token.

Four theorems are the safety halves of liveness properties that are only model-checked:
`JournalNeverStandsStill` of `OnlyLeaksBlock`, `StreamsCaughtUp` of `StreamCatchesUp`,
`NobodyWaitsForTheGone` of `EveryCallReturns` and `ResultsAreDrained` of
`ResultsAreAnnounced`. They say for any number of actors that nobody waits for somebody who
is gone or stops too early; that who can go on does go on is the fairness TLC runs assume.

Only model-checked: the liveness properties `OnlyLeaksBlock`, `StreamCatchesUp`,
`EveryCallReturns` and `ResultsAreAnnounced`, since liveness under fairness, like
`ENABLED`, is beyond the prover; and the claims that the runs of section 10 refute. So are
inductions over data and recursive operators: `RetryDelay` is a recursive function whose
values no proof uses: its bound enters as the guard `Storable`. No module declares a
recursive operator.

## 12. What the modelled components leave out

- Kernel: adapter registration and the free-form `record_audit_event`; what policy
  extensions decide (an arbitrary verdict); namespaces.
- Work units: assignment, notes, the event log and text columns; `lease_version`, which no
  guard reads.
- Journal: verification by a reader that takes no lock and may meet half a line; repair
  with a sink open; hash collisions; platforms where locks differ from `flock(2)`; the
  answer to a poisoned mutex (`audit.rs:666`), which only a panic inside `record` could
  bring about. Each of `Processes` has one sink. A second sink in a process has a mutex and,
  as `flock(2)` belongs to an open file, a lock of its own: it behaves like a further
  element of `Processes` that ends together with the first.
- Gateway: challenges and sessions; expiry and revocation of leases; a stream
  without `after_seq`; the temporary file whose name two threads share within one
  millisecond (`state.rs:782`).
- ACP: `doctor`; session bindings, options and error texts; latency counters; the SQLite
  variant of the store. Whether a session was idle for its ttl is left open, and so is
  every answer of the backend. `CountIn`, `CountOut` update `actor_ref_counts` and
  `pending_turns` in one step; the code raises the first before the second and lowers it
  after, under two locks. A decision looks at one of them (`get_status` at the pending
  turns, the removal of a mutex at the references), or, in the cleanup, at the references
  first, which then settle it: none can take the half-done update for anything but the
  state before or after it. That two decisions of different calls may fall on different
  sides of it is left out. `DropWaiter` leaves the queue and the counts in one step.
- Pairing: the challenge and turn registries; timestamps; hashing of tokens (a hash stands
  for its token); clients of the server that are not devices.
- Delegates: the immediate flush of results (a debounce of 0) in the thread of the caller,
  which does what the draining task does, and the pause of the queue where no runtime is at
  hand, until the next result comes in; archiving, and the row it would take from under a
  continued child; the guard that refuses events for a parent session that has ended; the
  tree of sessions below children; approval requests; deadlines, which may have passed
  whenever an operator looks.

## 13. Plan

Done: the seven components above, in the order gate, queue, journal, gateway, ACP
sessions, pairing, delegates.

Next, in order of what depends on interleaving most:

1. `ChannelRuntime` - exclusive files with heartbeats and takeover over several processes
   (`channel/runtime/state.rs:577`): one live owner per account as long as heartbeats are
   in time. Abstract: a lease. Instance: two processes, one killed at any moment.
2. `TaskSupervisor` composed with `KernelGate` (one supervisor per call): a task ends
   exactly when its call has ended, except for the dropped future.
3. `ConnectorCircuit` - concurrent calls against the breaker: no admission while open,
   at most `half_open_max_calls` probes in one half-open period.
4. `SupervisorPhases`, approval requests, `Mailbox`.
5. An abstract gate (`Gate`: a call is granted only if its token was live when it was
   made) refined by `KernelGate`, and `KernelGate` with its sink instantiated by
   `AuditLog`.
6. Archiving in `DelegateSessions`, and with it the tree of sessions.

To prove next: that a call which passed the gate did so with a token that was live when it
was made, as a refinement of the abstract gate of item 5; which sessions an idle cleanup
may still take (the claim acp_idle_eviction refutes, delimited as the others are); and, as
the model grows, the same kind of statements for the modules of items 1 to 4. One run
answers the related questions of one instance, so each component has a single passing run.
