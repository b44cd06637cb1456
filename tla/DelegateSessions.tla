-------------------------- MODULE DelegateSessions --------------------------
(***************************************************************************)
(* The delegate children of one session: their rows in the session store,  *)
(* the tasks that run them (turn_coordinator/delegate.rs,                  *)
(* runtime_delegate.rs, operator/delegate_runtime.rs), the session tools   *)
(* that cancel, recover and continue them (tools/session) and the queue    *)
(* that announces their results to the parent (announce.rs).               *)
(*                                                                         *)
(* A child is run in the caller's own turn ("inline"), by a task of the    *)
(* same process ("async") or by a process of its own ("detached").  Every  *)
(* change of a row is one transaction that checks the state it starts      *)
(* from; a task keeps nothing else in step with the row.  A write may fail *)
(* before it is committed, or after it, when the row cannot be read back.  *)
(*                                                                         *)
(* Of an outcome the status is kept.  A deadline may have passed whenever  *)
(* an operator looks: it is counted in whole seconds of the store's clock, *)
(* the child's own timer in those of another.                              *)
(***************************************************************************)
EXTENDS Naturals, FiniteSets

CONSTANTS Children,   \* session ids delegation may use, each once
          Operators,  \* callers of the session tools, any number of times
          Modes,      \* how each child may be run
          MaxActive,  \* max_active_children
          MaxFaults,  \* crashes, and failures not caused by an earlier one
          Home,       \* the process of the parent, its tasks and the tools
          None

Actors == Children \cup Operators
Processes == {Home} \cup Children

Terminal == {"completed", "failed", "timed_out"}
States == {"none", "ready", "running"} \cup Terminal
Statuses == {"ok", "error", "timeout"}
EndStatus == [completed |-> "ok", failed |-> "error", timed_out |-> "timeout"]

ASSUME DelegateAssumption ==
    /\ Modes \in [Children -> SUBSET {"inline", "async", "detached"}]
    /\ MaxActive \in Nat
    /\ MaxFaults \in Nat
    /\ IsFiniteSet(Children)
    /\ Children \cap Operators = {}
    /\ Home \notin Children
    /\ None \notin Children \cup States \cup Statuses \cup {"spawn_failed"}

\* What an actor is doing about the child it is on: it has yet to finish its row, or has
\* done so, or has only looked at it.  From "ending" to "ended" nothing is awaited.
Working == {"queued", "running", "ending", "recovering", "marking", "recording"}
Plans == {"cancel", "recover", "continue"}
Places == Working \cup {"announcing", "ended"} \cup Plans \cup {"idle", "done"}

VARIABLES state,      \* sessions.state
          outcome,    \* the status of session_terminal_outcomes
          mode,       \* how the child's contract says it is run
          reopened,   \* children that were continued
          at, on,     \* what each actor is doing, and about which child
          known,      \* what it knows of it: the state it saw, then how its own turn ended
          pending,    \* results queued in the parent's process for the parent
          drain,      \* where the task that drains it is
          batch,      \* what that task has taken
          faults,     \* failures so far
          lost        \* children whose task, or whose writes, were lost

rows == <<state, outcome, mode, reopened>>
actors == <<at, on, known>>
queue == <<pending, drain, batch>>
vars == <<rows, actors, queue, faults, lost>>

Init ==
    /\ state = [k \in Children |-> "none"]
    /\ outcome = [k \in Children |-> None]
    /\ mode = [k \in Children |-> None]
    /\ reopened = {}
    /\ at = [a \in Actors |-> "idle"]
    /\ on = [a \in Actors |-> IF a \in Children THEN a ELSE None]
    /\ known = [a \in Actors |-> None]
    /\ pending = {}
    /\ drain = "none"
    /\ batch = {}
    /\ faults = 0
    /\ lost = {}

IsActive(k) == state[k] \in {"ready", "running"}
ActiveChildren == {k \in Children : IsActive(k)}
SpawnFailed(a) == known[a] = "spawn_failed"

\* The host that hears of a failed start is in the parent's process.
ProcessOf(a) == IF a \in Children /\ mode[a] = "detached" /\ ~SpawnFailed(a) THEN a ELSE Home

Rest(a) == IF a \in Operators THEN "idle" ELSE "done"

\* Who rests keeps nothing of what it did.
Goto(a, place) ==
    /\ at' = [at EXCEPT ![a] = place]
    /\ IF place = Rest(a)
       THEN /\ known' = [known EXCEPT ![a] = None]
            /\ on' = [on EXCEPT ![a] = IF a \in Operators THEN None ELSE a]
       ELSE UNCHANGED <<on, known>>

GotoKnowing(a, place, what) ==
    /\ at' = [at EXCEPT ![a] = place]
    /\ known' = [known EXCEPT ![a] = what]

SetState(k, s) == state' = [state EXCEPT ![k] = s]
SetOutcome(k, status) == outcome' = [outcome EXCEPT ![k] = status]

\* Something fails that may fail.
Fault == faults < MaxFaults /\ faults' = faults + 1
NoFault == UNCHANGED faults

\* A child that may keep its place in the store although nobody works on it.
Lose(k) == lost' = lost \cup {k}

-----------------------------------------------------------------------------
(* Delegation: the row, and the start of the turn *)

\* Mutant: the limit is off by one.
MutMayDelegate == Cardinality(ActiveChildren) <= MaxActive

\* The children are counted and the row inserted in one immediate transaction.
MayDelegate == Cardinality(ActiveChildren) < MaxActive

NewChild(k, m) ==
    /\ at[k] = "idle"
    /\ MayDelegate
    /\ mode' = [mode EXCEPT ![k] = m]
    /\ SetState(k, IF m = "inline" THEN "running" ELSE "ready")
    /\ UNCHANGED <<outcome, reopened, queue>>

Delegate(k, m) ==
    /\ NewChild(k, m)
    /\ Goto(k, IF m = "inline" THEN "running" ELSE "queued")
    /\ NoFault
    /\ UNCHANGED lost

\* The new row cannot be read back: the caller gives up, the row stays.
DelegateUnconfirmed(k, m) ==
    /\ NewChild(k, m)
    /\ Goto(k, "done")
    /\ Fault
    /\ Lose(k)

CanStart(k) == state[k] = "ready"

\* execute_async_delegate_spawn_request takes the child from Ready to Running.
Start(k) ==
    /\ at[k] = "queued"
    /\ CanStart(k)
    /\ SetState(k, "running")
    /\ Goto(k, "running")
    /\ NoFault
    /\ UNCHANGED <<outcome, mode, reopened, queue, lost>>

\* The task of an async child hears of every failure.  The host of a detached one waits
\* half a second for it; a process that fails later is not looked at again.
SpawnFails(k) ==
    /\ \/ GotoKnowing(k, "ending", "spawn_failed") /\ UNCHANGED <<on, lost>>
       \/ mode[k] = "detached" /\ Goto(k, "done") /\ Lose(k)
    /\ UNCHANGED <<rows, queue>>

\* The row was cancelled or recovered while the child was queued.
StartSkipped(k) ==
    /\ at[k] = "queued"
    /\ ~CanStart(k)
    /\ SpawnFails(k)
    /\ NoFault

\* The hook before the start fails, or the store cannot be opened or written.
StartFails(k) ==
    /\ at[k] = "queued"
    /\ SpawnFails(k)
    /\ Fault

-----------------------------------------------------------------------------
(* The turn, and what is written at its end *)

\* The child answers, fails or panics, or its timer runs out.
TurnEnds(a, end) ==
    /\ at[a] = "running"
    /\ GotoKnowing(a, "ending", end)
    /\ NoFault
    /\ UNCHANGED <<rows, on, queue, lost>>

\* Mutant: a spawn failure expects the child to be running.
MutExpected(a) == "running"

\* The state the last write starts from, and what it writes.
Expected(a) == IF SpawnFailed(a) THEN "ready" ELSE "running"
FinalState(a) == IF SpawnFailed(a) THEN "failed" ELSE known[a]

\* Mutant: the status of a turn that was timed out is the name of its state.
MutStatus(a) == IF known[a] = "completed" THEN "ok" ELSE FinalState(a)

Status(a) ==
    CASE known[a] = "completed" -> "ok"
      [] known[a] = "timed_out" -> "timeout"
      [] OTHER -> "error"

\* Mutant: the row is finished whatever state it is in.
MutIsCurrent(a) == state[on[a]] # "none"

IsCurrent(a) == state[on[a]] = Expected(a)

\* One transaction for the state, the event and the outcome.
WriteEnd(a, s, status) ==
    /\ SetState(on[a], s)
    /\ SetOutcome(on[a], status)
    /\ UNCHANGED <<mode, reopened>>

\* Where an actor goes on when the row could be finished only by the recovery, and when
\* it could not.  A failed turn is told to nobody; a failed start is, and when even the
\* recovery fails only the task of an async child still tells the parent.
GivesUp(a) == IF a \in Operators \/ SpawnFailed(a) THEN Rest(a) ELSE "ended"
AfterRecovery(a) == IF SpawnFailed(a) THEN "announcing" ELSE GivesUp(a)
AfterFailure(a) == IF SpawnFailed(a) /\ mode[a] = "async" THEN "announcing" ELSE GivesUp(a)

\* The store cannot be opened before the turn, or the turns of a child that answered
\* cannot be counted: nothing is written.
TurnLost(a) ==
    /\ at[a] = "running"
    /\ Goto(a, GivesUp(a))
    /\ Fault
    /\ Lose(on[a])
    /\ UNCHANGED <<rows, queue>>

\* finalize_terminal_if_current_allowing_stale_state: a row that moved on is left alone.
Finish(a) ==
    /\ at[a] = "ending"
    /\ IF IsCurrent(a) THEN WriteEnd(a, FinalState(a), Status(a)) ELSE UNCHANGED rows
    /\ Goto(a, "announcing")
    /\ NoFault
    /\ UNCHANGED <<queue, lost>>

\* The write fails, or it is made and cannot be read back.
FinishFails(a) ==
    /\ at[a] = "ending"
    /\ \/ UNCHANGED rows
       \/ IsCurrent(a) /\ WriteEnd(a, FinalState(a), Status(a))
    /\ Goto(a, "recovering")
    /\ Fault
    /\ UNCHANGED <<queue, lost>>

\* The recovery: the same transaction as a failure, then the state alone, then the
\* outcome.  A store that failed once may fail again.
RecordRecovery(a) ==
    /\ at[a] = "recovering"
    /\ IF IsCurrent(a)
       THEN WriteEnd(a, "failed", "error") /\ Goto(a, AfterRecovery(a))
       ELSE UNCHANGED rows /\ Goto(a, AfterFailure(a))
    /\ NoFault
    /\ UNCHANGED <<queue, lost>>

RecordRecoveryFails(a) ==
    /\ at[a] = "recovering"
    /\ \/ UNCHANGED rows
       \/ IsCurrent(a) /\ WriteEnd(a, "failed", "error")
    /\ Goto(a, "marking")
    /\ NoFault
    /\ UNCHANGED <<queue, lost>>

\* Mutant: the outcome of a row that was only marked is not written.
MutAfterMark(a) == AfterRecovery(a)

AfterMark(a) == "recording"

MarkFailed(a) ==
    /\ at[a] = "marking"
    /\ IF IsCurrent(a)
       THEN SetState(on[a], "failed") /\ Goto(a, AfterMark(a))
       ELSE UNCHANGED state /\ Goto(a, AfterFailure(a))
    /\ NoFault
    /\ UNCHANGED <<outcome, mode, reopened, queue, lost>>

MarkFails(a) ==
    /\ at[a] = "marking"
    /\ \/ UNCHANGED state
       \/ IsCurrent(a) /\ SetState(on[a], "failed")
    /\ Goto(a, AfterFailure(a))
    /\ NoFault
    /\ Lose(on[a])
    /\ UNCHANGED <<outcome, mode, reopened, queue>>

\* persist_recovery_terminal_outcome looks at no state.
RecordOutcome(a) ==
    /\ at[a] = "recording"
    /\ SetOutcome(on[a], "error")
    /\ Goto(a, AfterRecovery(a))
    /\ NoFault
    /\ UNCHANGED <<state, mode, reopened, queue, lost>>

\* It is not written, or it is and cannot be read back.
RecordOutcomeFails(a) ==
    /\ at[a] = "recording"
    /\ UNCHANGED outcome \/ SetOutcome(on[a], "error")
    /\ Goto(a, AfterFailure(a))
    /\ NoFault
    /\ Lose(on[a])
    /\ UNCHANGED <<state, mode, reopened, queue>>

\* The result is queued; the first of a queue starts the task that drains it.  What a
\* detached child queues is in its own process, which does not wait for it.
Announce(a) ==
    /\ at[a] = "announcing"
    /\ IF ProcessOf(a) = Home
       THEN /\ pending' = pending \cup {on[a]}
            /\ drain' = IF drain = "none" THEN "waiting" ELSE drain
            /\ UNCHANGED batch
       ELSE UNCHANGED queue
    /\ Goto(a, IF SpawnFailed(a) THEN "done" ELSE "ended")
    /\ NoFault
    /\ UNCHANGED <<rows, lost>>

\* The hook after the turn.  Before it, a continued child that did not answer gets the
\* outcome of its earlier run back, which was completed when it was continued.
Leave(a) ==
    /\ at[a] = "ended"
    /\ IF a \in Operators
       THEN IF known[a] # "completed" THEN SetOutcome(on[a], "ok") ELSE UNCHANGED outcome
       ELSE UNCHANGED outcome
    /\ Goto(a, Rest(a))
    /\ NoFault
    /\ UNCHANGED <<state, mode, reopened, queue, lost>>

\* A hook that fails makes the whole start a failure to whoever spawned the child.
LeaveFails(k) ==
    /\ at[k] = "ended"
    /\ mode[k] # "inline"
    /\ SpawnFails(k)
    /\ Fault

-----------------------------------------------------------------------------
(* The session tools *)

\* Mutant: a child that failed may be continued too.
MutCanContinue(k) == state[k] \in {"completed", "failed"}

CanContinue(k) == state[k] = "completed"

\* A child with an outcome counts as finished whatever its state.
CanInterrupt(k) == mode[k] # "inline" /\ outcome[k] = None /\ IsActive(k)

\* The tool reads the child, and decides what it may do.
Look(o, k, plan) ==
    /\ at[o] = "idle"
    /\ IF plan = "continue" THEN CanContinue(k) ELSE CanInterrupt(k)
    /\ on' = [on EXCEPT ![o] = k]
    /\ GotoKnowing(o, plan, state[k])
    /\ NoFault
    /\ UNCHANGED <<rows, queue, lost>>

AsSeen(o) == state[on[o]] = known[o]

\* A queued child is cancelled; a running one only gets an event that asks it to stop,
\* which nothing in it looks at.
ApplyCancel(o) ==
    /\ at[o] = "cancel"
    /\ IF AsSeen(o) /\ known[o] = "ready" THEN WriteEnd(o, "failed", "error") ELSE UNCHANGED rows
    /\ Goto(o, "idle")
    /\ NoFault
    /\ UNCHANGED <<queue, lost>>

\* An overdue child is recorded as failed, whoever still runs it.
ApplyRecover(o) ==
    /\ at[o] = "recover"
    /\ IF AsSeen(o) THEN WriteEnd(o, "failed", "error") ELSE UNCHANGED rows
    /\ Goto(o, "idle")
    /\ NoFault
    /\ UNCHANGED <<queue, lost>>

\* The child runs again, in the operator's own turn; its old outcome stays, and the
\* children are not counted.
BeginContinue(o) ==
    /\ at[o] = "continue"
    /\ AsSeen(o)
    /\ SetState(on[o], "running")
    /\ reopened' = reopened \cup {on[o]}
    /\ GotoKnowing(o, "running", None)
    /\ NoFault
    /\ UNCHANGED <<outcome, mode, on, queue, lost>>

\* The row is not as it was seen, or the tool fails before it writes.
GiveUp(o) ==
    /\ at[o] \in Plans
    /\ Goto(o, "idle")
    /\ NoFault
    /\ UNCHANGED <<rows, queue, lost>>

-----------------------------------------------------------------------------
(* Announcements *)

\* The debounce time has passed without a new result.
TakeBatch ==
    /\ drain = "waiting"
    /\ batch' = pending
    /\ pending' = {}
    /\ drain' = "flushing"
    /\ NoFault
    /\ UNCHANGED <<rows, actors, lost>>

\* One event names every child of the batch that has an outcome, those beyond
\* announce_max_batch by their id alone.
FlushBatch ==
    /\ drain = "flushing"
    /\ batch' = {}
    /\ drain' = "finishing"
    /\ NoFault
    /\ UNCHANGED <<rows, actors, pending, lost>>

\* A batch that could not be written goes back into the queue.
FlushFails ==
    /\ drain = "flushing"
    /\ pending' = pending \cup batch
    /\ batch' = {}
    /\ drain' = "finishing"
    /\ Fault
    /\ UNCHANGED <<rows, actors, lost>>

\* Mutant: what was queued while the batch was written is left behind.
MutNextDrain(left) == "none"

\* The queue goes when it is empty; what was queued meanwhile is drained by this task.
NextDrain(left) == IF left = {} THEN "none" ELSE "waiting"

FinishBatch ==
    /\ drain = "finishing"
    /\ drain' = NextDrain(pending)
    /\ NoFault
    /\ UNCHANGED <<rows, actors, pending, batch, lost>>

-----------------------------------------------------------------------------
(* What is lost *)

\* Those who run a child in a turn of the parent's.
InTurn == Operators \cup {k \in Children : mode[k] = "inline"}

\* A turn is dropped while it waits, with the child it runs or is about to start.
Drop(a) ==
    /\ \/ at[a] \in {"running", "ended"} /\ a \in InTurn
       \/ at[a] = "queued"
    /\ Goto(a, Rest(a))
    /\ NoFault
    /\ IF at[a] \in Working THEN Lose(on[a]) ELSE UNCHANGED lost
    /\ UNCHANGED <<rows, queue>>

\* A process is killed.
Crash(p) ==
    LET gone == {a \in Actors : at[a] \notin {"idle", "done"} /\ ProcessOf(a) = p} IN
    /\ gone # {}
    /\ at' = [a \in Actors |-> IF a \in gone THEN Rest(a) ELSE at[a]]
    /\ known' = [a \in Actors |-> IF a \in gone THEN None ELSE known[a]]
    /\ on' = [a \in Actors |-> IF a \in gone \cap Operators THEN None ELSE on[a]]
    /\ IF p = Home
       THEN pending' = {} /\ batch' = {} /\ drain' = "none"
       ELSE UNCHANGED queue
    /\ Fault
    /\ lost' = lost \cup {on[a] : a \in {b \in gone : at[b] \in Working}}
    /\ UNCHANGED rows

-----------------------------------------------------------------------------
StepOf(a) ==
    \/ \E end \in Terminal : TurnEnds(a, end)
    \/ TurnLost(a) \/ Finish(a) \/ FinishFails(a)
    \/ RecordRecovery(a) \/ RecordRecoveryFails(a)
    \/ MarkFailed(a) \/ MarkFails(a)
    \/ RecordOutcome(a) \/ RecordOutcomeFails(a)
    \/ Announce(a) \/ Leave(a) \/ Drop(a)

ChildStep(k) ==
    \/ \E m \in Modes[k] : Delegate(k, m) \/ DelegateUnconfirmed(k, m)
    \/ Start(k) \/ StartSkipped(k) \/ StartFails(k) \/ LeaveFails(k)

ToolStep(o) ==
    \/ \E k \in Children, plan \in Plans : Look(o, k, plan)
    \/ ApplyCancel(o) \/ ApplyRecover(o) \/ BeginContinue(o) \/ GiveUp(o)

DrainStep == TakeBatch \/ FlushBatch \/ FlushFails \/ FinishBatch

Next ==
    \/ \E a \in Actors : StepOf(a)
    \/ \E k \in Children : ChildStep(k)
    \/ \E o \in Operators : ToolStep(o)
    \/ DrainStep
    \/ \E p \in Processes : Crash(p)

\* The runtime goes on polling the tasks of the parent's process.
Fairness ==
    /\ \A a \in Actors : WF_vars(Announce(a))
    /\ WF_vars(TakeBatch) /\ WF_vars(FlushBatch) /\ WF_vars(FinishBatch)

Spec == Init /\ [][Next]_vars /\ Fairness

-----------------------------------------------------------------------------
TypeOK ==
    /\ state \in [Children -> States]
    /\ outcome \in [Children -> Statuses \cup {None}]
    /\ mode \in [Children -> {"inline", "async", "detached", None}]
    /\ reopened \subseteq Children
    /\ at \in [Actors -> Places]
    /\ on \in [Actors -> Children \cup {None}]
    /\ known \in [Actors -> States \cup {"spawn_failed", None}]
    /\ pending \subseteq Children
    /\ drain \in {"none", "waiting", "flushing", "finishing"}
    /\ batch \subseteq Children
    /\ faults \in 0..MaxFaults
    /\ lost \subseteq Children

\* However children, operators and recoveries race, a row that has failed or timed out
\* never changes its state again, one that has completed only starts to run again, and
\* the outcome a child got first stays as long as the child is not continued; of a child
\* that was it says nothing (persistence.rs:1320).
FinishedIsFinal ==
    [][\A k \in Children :
          /\ state[k] \in {"failed", "timed_out"} => state'[k] = state[k]
          /\ state[k] = "completed" => state'[k] \in {"completed", "running"}
          /\ outcome[k] # None /\ k \notin reopened' => outcome'[k] = outcome[k]]_vars

\* Nobody starts a child while another turn of it runs, whatever the operators have seen
\* before (tools/session.rs:930).
OneRunnerPerChild ==
    \A a, b \in Actors :
        at[a] = "running" /\ at[b] = "running" /\ on[a] = on[b] => a = b

\* The limit on active children holds for those that run for the first time, those that
\* nobody runs any more included (tree.rs:167).
FirstRunsWithinLimit == Cardinality(ActiveChildren \ reopened) <= MaxActive

\* A child that is queued or runs has somebody at work on it, unless a fault, a crash or
\* a dropped turn took its task away (delegate_support.rs:119).
OnlyLostChildrenLinger ==
    \A k \in Children : IsActive(k) /\ k \notin lost =>
        \E a \in Actors : on[a] = k /\ at[a] \in Working

\* A child without an end has no outcome, unless it was continued: the tools take an
\* outcome for an end, and could neither cancel nor recover it (mutations.rs:1187).
FirstRunsHaveNoOutcome ==
    \A k \in Children : IsActive(k) /\ k \notin reopened => outcome[k] = None

\* A child that is finished has an outcome, its own or an earlier run's, but for the moment
\* the recovery takes to write the state and the outcome one after the other.
FinishedHasOutcome ==
    \A k \in Children : state[k] \in Terminal /\ outcome[k] = None /\ k \notin lost =>
        \E a \in Actors : on[a] = k /\ at[a] = "recording"

\* The outcome of a child that was never continued says how its row ended: two actors, or
\* a write and its recovery, never leave the state of one and the outcome of the other.
OutcomeSaysTheEnd ==
    \A k \in Children \ reopened : state[k] \in Terminal /\ outcome[k] # None =>
        outcome[k] = EndStatus[state[k]]

\* Until a child is continued, its state and its outcome tell the same, through every
\* failure of a write and its recovery; a child that is finished has an outcome, also when
\* it was continued, but then it may be the one of its earlier run: a continued child that
\* does not answer gets that one back (delegate_runtime.rs:466, tools/session.rs:966).
OutcomesMatchStates == FirstRunsHaveNoOutcome /\ FinishedHasOutcome /\ OutcomeSaysTheEnd

\* A result that is queued in the parent's process is taken to be written, also when it
\* is queued while others are written, or was put back because that failed, unless the
\* process dies (announce.rs:180).
ResultsAreAnnounced ==
    \A k \in Children : k \in pending ~> k \in batch \/ k \notin pending

=============================================================================
