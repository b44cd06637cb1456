----------------------- MODULE DelegateSessions_proofs -----------------------
(***************************************************************************)
(* Proofs about DelegateSessions for every number of children, operators   *)
(* and faults and every limit: type correctness, one runner per child, the *)
(* limit on first runs, who is at work on a child that is not finished,    *)
(* that a finished row stays as it is, and that until a child is continued *)
(* its outcome says how it ended.                                          *)
(***************************************************************************)
EXTENDS DelegateSessions, FiniteSetTheorems, TLAPS

\* An actor whose turn runs the child, up to the write at its end.
Turning(a) == at[a] = "running" \/ (at[a] = "ending" /\ ~SpawnFailed(a))

\* What an actor may be doing, and what it may count on.
ActorOK(a) ==
    /\ a \in Children => on[a] = a /\ at[a] \notin Plans /\ (at[a] = "idle" => state[a] = "none")
    /\ a \in Operators =>
          /\ at[a] \notin {"queued", "done"} /\ ~SpawnFailed(a)
          /\ at[a] \notin Plans \cup {"idle"} => on[a] \in reopened
    /\ at[a] \notin {"idle", "done"} => on[a] \in Children /\ state[on[a]] # "none"
    /\ SpawnFailed(a) => at[a] \in {"ending", "recovering", "marking", "recording", "announcing"}
    /\ at[a] = "ending" => known[a] \in Terminal \cup {"spawn_failed"}
    /\ at[a] = "continue" => known[a] = "completed"
    /\ at[a] \in {"cancel", "recover"} => known[a] \in {"ready", "running"}
    /\ Turning(a) => state[on[a]] \in {"running", "failed"}
    /\ at[a] = "recording" =>
          state[on[a]] = "failed" /\ (outcome[on[a]] = None \/ on[a] \in reopened)

\* A row that was never continued has no outcome before its end, and then that of its end.
RowOK(k) ==
    /\ state[k] = "none" => outcome[k] = None
    /\ IsActive(k) /\ k \notin reopened => outcome[k] = None
    /\ state[k] \in Terminal /\ k \notin reopened /\ outcome[k] # None =>
          outcome[k] = EndStatus[state[k]]

\* Who is to take a queued child out of its queue, and who is to finish a running one.
Awaits(k) ==
    \/ at[k] = "queued"
    \/ SpawnFailed(k) /\ at[k] \in {"ending", "recovering", "marking"}
Runs(a) == ~SpawnFailed(a) /\ at[a] \in {"running", "ending", "recovering", "marking"}

\* Who is at work on a child that was not lost.
WorkedOn(k) ==
    k \notin lost =>
        /\ state[k] = "ready" => Awaits(k)
        /\ state[k] = "running" => \E a \in Actors : on[a] = k /\ Runs(a)
        /\ state[k] \in Terminal /\ outcome[k] = None =>
              \E a \in Actors : on[a] = k /\ at[a] = "recording"

\* Two turns, or two recoveries that have marked the row, are never on the same child.
Alone ==
    \A a, b \in Actors : on[a] = on[b] =>
        /\ Turning(a) /\ Turning(b) => a = b
        /\ at[a] = "recording" /\ at[b] = "recording" => a = b

\* The inductive invariant, next to TypeOK.
Inv ==
    /\ \A a \in Actors : ActorOK(a)
    /\ \A k \in Children : RowOK(k) /\ WorkedOn(k)
    /\ Alone
    /\ FirstRunsWithinLimit

\* What a step may not do to a finished row: the action of FinishedIsFinal.
KeepsFinished ==
    \A k \in Children :
        /\ state[k] \in {"failed", "timed_out"} => state'[k] = state[k]
        /\ state[k] = "completed" => state'[k] \in {"completed", "running"}
        /\ outcome[k] # None /\ k \notin reopened' => outcome'[k] = outcome[k]

-----------------------------------------------------------------------------
(* A step of one actor about one child *)

\* Nothing changes but the actor and the row.
Local(a, k) ==
    /\ \A b \in Actors \ {a} : at'[b] = at[b] /\ on'[b] = on[b] /\ known'[b] = known[b]
    /\ \A j \in Children \ {k} : state'[j] = state[j] /\ outcome'[j] = outcome[j]
    /\ reopened \subseteq reopened' /\ reopened' \subseteq reopened \cup {k}
    /\ lost \subseteq lost'
    /\ at[a] = "idle" \/ on[a] = k

\* How the row may change: not at all, to its end by who recovers it or by whose turn it
\* is, from one stage of its life to the next, or in its outcome alone.
RowStep(a, k) ==
    \/ state'[k] = state[k] /\ outcome'[k] = outcome[k]
    \/ IsActive(k) /\ state'[k] = "failed" /\ outcome'[k] \in {outcome[k], "error"}
    \/ /\ state[k] = "running" /\ Turning(a) /\ on[a] = k /\ state'[k] \in Terminal
       /\ outcome'[k] = EndStatus[state'[k]]
    \/ /\ state[k] = "none" /\ a = k /\ state'[k] \in {"ready", "running"}
       /\ outcome'[k] = outcome[k] /\ MayDelegate
    \/ state[k] = "ready" /\ state'[k] = "running" /\ outcome'[k] = outcome[k]
    \/ /\ state[k] = "completed" /\ state'[k] = "running" /\ k \in reopened'
       /\ outcome'[k] = outcome[k]
    \/ /\ state'[k] = state[k] /\ at[a] \notin {"idle", "done"}
       /\ k \in reopened \/ (at[a] = "recording" /\ outcome'[k] \in {outcome[k], "error"})

\* The outcome that goes with each end.
LEMMA EndStatusIs ==
    /\ EndStatus["completed"] = "ok"
    /\ EndStatus["failed"] = "error"
    /\ EndStatus["timed_out"] = "timeout"
  BY DEF EndStatus

\* Nobody takes up a turn, or the end of a recovery, that another may be in.
TakesOver(a, k) ==
    /\ Turning(a)' =>
          \/ Turning(a) /\ on'[a] = on[a]
          \/ on'[a] = k /\ state[k] \notin {"running", "failed"}
    /\ at'[a] = "recording" =>
          \/ at[a] = "recording" /\ on'[a] = on[a]
          \/ on'[a] = k /\ IsActive(k)

\* The others still are what they were.
LEMMA OthersKept ==
    ASSUME TypeOK, Inv, NEW a \in Actors, NEW k \in Children, Local(a, k), RowStep(a, k),
           NEW b \in Actors, b # a
    PROVE  ActorOK(b)'
<1>1. /\ at'[b] = at[b] /\ on'[b] = on[b] /\ known'[b] = known[b] /\ ActorOK(b)
      /\ SpawnFailed(b)' = SpawnFailed(b) /\ Turning(b)' = Turning(b)
  BY DEF Local, Inv, SpawnFailed, Turning
<1>2. \A j \in Children \ {k} : state'[j] = state[j] /\ outcome'[j] = outcome[j]
  BY DEF Local
<1>3. CASE on[b] # k
  <2>1. at[b] \notin {"idle", "done"} => state'[on[b]] = state[on[b]] /\ outcome'[on[b]] = outcome[on[b]]
    BY <1>1, <1>2, <1>3 DEF ActorOK
  <2>2. b \in Children => state'[b] = state[b]
    BY <1>1, <1>2, <1>3 DEF ActorOK
  <2>3. at[b] = "recording" \/ Turning(b) => at[b] \notin {"idle", "done"}
    BY DEF Turning
  <2>. QED BY <1>1, <2>1, <2>2, <2>3 DEF ActorOK, Local
<1>4. CASE on[b] = k
  <2>1. state[k] # "none" => state'[k] # "none"
    BY DEF RowStep, Terminal
  <2>2. b \in Children /\ state[k] = "none" => state'[k] = "none"
    BY <1>1, <1>4 DEF RowStep, ActorOK, IsActive
  <2>3. Turning(b) => state'[k] \in {"running", "failed"}
    BY <1>1, <1>4 DEF RowStep, ActorOK, Inv, Alone
  <2>4. at[b] = "recording" => state'[k] = "failed"
    BY <1>1, <1>4 DEF RowStep, ActorOK, IsActive
  <2>5. at[b] = "recording" => outcome'[k] = None \/ k \in reopened'
    <3>1. at[b] = "recording" /\ at[a] = "recording" => on[a] # k
      BY <1>4 DEF Inv, Alone
    <3>2. at[b] = "recording" => outcome[k] = None \/ k \in reopened
      BY <1>1, <1>4 DEF ActorOK
    <3>. QED BY <1>1, <1>4, <3>1, <3>2 DEF RowStep, ActorOK, IsActive, Local
  <2>. QED BY <1>1, <1>4, <2>1, <2>2, <2>3, <2>4, <2>5 DEF ActorOK, Local
<1>. QED BY <1>3, <1>4

\* The rows stay in order, and finished ones as they are.
LEMMA RowsKept ==
    ASSUME TypeOK, Inv, NEW a \in Actors, NEW k \in Children, Local(a, k), RowStep(a, k)
    PROVE  /\ \A j \in Children : RowOK(j)'
           /\ KeepsFinished
<1>1. ASSUME NEW j \in Children, j # k
      PROVE  /\ RowOK(j)' /\ state'[j] = state[j] /\ outcome'[j] = outcome[j]
  BY <1>1 DEF Local, RowOK, Inv, IsActive
<1>2. at[a] = "recording" => state[k] = "failed" /\ (outcome[k] = None \/ k \in reopened)
  BY DEF Inv, ActorOK, Local
<1>3. /\ RowOK(k) /\ (at[a] \notin {"idle", "done"} => state[k] # "none")
      /\ (k \in reopened => k \in reopened')
  BY DEF Inv, ActorOK, Local
<1>4. RowOK(k)'
  BY <1>2, <1>3, EndStatusIs DEF RowStep, RowOK, IsActive, Terminal
<1>5. /\ state[k] \in {"failed", "timed_out"} => state'[k] = state[k]
      /\ state[k] = "completed" => state'[k] \in {"completed", "running"}
  BY DEF RowStep, IsActive
<1>6. outcome[k] # None /\ k \notin reopened' => outcome'[k] = outcome[k]
  BY <1>2, <1>3 DEF RowStep, RowOK, IsActive
<1>. QED BY <1>1, <1>4, <1>5, <1>6 DEF KeepsFinished

\* Only a delegation adds to the first runs, and it has counted the active children.
LEMMA LimitKept ==
    ASSUME TypeOK, Inv, NEW a \in Actors, NEW k \in Children, Local(a, k), RowStep(a, k)
    PROVE  FirstRunsWithinLimit'
<1>. DEFINE F == ActiveChildren \ reopened
            G == (ActiveChildren \ reopened)'
<1>1. /\ IsFiniteSet(F) /\ IsFiniteSet(ActiveChildren) /\ IsFiniteSet(G)
      /\ F \subseteq ActiveChildren
  BY FS_Subset, DelegateAssumption DEF ActiveChildren
<1>2. /\ Cardinality(F) \in Nat /\ Cardinality(ActiveChildren) \in Nat
      /\ Cardinality(G) \in Nat /\ MaxActive \in Nat
  BY <1>1, FS_CardinalityType, DelegateAssumption
<1>3. CASE MayDelegate /\ state[k] = "none"
  <2>1. G \subseteq ActiveChildren \cup {k} /\ k \notin ActiveChildren
    BY <1>3 DEF ActiveChildren, IsActive, Local
  <2>2. Cardinality(ActiveChildren \cup {k}) = Cardinality(ActiveChildren) + 1
    BY <1>1, <2>1, FS_AddElement
  <2>3. IsFiniteSet(ActiveChildren \cup {k})
    BY <1>1, FS_AddElement
  <2>4. Cardinality(G) <= Cardinality(ActiveChildren \cup {k})
    BY <2>1, <2>3, FS_Subset
  <2>5. Cardinality(ActiveChildren) < MaxActive
    BY <1>3 DEF MayDelegate
  <2>6. Cardinality(ActiveChildren \cup {k}) \in Nat
    BY <2>3, FS_CardinalityType
  <2>7. Cardinality(G) <= MaxActive
    BY <1>2, <2>2, <2>4, <2>5, <2>6
  <2>. QED BY <2>7 DEF FirstRunsWithinLimit
<1>4. CASE ~(MayDelegate /\ state[k] = "none")
  <2>1. IsActive(k)' /\ k \notin reopened' => IsActive(k) /\ k \notin reopened
    BY <1>4 DEF RowStep, IsActive, Terminal, Local
  <2>2. G \subseteq F
    BY <2>1 DEF ActiveChildren, IsActive, Local
  <2>3. Cardinality(G) <= Cardinality(F)
    BY <1>1, <2>2, FS_Subset
  <2>4. Cardinality(F) <= MaxActive
    BY DEF Inv, FirstRunsWithinLimit
  <2>. HIDE DEF F, G
  <2>5. Cardinality(G) <= MaxActive
    BY <1>2, <2>3, <2>4
  <2>. QED BY <2>5 DEF FirstRunsWithinLimit, G
<1>. QED BY <1>3, <1>4

\* Who works on another child goes on.
LEMMA WorkKept ==
    ASSUME TypeOK, Inv, NEW a \in Actors, NEW k \in Children, Local(a, k),
           NEW j \in Children, j # k
    PROVE  WorkedOn(j)'
<1>1. /\ state'[j] = state[j] /\ outcome'[j] = outcome[j] /\ WorkedOn(j)
      /\ j \notin lost' => j \notin lost
  BY DEF Local, Inv
<1>2. ASSUME NEW b \in Actors, on[b] = j, at[b] # "idle"
      PROVE  on'[b] = j /\ at'[b] = at[b] /\ known'[b] = known[b]
  BY <1>2 DEF Local
<1>3. on[j] = j /\ j \in Actors
  BY DEF Inv, ActorOK, Actors
<1>. QED BY <1>1, <1>2, <1>3 DEF WorkedOn, Awaits, Runs, SpawnFailed

\* A step of one actor about one child keeps the invariant.
LEMMA StepKeeps ==
    ASSUME TypeOK, Inv, NEW a \in Actors, NEW k \in Children, Local(a, k), RowStep(a, k),
           TakesOver(a, k), ActorOK(a)', WorkedOn(k)'
    PROVE  Inv' /\ KeepsFinished
<1>1. \A b \in Actors : ActorOK(b)'
  BY OthersKept
<1>2. (\A j \in Children : RowOK(j)') /\ KeepsFinished
  BY RowsKept
<1>3. \A j \in Children : WorkedOn(j)'
  BY WorkKept
<1>4. FirstRunsWithinLimit'
  BY LimitKept
<1>5. Alone'
  <2>1. ASSUME NEW b \in Actors, b # a, on'[b] = on'[a] PROVE ~(Turning(a)' /\ Turning(b)')
    <3>1. on'[b] = on[b] /\ Turning(b)' = Turning(b)
      BY <2>1 DEF Local, Turning, SpawnFailed
    <3>. QED BY <2>1, <3>1 DEF TakesOver, Inv, Alone, ActorOK
  <2>2. ASSUME NEW b \in Actors, b # a, on'[b] = on'[a]
        PROVE  ~(at'[a] = "recording" /\ at'[b] = "recording")
    <3>1. on'[b] = on[b] /\ at'[b] = at[b]
      BY <2>2 DEF Local
    <3>. QED BY <2>2, <3>1 DEF TakesOver, Inv, Alone, ActorOK, IsActive
  <2>3. ASSUME NEW b \in Actors, NEW c \in Actors, b # a, c # a, b # c, on'[b] = on'[c]
        PROVE  ~(Turning(b)' /\ Turning(c)') /\ ~(at'[b] = "recording" /\ at'[c] = "recording")
    BY <2>3 DEF Local, Inv, Alone, Turning, SpawnFailed
  <2>. QED BY <2>1, <2>2, <2>3 DEF Alone
<1>. QED BY <1>1, <1>2, <1>3, <1>4, <1>5 DEF Inv

-----------------------------------------------------------------------------
(* What the steps have in common *)

\* Where a Goto leaves the actors.
LEMMA GotoIs ==
    ASSUME TypeOK, NEW a \in Actors, NEW place \in Places, Goto(a, place)
    PROVE  /\ at' \in [Actors -> Places] /\ on' \in [Actors -> Children \cup {None}]
           /\ known' \in [Actors -> States \cup {"spawn_failed", None}]
           /\ at'[a] = place
           /\ place = Rest(a) => known'[a] = None /\ on'[a] = IF a \in Operators THEN None ELSE a
           /\ place # Rest(a) => on' = on /\ known' = known
           /\ \A b \in Actors \ {a} : at'[b] = at[b] /\ on'[b] = on[b] /\ known'[b] = known[b]
  BY DEF TypeOK, Goto, Actors

\* Where a GotoKnowing does.
LEMMA GotoKnowingIs ==
    ASSUME TypeOK, NEW a \in Actors, NEW place \in Places,
           NEW what \in States \cup {"spawn_failed", None}, GotoKnowing(a, place, what)
    PROVE  /\ at' \in [Actors -> Places]
           /\ known' \in [Actors -> States \cup {"spawn_failed", None}]
           /\ at'[a] = place /\ known'[a] = what
           /\ \A b \in Actors \ {a} : at'[b] = at[b] /\ known'[b] = known[b]
  BY DEF TypeOK, GotoKnowing

\* Where a write leaves the rows.
LEMMA WriteEndIs ==
    ASSUME TypeOK, NEW a \in Actors, on[a] \in Children, NEW s \in Terminal,
           NEW status \in Statuses, WriteEnd(a, s, status)
    PROVE  /\ state' \in [Children -> States]
           /\ outcome' \in [Children -> Statuses \cup {None}]
           /\ mode' = mode /\ reopened' = reopened
           /\ state'[on[a]] = s /\ outcome'[on[a]] = status /\ status # None
           /\ \A j \in Children \ {on[a]} : state'[j] = state[j] /\ outcome'[j] = outcome[j]
  BY DelegateAssumption DEF TypeOK, WriteEnd, SetState, SetOutcome, States

\* An actor at work is on a child that was delegated, and does not rest.
LEMMA AtWork ==
    ASSUME TypeOK, Inv, NEW a \in Actors, at[a] \in Working \cup Plans \cup {"announcing", "ended"}
    PROVE  /\ on[a] \in Children /\ state[on[a]] # "none" /\ at[a] \notin {"idle", "done"}
           /\ Rest(a) \in {"idle", "done"} /\ Rest(a) \in Places
           /\ a \in Operators => a \notin Children /\ Rest(a) = "idle"
           /\ a \notin Operators => a \in Children /\ Rest(a) = "done"
<1>1. at[a] \notin {"idle", "done"}
  BY DEF Working, Plans
<1>. QED BY <1>1, DelegateAssumption DEF Inv, ActorOK, Rest, Actors, Places

\* The work on a row that stays as it is goes on when the actor stays at it, or when its
\* child is lost.
LEMMA WorkStays ==
    ASSUME TypeOK, Inv, NEW a \in Actors, NEW k \in Children, Local(a, k),
           state'[k] = state[k], outcome'[k] = outcome[k] \/ outcome'[k] # None,
           a = k /\ state[k] = "ready" /\ Awaits(a) => k \in lost' \/ Awaits(a)',
           state[k] = "running" /\ on[a] = k /\ Runs(a) => k \in lost' \/ (on'[a] = k /\ Runs(a)'),
           at[a] = "recording" => k \in lost'
    PROVE  WorkedOn(k)'
<1>. SUFFICES ASSUME k \notin lost' PROVE WorkedOn(k)'
  BY DEF WorkedOn
<1>1. WorkedOn(k) /\ k \notin lost /\ k \in Actors
  BY DEF Inv, Local, Actors
<1>2. state[k] = "ready" => Awaits(k)'
  <2>1. a # k => Awaits(k)' = Awaits(k)
    BY <1>1 DEF Local, Awaits, SpawnFailed
  <2>. QED BY <1>1, <2>1 DEF WorkedOn
<1>3. ASSUME state[k] = "running" PROVE \E b \in Actors : on'[b] = k /\ Runs(b)'
  <2>1. PICK b \in Actors : on[b] = k /\ Runs(b)
    BY <1>1, <1>3 DEF WorkedOn
  <2>2. b # a => on'[b] = on[b] /\ Runs(b)' = Runs(b)
    BY DEF Local, Runs, SpawnFailed
  <2>. QED BY <1>3, <2>1, <2>2
<1>4. ASSUME state[k] \in Terminal, outcome'[k] = None
      PROVE  \E b \in Actors : on'[b] = k /\ at'[b] = "recording"
  <2>1. PICK b \in Actors : on[b] = k /\ at[b] = "recording"
    BY <1>1, <1>4 DEF WorkedOn
  <2>2. b # a
    BY <2>1
  <2>. QED BY <2>1, <2>2 DEF Local
<1>. QED BY <1>2, <1>3, <1>4 DEF WorkedOn

\* An actor that goes on from its work to a place where it no longer turns the child.
LEMMA MovesOn ==
    ASSUME TypeOK, Inv, NEW a \in Actors, at[a] \in Working \cup Plans \cup {"announcing", "ended"},
           NEW k \in Children, on[a] = k,
           NEW place \in {"recovering", "marking", "announcing", "ended", Rest(a)},
           Goto(a, place), place = "ended" => ~SpawnFailed(a),
           at[a] \in Plans => place = Rest(a),
           Local(a, k), RowStep(a, k), WorkedOn(k)'
    PROVE  Inv' /\ KeepsFinished
<1>1. /\ k \in Children /\ state[k] # "none" /\ place \in Places
      /\ Rest(a) \in {"idle", "done"}
      /\ a \in Operators => a \notin Children /\ Rest(a) = "idle"
      /\ a \notin Operators => a \in Children /\ Rest(a) = "done"
  BY AtWork DEF Places, Working
<1>2. /\ at'[a] = place
      /\ place = Rest(a) => known'[a] = None /\ on'[a] = IF a \in Operators THEN None ELSE a
      /\ place # Rest(a) => on'[a] = k /\ known'[a] = known[a]
  BY <1>1, GotoIs
<1>3. state'[k] # "none"
  BY <1>1 DEF RowStep, Terminal
<1>4. ActorOK(a)'
  <2>1. CASE place = Rest(a)
    BY <1>1, <1>2, <2>1, DelegateAssumption DEF ActorOK, Plans, Turning, SpawnFailed
  <2>2. CASE place # Rest(a)
    <3>1. place \in {"recovering", "marking", "announcing", "ended"} /\ at[a] \notin Plans \cup {"idle"}
      BY <2>2 DEF Working, Plans
    <3>2. ActorOK(a)
      BY DEF Inv
    <3>. QED BY <1>1, <1>2, <1>3, <2>2, <3>1, <3>2 DEF ActorOK, Plans, Turning, SpawnFailed, Local
  <2>. QED BY <2>1, <2>2
<1>5. TakesOver(a, k)
  BY <1>1, <1>2 DEF TakesOver, Turning
<1>. QED BY <1>1, <1>4, <1>5, StepKeeps

-----------------------------------------------------------------------------
(* Delegation and the start *)

\* A delegation, whether or not its row could be read back.
LEMMA NewChildStep ==
    ASSUME TypeOK, Inv, NEW k \in Children, NEW m \in Modes[k],
           Delegate(k, m) \/ DelegateUnconfirmed(k, m)
    PROVE  TypeOK' /\ Inv' /\ KeepsFinished
<1>1. /\ k \in Actors /\ on[k] = k /\ at[k] = "idle" /\ state[k] = "none" /\ Rest(k) = "done"
      /\ k \notin Operators /\ outcome[k] = None /\ m \in {"inline", "async", "detached"}
  BY DelegateAssumption DEF Actors, Delegate, DelegateUnconfirmed, NewChild, Inv, ActorOK,
     RowOK, Rest
<1>2. PICK place \in {"running", "queued", "done"} :
        /\ Goto(k, place)
        /\ place = "running" => m = "inline"
        /\ place = "queued" => m # "inline"
        /\ place = "done" => k \in lost'
  BY DEF Delegate, DelegateUnconfirmed, Lose
<1>3. /\ at' \in [Actors -> Places] /\ on' \in [Actors -> Children \cup {None}]
      /\ known' \in [Actors -> States \cup {"spawn_failed", None}]
      /\ at'[k] = place /\ on'[k] = k /\ known'[k] # "spawn_failed"
      /\ \A b \in Actors \ {k} : at'[b] = at[b] /\ on'[b] = on[b] /\ known'[b] = known[b]
  <2>1. place \in Places /\ known[k] # "spawn_failed"
    BY <1>1 DEF Places, Working, Inv, ActorOK, SpawnFailed
  <2>. QED BY <1>1, <1>2, <2>1, GotoIs, DelegateAssumption
<1>4. /\ state' = [state EXCEPT ![k] = IF m = "inline" THEN "running" ELSE "ready"]
      /\ mode' = [mode EXCEPT ![k] = m] /\ MayDelegate
      /\ UNCHANGED <<outcome, reopened, queue>>
      /\ lost \subseteq lost' /\ lost' \subseteq lost \cup {k}
      /\ faults' \in 0..MaxFaults
  BY DelegateAssumption DEF Delegate, DelegateUnconfirmed, NewChild, SetState, Lose, Fault,
     NoFault, TypeOK
<1>5. TypeOK'
  BY <1>1, <1>3, <1>4 DEF TypeOK, States, queue
<1>6. Local(k, k) /\ RowStep(k, k)
  BY <1>1, <1>3, <1>4 DEF Local, RowStep, TypeOK
<1>7. /\ state'[k] \in {"ready", "running"} /\ (m = "inline" <=> state'[k] = "running")
      /\ outcome'[k] = None
  BY <1>1, <1>4 DEF TypeOK
<1>8. TakesOver(k, k)
  BY <1>1, <1>2, <1>3 DEF TakesOver, Turning
<1>9. ActorOK(k)'
  BY <1>1, <1>2, <1>3, <1>7 DEF ActorOK, Plans, Turning, SpawnFailed
<1>10. WorkedOn(k)'
  BY <1>1, <1>2, <1>3, <1>7 DEF WorkedOn, Awaits, Runs, SpawnFailed, Terminal
<1>. QED BY <1>1, <1>5, <1>6, <1>8, <1>9, <1>10, StepKeeps

\* The start of a queued child.
LEMMA StartStep ==
    ASSUME TypeOK, Inv, NEW k \in Children, Start(k)
    PROVE  TypeOK' /\ Inv' /\ KeepsFinished
<1>1. /\ k \in Actors /\ on[k] = k /\ at[k] = "queued" /\ state[k] = "ready"
      /\ known[k] # "spawn_failed" /\ k \notin Operators /\ Rest(k) = "done"
  BY DelegateAssumption DEF Actors, Start, CanStart, Inv, ActorOK, SpawnFailed, Rest
<1>2. /\ at' \in [Actors -> Places] /\ at'[k] = "running" /\ on' = on /\ known' = known
      /\ \A b \in Actors \ {k} : at'[b] = at[b]
  <2>1. "running" \in Places
    BY DEF Places, Working
  <2>. QED BY <1>1, <2>1, GotoIs DEF Start
<1>3. /\ state' = [state EXCEPT ![k] = "running"]
      /\ UNCHANGED <<outcome, mode, reopened, queue, lost, faults>>
  BY DEF Start, SetState, NoFault
<1>4. TypeOK'
  BY <1>2, <1>3 DEF TypeOK, States, queue
<1>5. Local(k, k) /\ RowStep(k, k) /\ state'[k] = "running"
  BY <1>1, <1>2, <1>3 DEF Local, RowStep, TypeOK
<1>6. TakesOver(k, k)
  BY <1>1, <1>2 DEF TakesOver, Turning
<1>7. ActorOK(k)'
  BY <1>1, <1>2, <1>5 DEF ActorOK, Plans, Turning, SpawnFailed
<1>8. WorkedOn(k)'
  BY <1>1, <1>2, <1>5 DEF WorkedOn, Runs, SpawnFailed, Terminal
<1>. QED BY <1>1, <1>4, <1>5, <1>6, <1>7, <1>8, StepKeeps

\* A start that fails, before it or after the turn, goes to the recovery or is lost.
LEMMA SpawnFailsStep ==
    ASSUME TypeOK, Inv, NEW k \in Children, at[k] \in {"queued", "ended"},
           faults' \in 0..MaxFaults, SpawnFails(k)
    PROVE  TypeOK' /\ Inv' /\ KeepsFinished
<1>1. /\ k \in Actors /\ on[k] = k /\ known[k] # "spawn_failed" /\ state[k] # "none"
      /\ k \notin Operators /\ Rest(k) = "done"
  BY DelegateAssumption DEF Actors, Inv, ActorOK, SpawnFailed, Rest
<1>2. UNCHANGED <<state, outcome, mode, reopened, pending, drain, batch>>
  BY DEF SpawnFails, rows, queue
<1>3. CASE GotoKnowing(k, "ending", "spawn_failed") /\ UNCHANGED <<on, lost>>
  <2>1. /\ at' \in [Actors -> Places]
        /\ known' \in [Actors -> States \cup {"spawn_failed", None}]
        /\ at'[k] = "ending" /\ known'[k] = "spawn_failed"
        /\ \A b \in Actors \ {k} : at'[b] = at[b] /\ known'[b] = known[b]
    <3>1. "ending" \in Places
      BY DEF Places, Working
    <3>. QED BY <1>1, <1>3, <3>1, GotoKnowingIs
  <2>2. TypeOK'
    BY <1>2, <1>3, <2>1 DEF TypeOK
  <2>3. Local(k, k) /\ RowStep(k, k)
    BY <1>1, <1>2, <1>3, <2>1 DEF Local, RowStep
  <2>4. TakesOver(k, k) /\ ActorOK(k)'
    BY <1>1, <1>2, <1>3, <2>1 DEF TakesOver, ActorOK, Turning, SpawnFailed, Plans
  <2>5. WorkedOn(k)'
    <3>1. Awaits(k)' /\ ~Runs(k)
      BY <2>1 DEF Awaits, Runs, SpawnFailed
    <3>. QED BY <1>1, <1>2, <2>3, <3>1, WorkStays
  <2>. QED BY <1>1, <2>2, <2>3, <2>4, <2>5, StepKeeps
<1>4. CASE Goto(k, "done") /\ Lose(k)
  <2>1. /\ at' \in [Actors -> Places] /\ on' \in [Actors -> Children \cup {None}]
        /\ known' \in [Actors -> States \cup {"spawn_failed", None}]
        /\ \A b \in Actors \ {k} : at'[b] = at[b] /\ on'[b] = on[b] /\ known'[b] = known[b]
    <3>1. "done" \in Places
      BY DEF Places
    <3>. QED BY <1>1, <1>4, <3>1, GotoIs
  <2>2. lost' = lost \cup {k}
    BY <1>4 DEF Lose
  <2>3. TypeOK'
    BY <1>2, <2>1, <2>2 DEF TypeOK
  <2>4. Local(k, k) /\ RowStep(k, k)
    BY <1>1, <1>2, <2>1, <2>2 DEF Local, RowStep
  <2>5. WorkedOn(k)'
    BY <2>2 DEF WorkedOn
  <2>6. at[k] \in Working \cup Plans \cup {"announcing", "ended"} /\ at[k] \notin Plans
    BY DEF Working, Plans
  <2>. QED BY <1>1, <1>4, <2>3, <2>4, <2>5, <2>6, MovesOn
<1>. QED BY <1>3, <1>4 DEF SpawnFails

-----------------------------------------------------------------------------
(* The end of a turn, and the recovery *)

\* The end of a turn that is still to be written.
LEMMA TurnEndsStep ==
    ASSUME TypeOK, Inv, NEW a \in Actors, NEW end \in Terminal, TurnEnds(a, end)
    PROVE  TypeOK' /\ Inv' /\ KeepsFinished
<1>1. PICK k \in Children : on[a] = k
  BY AtWork DEF TurnEnds, Working
<1>2. /\ at[a] = "running" /\ Turning(a) /\ known[a] # "spawn_failed"
      /\ ActorOK(a) /\ end \in States /\ end # "spawn_failed"
  BY DEF TurnEnds, Turning, Inv, ActorOK, SpawnFailed, Terminal, States
<1>3. /\ UNCHANGED <<state, outcome, mode, reopened, on, pending, drain, batch, faults, lost>>
      /\ at' \in [Actors -> Places]
      /\ known' \in [Actors -> States \cup {"spawn_failed", None}]
      /\ at'[a] = "ending" /\ known'[a] = end
      /\ \A b \in Actors \ {a} : at'[b] = at[b] /\ known'[b] = known[b]
  <2>1. "ending" \in Places
    BY DEF Places, Working
  <2>. QED BY <1>2, <2>1, GotoKnowingIs DEF TurnEnds, rows, queue, NoFault
<1>4. TypeOK'
  BY <1>3 DEF TypeOK
<1>5. Local(a, k) /\ RowStep(a, k)
  BY <1>1, <1>3 DEF Local, RowStep
<1>6. TakesOver(a, k) /\ ActorOK(a)'
  BY <1>1, <1>2, <1>3 DEF TakesOver, ActorOK, Turning, SpawnFailed, Plans
<1>7. WorkedOn(k)'
  <2>1. Runs(a)' /\ ~Awaits(a)
    BY <1>2, <1>3 DEF Awaits, Runs, SpawnFailed
  <2>. QED BY <1>1, <1>2, <1>3, <1>5, <2>1, WorkStays
<1>. QED BY <1>1, <1>4, <1>5, <1>6, <1>7, StepKeeps

\* The ways on are places an actor may go to.
LEMMA Exits ==
    ASSUME TypeOK, NEW a \in Actors,
           NEW place \in {GivesUp(a), AfterRecovery(a), AfterFailure(a)}
    PROVE  /\ place \in {"announcing", "ended", Rest(a)}
           /\ place = "ended" => ~SpawnFailed(a)
  BY DEF GivesUp, AfterRecovery, AfterFailure, Rest

\* A step that ends the work of an actor, or takes it to the next attempt.
LEMMA WritesOn ==
    ASSUME TypeOK, Inv, NEW a \in Actors, at[a] \in Working \cup {"announcing", "ended"},
           NEW k \in Children, on[a] = k,
           NEW place \in {"recovering", "marking", "announcing", "ended", Rest(a)},
           Goto(a, place), place = "ended" => ~SpawnFailed(a),
           state' \in [Children -> States], outcome' \in [Children -> Statuses \cup {None}],
           \A j \in Children \ {k} : state'[j] = state[j] /\ outcome'[j] = outcome[j],
           UNCHANGED <<mode, reopened>>, RowStep(a, k), WorkedOn(k)',
           pending' \subseteq Children, batch' \subseteq Children,
           drain' \in {"none", "waiting", "flushing", "finishing"},
           faults' \in 0..MaxFaults, lost \subseteq lost', lost' \subseteq lost \cup {k}
    PROVE  TypeOK' /\ Inv' /\ KeepsFinished
<1>1. place \in Places
  BY AtWork DEF Places, Working
<1>2. TypeOK'
  BY <1>1, GotoIs DEF TypeOK
<1>3. Local(a, k)
  BY <1>1, GotoIs DEF Local
<1>4. at[a] \notin Plans
  BY DEF Working, Plans
<1>. QED BY <1>2, <1>3, <1>4, MovesOn

\* The same when the row stays as it is.
LEMMA LooksOn ==
    ASSUME TypeOK, Inv, NEW a \in Actors, at[a] \in Working \cup {"announcing", "ended"},
           NEW k \in Children, on[a] = k,
           NEW place \in {"recovering", "marking", "announcing", "ended", Rest(a)},
           Goto(a, place), place = "ended" => ~SpawnFailed(a),
           UNCHANGED <<state, outcome, mode, reopened>>, WorkedOn(k)',
           pending' \subseteq Children, batch' \subseteq Children,
           drain' \in {"none", "waiting", "flushing", "finishing"},
           faults' \in 0..MaxFaults, lost \subseteq lost', lost' \subseteq lost \cup {k}
    PROVE  TypeOK' /\ Inv' /\ KeepsFinished
<1>1. /\ state' \in [Children -> States] /\ outcome' \in [Children -> Statuses \cup {None}]
      /\ RowStep(a, k)
  BY DEF TypeOK, RowStep
<1>. QED BY <1>1, WritesOn

\* A step after which the child counts as lost needs no witness of its work.
LEMMA TurnLostStep ==
    ASSUME TypeOK, Inv, NEW a \in Actors, TurnLost(a)
    PROVE  TypeOK' /\ Inv' /\ KeepsFinished
<1>1. at[a] \in Working \cup {"announcing", "ended"}
  BY DEF TurnLost, Working
<1>2. PICK k \in Children : on[a] = k
  BY <1>1, AtWork
<1>3. /\ UNCHANGED <<state, outcome, mode, reopened, pending, drain, batch>>
      /\ faults' \in 0..MaxFaults /\ lost' = lost \cup {k} /\ Goto(a, GivesUp(a))
  BY <1>2, DelegateAssumption DEF TurnLost, rows, queue, Fault, Lose, TypeOK
<1>4. WorkedOn(k)'
  BY <1>3 DEF WorkedOn
<1>. QED BY <1>1, <1>2, <1>3, <1>4, Exits, LooksOn DEF TypeOK

\* A row that is still as the write expects is active, and its end is a terminal state.
LEMMA CurrentRow ==
    ASSUME TypeOK, Inv, NEW a \in Actors, at[a] \in {"ending", "recovering", "marking"},
           NEW k \in Children, on[a] = k, IsCurrent(a)
    PROVE  /\ IsActive(k) /\ (RowOK(k) /\ k \notin reopened => outcome[k] = None)
           /\ at[a] = "ending" =>
                 /\ FinalState(a) \in Terminal /\ Status(a) \in Statuses
                 /\ Status(a) = EndStatus[FinalState(a)]
                 /\ FinalState(a) = "failed" \/ (Turning(a) /\ state[k] = "running")
<1>1. IsActive(k)
  BY DEF IsCurrent, Expected, IsActive
<1>2. at[a] = "ending" => known[a] \in Terminal \cup {"spawn_failed"}
  BY DEF Inv, ActorOK
<1>. QED BY <1>1, <1>2, EndStatusIs DEF FinalState, Status, Statuses, Turning, SpawnFailed,
     IsCurrent, Expected, RowOK, Terminal

\* A row that is not as the write expects has other hands at work, if any.
LEMMA OtherHands ==
    ASSUME TypeOK, Inv, NEW a \in Actors, at[a] \in {"ending", "recovering", "marking"},
           NEW k \in Children, on[a] = k, ~IsCurrent(a), Local(a, k),
           state'[k] = state[k], outcome'[k] = outcome[k]
    PROVE  WorkedOn(k)'
<1>1. /\ ~(a = k /\ state[k] = "ready" /\ Awaits(a))
      /\ ~(state[k] = "running" /\ Runs(a)) /\ at[a] # "recording"
  BY DEF IsCurrent, Expected, Awaits, Runs, SpawnFailed
<1>. QED BY <1>1, WorkStays

\* A row with an end and an outcome needs nobody.
LEMMA EndedRow ==
    ASSUME NEW k \in Children, state'[k] \in Terminal, outcome'[k] # None
    PROVE  WorkedOn(k)'
  BY DEF WorkedOn, Terminal

\* What a step that keeps the store's other parts leaves in its type.
StillTyped(k) ==
    /\ UNCHANGED <<mode, reopened>>
    /\ pending' \subseteq Children /\ batch' \subseteq Children
    /\ drain' \in {"none", "waiting", "flushing", "finishing"}
    /\ faults' \in 0..MaxFaults /\ lost \subseteq lost' /\ lost' \subseteq lost \cup {k}

\* The write at the end of a turn, or of a start that failed.
LEMMA FinishStep ==
    ASSUME TypeOK, Inv, NEW a \in Actors, Finish(a) \/ FinishFails(a)
    PROVE  TypeOK' /\ Inv' /\ KeepsFinished
<1>1. at[a] = "ending" /\ at[a] \in Working \cup {"announcing", "ended"}
  BY DEF Finish, FinishFails, Working
<1>2. PICK k \in Children : on[a] = k
  BY <1>1, AtWork
<1>3. StillTyped(k)
  BY <1>2, DelegateAssumption DEF StillTyped, Finish, FinishFails, rows, queue, WriteEnd,
     Fault, NoFault, TypeOK
<1>4. CASE IsCurrent(a) /\ WriteEnd(a, FinalState(a), Status(a))
  <2>1. PICK place \in {"announcing", "recovering"} : Goto(a, place)
    BY DEF Finish, FinishFails
  <2>2. /\ IsActive(k) /\ FinalState(a) \in Terminal /\ Status(a) \in Statuses
        /\ Status(a) = EndStatus[FinalState(a)]
        /\ FinalState(a) = "failed" \/ (Turning(a) /\ state[k] = "running")
    BY <1>1, <1>2, <1>4, CurrentRow
  <2>3. /\ state' \in [Children -> States] /\ outcome' \in [Children -> Statuses \cup {None}]
        /\ state'[k] = FinalState(a) /\ outcome'[k] = Status(a) /\ outcome'[k] # None
        /\ \A j \in Children \ {k} : state'[j] = state[j] /\ outcome'[j] = outcome[j]
    BY <1>2, <1>4, <2>2, WriteEndIs
  <2>4. RowStep(a, k) /\ WorkedOn(k)'
    BY <1>2, <2>2, <2>3, EndedRow, EndStatusIs DEF RowStep
  <2>. QED BY <1>1, <1>2, <1>3, <2>1, <2>3, <2>4, WritesOn DEF StillTyped
<1>5. CASE UNCHANGED rows
  <2>1. PICK place \in {"announcing", "recovering"} :
          /\ Goto(a, place)
          /\ place = "announcing" => ~IsCurrent(a)
    <3>1. CASE Finish(a) /\ IsCurrent(a)
      <4>1. IsActive(k) /\ FinalState(a) \in Terminal /\ Status(a) \in Statuses
        BY <1>1, <1>2, <3>1, CurrentRow
      <4>2. state'[k] = FinalState(a)
        BY <1>2, <3>1, <4>1, WriteEndIs DEF Finish
      <4>. QED BY <1>5, <4>1, <4>2 DEF rows, IsActive, Terminal
    <3>2. CASE Finish(a) /\ ~IsCurrent(a)
      BY <3>2 DEF Finish
    <3>3. CASE FinishFails(a)
      BY <3>3 DEF FinishFails
    <3>. QED BY <3>1, <3>2, <3>3
  <2>2. /\ UNCHANGED <<state, outcome, mode, reopened>> /\ place \in Places
        /\ place # Rest(a)
    BY <1>5, <2>1 DEF rows, Places, Working, Rest
  <2>3. Local(a, k) /\ on'[a] = k /\ at'[a] = place /\ known'[a] = known[a]
    BY <1>2, <1>3, <2>1, <2>2, GotoIs DEF Local, StillTyped
  <2>4. WorkedOn(k)'
    <3>1. CASE ~IsCurrent(a)
      BY <1>1, <1>2, <2>2, <2>3, <3>1, OtherHands
    <3>2. CASE place = "recovering"
      <4>1. (Awaits(a) => Awaits(a)') /\ (Runs(a) => Runs(a)') /\ at[a] # "recording"
        BY <1>1, <2>3, <3>2 DEF Awaits, Runs, SpawnFailed
      <4>. QED BY <1>2, <2>2, <2>3, <4>1, WorkStays
    <3>. QED BY <2>1, <3>1, <3>2
  <2>. QED BY <1>1, <1>2, <1>3, <2>1, <2>2, <2>4, LooksOn DEF StillTyped
<1>. QED BY <1>4, <1>5 DEF Finish, FinishFails

\* An actor that stays at its work on a row that stays as it is.
LEMMA StaysAtWork ==
    ASSUME TypeOK, Inv, NEW a \in Actors, at[a] \in {"ending", "recovering", "marking"},
           NEW k \in Children, on[a] = k,
           NEW place \in {"recovering", "marking"}, Goto(a, place),
           UNCHANGED <<state, outcome>>, StillTyped(k)
    PROVE  WorkedOn(k)'
<1>1. place \in Places /\ place # Rest(a)
  BY DEF Places, Working, Rest
<1>2. /\ on'[a] = k /\ at'[a] = place /\ known'[a] = known[a]
      /\ \A b \in Actors \ {a} : at'[b] = at[b] /\ on'[b] = on[b] /\ known'[b] = known[b]
  BY <1>1, GotoIs
<1>3. Local(a, k)
  BY <1>2 DEF Local, StillTyped
<1>4. (Awaits(a) => Awaits(a)') /\ (Runs(a) => Runs(a)') /\ at[a] # "recording"
  BY <1>2 DEF Awaits, Runs, SpawnFailed
<1>. QED BY <1>2, <1>3, <1>4, WorkStays

\* A step of one actor that writes no row and has a place to go to is local.
LEMMA LooksLocal ==
    ASSUME TypeOK, Inv, NEW a \in Actors, at[a] \in Working \cup {"announcing", "ended"},
           NEW k \in Children, on[a] = k,
           NEW place \in {"recovering", "marking", "announcing", "ended", Rest(a)},
           Goto(a, place), \A j \in Children \ {k} : state'[j] = state[j] /\ outcome'[j] = outcome[j],
           StillTyped(k)
    PROVE  Local(a, k)
<1>1. place \in Places
  BY AtWork DEF Places, Working
<1>. QED BY <1>1, GotoIs DEF Local, StillTyped

\* The recovery's first attempt.
LEMMA RecoveryStep ==
    ASSUME TypeOK, Inv, NEW a \in Actors, RecordRecovery(a) \/ RecordRecoveryFails(a)
    PROVE  TypeOK' /\ Inv' /\ KeepsFinished
<1>1. at[a] = "recovering" /\ at[a] \in Working \cup {"announcing", "ended"}
  BY DEF RecordRecovery, RecordRecoveryFails, Working
<1>2. PICK k \in Children : on[a] = k
  BY <1>1, AtWork
<1>3. StillTyped(k)
  BY <1>2 DEF StillTyped, RecordRecovery, RecordRecoveryFails, rows, queue, WriteEnd,
     NoFault, TypeOK
<1>4. CASE IsCurrent(a) /\ WriteEnd(a, "failed", "error")
  <2>1. PICK place \in {AfterRecovery(a), "marking"} : Goto(a, place)
    BY <1>4 DEF RecordRecovery, RecordRecoveryFails
  <2>2. IsActive(k)
    BY <1>1, <1>2, <1>4, CurrentRow
  <2>3. /\ state' \in [Children -> States] /\ outcome' \in [Children -> Statuses \cup {None}]
        /\ state'[k] = "failed" /\ outcome'[k] = "error" /\ outcome'[k] # None
        /\ \A j \in Children \ {k} : state'[j] = state[j] /\ outcome'[j] = outcome[j]
    BY <1>2, <1>4, WriteEndIs DEF Terminal, Statuses
  <2>4. RowStep(a, k) /\ WorkedOn(k)'
    BY <2>2, <2>3, EndedRow DEF RowStep, Terminal
  <2>. QED BY <1>1, <1>2, <1>3, <2>1, <2>3, <2>4, Exits, WritesOn DEF StillTyped
<1>5. CASE RecordRecovery(a) /\ ~IsCurrent(a)
  <2>1. Goto(a, AfterFailure(a)) /\ UNCHANGED <<state, outcome, mode, reopened>>
    BY <1>5 DEF RecordRecovery, rows
  <2>2. Local(a, k)
    BY <1>1, <1>2, <1>3, <2>1, Exits, LooksLocal
  <2>3. WorkedOn(k)'
    BY <1>1, <1>2, <1>5, <2>1, <2>2, OtherHands
  <2>. QED BY <1>1, <1>2, <1>3, <2>1, <2>3, Exits, LooksOn DEF StillTyped
<1>6. CASE RecordRecoveryFails(a) /\ UNCHANGED rows
  <2>1. Goto(a, "marking") /\ UNCHANGED <<state, outcome, mode, reopened>>
    BY <1>6 DEF RecordRecoveryFails, rows
  <2>2. WorkedOn(k)'
    BY <1>1, <1>2, <1>3, <2>1, StaysAtWork
  <2>. QED BY <1>1, <1>2, <1>3, <2>1, <2>2, LooksOn DEF StillTyped
<1>. QED BY <1>4, <1>5, <1>6 DEF RecordRecovery, RecordRecoveryFails

\* Its second, which marks the row alone.
LEMMA MarkStep ==
    ASSUME TypeOK, Inv, NEW a \in Actors, MarkFailed(a) \/ MarkFails(a)
    PROVE  TypeOK' /\ Inv' /\ KeepsFinished
<1>1. at[a] = "marking" /\ at[a] \in Working \cup {"announcing", "ended"}
  BY DEF MarkFailed, MarkFails, Working
<1>2. PICK k \in Children : on[a] = k
  BY <1>1, AtWork
<1>3. StillTyped(k) /\ outcome' = outcome
  BY <1>2 DEF StillTyped, MarkFailed, MarkFails, queue, NoFault, Lose, TypeOK
<1>4. CASE IsCurrent(a) /\ SetState(k, "failed")
  <2>1. IsActive(k) /\ (k \notin reopened => outcome[k] = None)
    BY <1>1, <1>2, <1>4, CurrentRow DEF Inv
  <2>2. /\ state' \in [Children -> States] /\ outcome' \in [Children -> Statuses \cup {None}]
        /\ state'[k] = "failed"
        /\ \A j \in Children \ {k} : state'[j] = state[j] /\ outcome'[j] = outcome[j]
    BY <1>3, <1>4 DEF SetState, TypeOK, States, Terminal
  <2>3. RowStep(a, k)
    BY <1>3, <2>1, <2>2 DEF RowStep
  <2>4. CASE MarkFails(a)
    <3>1. WorkedOn(k)'
      BY <1>2, <2>4 DEF MarkFails, Lose, WorkedOn
    <3>. QED BY <1>1, <1>2, <1>3, <2>2, <2>3, <2>4, <3>1, Exits, WritesOn DEF StillTyped, MarkFails
  <2>5. CASE MarkFailed(a)
    <3>1. Goto(a, "recording") /\ "recording" \in Places /\ "recording" # Rest(a)
      BY <1>4, <2>5 DEF MarkFailed, AfterMark, Places, Working, Rest
    <3>2. /\ at' \in [Actors -> Places] /\ at'[a] = "recording" /\ on' = on /\ known' = known
          /\ \A b \in Actors \ {a} : at'[b] = at[b]
      BY <3>1, GotoIs
    <3>3. TypeOK'
      BY <1>3, <2>2, <3>2 DEF TypeOK, StillTyped
    <3>4. Local(a, k) /\ TakesOver(a, k)
      BY <1>2, <1>3, <2>1, <2>2, <3>2 DEF Local, TakesOver, StillTyped, Turning
    <3>5. ActorOK(a)'
      <4>1. ActorOK(a) /\ SpawnFailed(a)' = SpawnFailed(a) /\ reopened' = reopened
        BY <1>3, <3>2 DEF Inv, SpawnFailed, StillTyped
      <4>. QED BY <1>1, <1>2, <1>3, <2>1, <2>2, <3>2, <4>1 DEF ActorOK, Turning, Plans
    <3>6. WorkedOn(k)'
      BY <1>2, <2>2, <3>2 DEF WorkedOn, Terminal
    <3>. QED BY <3>3, <3>4, <3>5, <3>6, <2>3, StepKeeps
  <2>. QED BY <2>4, <2>5
<1>5. CASE UNCHANGED state /\ ~(MarkFailed(a) /\ IsCurrent(a))
  <2>1. Goto(a, AfterFailure(a))
    BY <1>5 DEF MarkFailed, MarkFails
  <2>2. Local(a, k)
    BY <1>1, <1>2, <1>3, <1>5, <2>1, Exits, LooksLocal
  <2>3. WorkedOn(k)'
    <3>1. CASE MarkFails(a)
      BY <1>2, <3>1 DEF MarkFails, Lose, WorkedOn
    <3>2. CASE MarkFailed(a)
      BY <1>1, <1>2, <1>3, <1>5, <2>2, <3>2, OtherHands
    <3>. QED BY <3>1, <3>2
  <2>. QED BY <1>1, <1>2, <1>3, <1>5, <2>1, <2>3, Exits, LooksOn DEF StillTyped
<1>. QED BY <1>2, <1>4, <1>5 DEF MarkFailed, MarkFails

\* Its last, which records the outcome of a row that was marked.
LEMMA RecordStep ==
    ASSUME TypeOK, Inv, NEW a \in Actors, RecordOutcome(a) \/ RecordOutcomeFails(a)
    PROVE  TypeOK' /\ Inv' /\ KeepsFinished
<1>1. at[a] = "recording" /\ at[a] \in Working \cup {"announcing", "ended"}
  BY DEF RecordOutcome, RecordOutcomeFails, Working
<1>2. PICK k \in Children : on[a] = k
  BY <1>1, AtWork
<1>3. StillTyped(k) /\ state' = state
  BY <1>2 DEF StillTyped, RecordOutcome, RecordOutcomeFails, queue, NoFault, Lose, TypeOK
<1>4. state[k] = "failed"
  BY <1>1, <1>2 DEF Inv, ActorOK
<1>5. CASE SetOutcome(k, "error")
  <2>1. PICK place \in {AfterRecovery(a), AfterFailure(a)} : Goto(a, place)
    BY DEF RecordOutcome, RecordOutcomeFails
  <2>2. /\ outcome' \in [Children -> Statuses \cup {None}]
        /\ outcome'[k] = "error" /\ outcome'[k] # None
        /\ \A j \in Children \ {k} : outcome'[j] = outcome[j]
    BY <1>5, DelegateAssumption DEF SetOutcome, TypeOK, Statuses
  <2>3. RowStep(a, k) /\ WorkedOn(k)'
    BY <1>1, <1>3, <1>4, <2>2, EndedRow DEF RowStep, Terminal
  <2>. QED BY <1>1, <1>2, <1>3, <2>1, <2>2, <2>3, Exits, WritesOn DEF StillTyped, TypeOK
<1>6. CASE RecordOutcomeFails(a) /\ UNCHANGED outcome
  <2>1. WorkedOn(k)'
    BY <1>2, <1>6 DEF RecordOutcomeFails, Lose, WorkedOn
  <2>. QED BY <1>1, <1>2, <1>3, <1>6, <2>1, Exits, LooksOn DEF RecordOutcomeFails, StillTyped
<1>. QED BY <1>2, <1>5, <1>6 DEF RecordOutcome, RecordOutcomeFails

\* The announcement.
LEMMA AnnounceStep ==
    ASSUME TypeOK, Inv, NEW a \in Actors, Announce(a)
    PROVE  TypeOK' /\ Inv' /\ KeepsFinished
<1>1. at[a] = "announcing" /\ at[a] \in Working \cup {"announcing", "ended"}
  BY DEF Announce, Working
<1>2. PICK k \in Children : on[a] = k
  BY <1>1, AtWork
<1>3. StillTyped(k) /\ UNCHANGED <<state, outcome>>
  BY <1>2 DEF StillTyped, Announce, rows, queue, NoFault, TypeOK
<1>4. PICK place \in {"ended", Rest(a)} : Goto(a, place) /\ (place = "ended" => ~SpawnFailed(a))
  <2>1. SpawnFailed(a) => Rest(a) = "done"
    BY DEF Inv, ActorOK, Rest
  <2>. QED BY <2>1 DEF Announce
<1>5. Local(a, k)
  BY <1>1, <1>2, <1>3, <1>4, LooksLocal
<1>6. WorkedOn(k)'
  <2>1. ~Awaits(a) /\ ~Runs(a)
    BY <1>1 DEF Awaits, Runs
  <2>. QED BY <1>1, <1>2, <1>3, <1>5, <2>1, WorkStays
<1>. QED BY <1>1, <1>2, <1>3, <1>4, <1>6, LooksOn DEF StillTyped

\* The end, with the outcome a continued child gets back.
LEMMA LeaveStep ==
    ASSUME TypeOK, Inv, NEW a \in Actors, Leave(a)
    PROVE  TypeOK' /\ Inv' /\ KeepsFinished
<1>1. at[a] = "ended" /\ at[a] \in Working \cup {"announcing", "ended"}
  BY DEF Leave, Working
<1>2. PICK k \in Children : on[a] = k
  BY <1>1, AtWork
<1>3. StillTyped(k) /\ state' = state /\ Goto(a, Rest(a))
  BY <1>2 DEF StillTyped, Leave, rows, queue, NoFault, TypeOK
<1>4. /\ outcome' \in [Children -> Statuses \cup {None}]
      /\ \A j \in Children \ {k} : outcome'[j] = outcome[j]
      /\ outcome'[k] = outcome[k] \/ (outcome'[k] # None /\ k \in reopened)
  <2>1. a \in Operators => k \in reopened
    BY <1>1, <1>2 DEF Inv, ActorOK, Plans
  <2>. QED BY <1>2, <2>1, DelegateAssumption DEF Leave, SetOutcome, TypeOK, Statuses
<1>5. Local(a, k)
  BY <1>1, <1>2, <1>3, <1>4, LooksLocal
<1>6. WorkedOn(k)'
  <2>1. ~Awaits(a) /\ ~Runs(a) /\ at[a] # "recording"
    <3>1. ~SpawnFailed(a)
      BY <1>1 DEF Inv, ActorOK
    <3>. QED BY <1>1, <3>1 DEF Awaits, Runs
  <2>. QED BY <1>2, <1>3, <1>4, <1>5, <2>1, WorkStays
<1>7. RowStep(a, k)
  BY <1>1, <1>3, <1>4 DEF RowStep
<1>. QED BY <1>1, <1>2, <1>3, <1>4, <1>6, <1>7, WritesOn DEF StillTyped, TypeOK, Rest

\* A turn that is dropped.
LEMMA DropStep ==
    ASSUME TypeOK, Inv, NEW a \in Actors, Drop(a)
    PROVE  TypeOK' /\ Inv' /\ KeepsFinished
<1>1. at[a] \in {"running", "ended", "queued"} /\ at[a] \in Working \cup {"announcing", "ended"}
  BY DEF Drop, Working
<1>2. PICK k \in Children : on[a] = k
  BY <1>1, AtWork
<1>3. StillTyped(k) /\ UNCHANGED <<state, outcome>> /\ Goto(a, Rest(a))
  BY <1>2 DEF StillTyped, Drop, rows, queue, NoFault, Lose, TypeOK
<1>4. WorkedOn(k)'
  <2>1. CASE at[a] \in Working
    BY <1>2, <2>1 DEF Drop, Lose, WorkedOn
  <2>2. CASE at[a] \notin Working
    <3>1. ~Awaits(a) /\ ~Runs(a) /\ at[a] # "recording"
      BY <1>1, <2>2 DEF Awaits, Runs, Working
    <3>2. Local(a, k)
      BY <1>1, <1>2, <1>3, LooksLocal
    <3>. QED BY <1>2, <1>3, <3>1, <3>2, WorkStays
  <2>. QED BY <2>1, <2>2
<1>. QED BY <1>1, <1>2, <1>3, <1>4, LooksOn DEF StillTyped, Rest

-----------------------------------------------------------------------------
(* The session tools *)

\* An operator with a plan knows what it saw.
LEMMA Planning ==
    ASSUME TypeOK, Inv, NEW o \in Operators, at[o] \in Plans
    PROVE  /\ o \in Actors /\ o \notin Children /\ Rest(o) = "idle"
           /\ at[o] \in Working \cup Plans \cup {"announcing", "ended"}
           /\ on[o] \in Children /\ at[o] # "idle" /\ ~Turning(o) /\ at[o] # "recording"
           /\ at[o] = "continue" => known[o] = "completed"
           /\ at[o] \in {"cancel", "recover"} => known[o] \in {"ready", "running"}
  BY DelegateAssumption DEF Actors, Rest, Inv, ActorOK, Plans, Turning

\* A tool that is done, whatever it wrote.
LEMMA PlanEnds ==
    ASSUME TypeOK, Inv, NEW o \in Operators, at[o] \in Plans,
           NEW k \in Children, on[o] = k, Goto(o, "idle"), StillTyped(k),
           state' \in [Children -> States], outcome' \in [Children -> Statuses \cup {None}],
           \A j \in Children \ {k} : state'[j] = state[j] /\ outcome'[j] = outcome[j],
           RowStep(o, k),
           (state'[k] = state[k] /\ outcome'[k] = outcome[k])
           \/ (state'[k] \in Terminal /\ outcome'[k] # None)
    PROVE  TypeOK' /\ Inv' /\ KeepsFinished
<1>1. /\ o \in Actors /\ o \notin Children /\ Rest(o) = "idle" /\ "idle" \in Places
      /\ at[o] \in Working \cup Plans \cup {"announcing", "ended"} /\ at[o] # "recording"
      /\ ~Runs(o)
  BY Planning DEF Places, Runs, Plans
<1>2. TypeOK'
  BY <1>1, GotoIs DEF TypeOK, StillTyped
<1>3. Local(o, k)
  BY <1>1, GotoIs DEF Local, StillTyped
<1>4. WorkedOn(k)'
  BY <1>1, <1>3, EndedRow, WorkStays
<1>. QED BY <1>1, <1>2, <1>3, <1>4, MovesOn

\* Cancel and recover only end rows that are as they were seen, and those were active.
LEMMA InterruptStep ==
    ASSUME TypeOK, Inv, NEW o \in Operators, ApplyCancel(o) \/ ApplyRecover(o) \/ GiveUp(o)
    PROVE  TypeOK' /\ Inv' /\ KeepsFinished
<1>1. at[o] \in Plans /\ o \in Actors
  BY DEF ApplyCancel, ApplyRecover, GiveUp, Plans, Actors
<1>2. PICK k \in Children : on[o] = k
  BY <1>1, Planning
<1>3. StillTyped(k) /\ Goto(o, "idle")
  BY DEF StillTyped, ApplyCancel, ApplyRecover, GiveUp, rows, queue, WriteEnd, NoFault, TypeOK
<1>4. CASE UNCHANGED rows
  BY <1>1, <1>2, <1>3, <1>4, PlanEnds DEF rows, RowStep, TypeOK
<1>5. CASE /\ at[o] \in {"cancel", "recover"} /\ AsSeen(o)
           /\ WriteEnd(o, "failed", "error")
  <2>1. IsActive(k)
    BY <1>1, <1>2, <1>5, Planning DEF AsSeen, IsActive
  <2>2. /\ state' \in [Children -> States] /\ outcome' \in [Children -> Statuses \cup {None}]
        /\ state'[k] = "failed" /\ outcome'[k] = "error" /\ outcome'[k] # None
        /\ \A j \in Children \ {k} : state'[j] = state[j] /\ outcome'[j] = outcome[j]
    BY <1>1, <1>2, <1>5, WriteEndIs DEF Terminal, Statuses
  <2>. QED BY <1>1, <1>2, <1>3, <2>1, <2>2, PlanEnds DEF RowStep, Terminal
<1>. QED BY <1>4, <1>5 DEF ApplyCancel, ApplyRecover, GiveUp

\* A tool that looks at a child.
LEMMA LookStep ==
    ASSUME TypeOK, Inv, NEW o \in Operators, NEW k \in Children, NEW plan \in Plans,
           Look(o, k, plan)
    PROVE  TypeOK' /\ Inv' /\ KeepsFinished
<1>1. /\ o \in Actors /\ o \notin Children /\ at[o] = "idle" /\ plan \in Places
      /\ state[k] \in States /\ state[k] # "none" /\ state[k] # "spawn_failed"
      /\ plan = "continue" => state[k] = "completed"
      /\ plan # "continue" => state[k] \in {"ready", "running"}
  BY DelegateAssumption DEF Actors, Look, CanContinue, CanInterrupt, IsActive, Places, TypeOK,
     States, Terminal
<1>2. /\ UNCHANGED <<state, outcome, mode, reopened, pending, drain, batch, faults, lost>>
      /\ on' = [on EXCEPT ![o] = k]
      /\ at' \in [Actors -> Places] /\ known' \in [Actors -> States \cup {"spawn_failed", None}]
      /\ at'[o] = plan /\ known'[o] = state[k]
      /\ \A b \in Actors \ {o} : at'[b] = at[b] /\ known'[b] = known[b]
  BY <1>1, GotoKnowingIs DEF Look, rows, queue, NoFault
<1>3. on' \in [Actors -> Children \cup {None}] /\ on'[o] = k
      /\ \A b \in Actors \ {o} : on'[b] = on[b]
  BY <1>1, <1>2 DEF TypeOK
<1>4. TypeOK'
  BY <1>2, <1>3 DEF TypeOK
<1>5. Local(o, k) /\ RowStep(o, k)
  BY <1>1, <1>2, <1>3 DEF Local, RowStep
<1>6. TakesOver(o, k) /\ ActorOK(o)'
  BY <1>1, <1>2, <1>3 DEF TakesOver, ActorOK, Turning, SpawnFailed, Plans
<1>7. WorkedOn(k)'
  BY <1>1, <1>2, <1>5, WorkStays DEF Runs
<1>. QED BY <1>1, <1>4, <1>5, <1>6, <1>7, StepKeeps

\* A finished child that is continued: whoever ran it before is done turning it.
LEMMA ContinueStep ==
    ASSUME TypeOK, Inv, NEW o \in Operators, BeginContinue(o)
    PROVE  TypeOK' /\ Inv' /\ KeepsFinished
<1>1. at[o] = "continue" /\ at[o] \in Plans
  BY DEF BeginContinue, Plans
<1>2. PICK k \in Children : on[o] = k
  BY <1>1, Planning
<1>3. /\ o \in Actors /\ o \notin Children /\ at[o] # "idle" /\ ~Turning(o) /\ at[o] # "recording"
      /\ state[k] = "completed" /\ "running" \in Places
  BY <1>1, <1>2, Planning DEF BeginContinue, AsSeen, Places, Working
<1>4. /\ UNCHANGED <<outcome, mode, on, pending, drain, batch, faults, lost>>
      /\ state' = [state EXCEPT ![k] = "running"] /\ reopened' = reopened \cup {k}
      /\ at' \in [Actors -> Places] /\ known' \in [Actors -> States \cup {"spawn_failed", None}]
      /\ at'[o] = "running" /\ known'[o] # "spawn_failed"
      /\ \A b \in Actors \ {o} : at'[b] = at[b] /\ known'[b] = known[b]
  BY <1>2, <1>3, GotoKnowingIs, DelegateAssumption DEF BeginContinue, queue, NoFault, SetState
<1>5. TypeOK'
  BY <1>4 DEF TypeOK, States
<1>6. Local(o, k) /\ RowStep(o, k) /\ state'[k] = "running"
  BY <1>2, <1>3, <1>4 DEF Local, RowStep, TypeOK
<1>7. TakesOver(o, k) /\ ActorOK(o)'
  BY <1>2, <1>3, <1>4, <1>6 DEF TakesOver, ActorOK, Turning, SpawnFailed, Plans
<1>8. WorkedOn(k)'
  BY <1>2, <1>3, <1>4, <1>6 DEF WorkedOn, Runs, SpawnFailed, Terminal
<1>. QED BY <1>3, <1>5, <1>6, <1>7, <1>8, StepKeeps

-----------------------------------------------------------------------------
(* Announcements, crashes, and the theorems *)

\* Nothing of the rows and of the actors changes.
LEMMA QuietStep ==
    ASSUME TypeOK, Inv, UNCHANGED <<rows, actors, lost>>
    PROVE  Inv' /\ KeepsFinished
<1>1. UNCHANGED <<state, outcome, mode, reopened, at, on, known, lost>>
  BY DEF rows, actors
<1>2. /\ \A a \in Actors : ActorOK(a)'
      /\ \A k \in Children : RowOK(k)' /\ WorkedOn(k)'
  BY <1>1 DEF Inv, ActorOK, RowOK, WorkedOn, Awaits, Runs, Turning, SpawnFailed, IsActive
<1>3. Alone' /\ FirstRunsWithinLimit'
  BY <1>1 DEF Inv, Alone, Turning, SpawnFailed, FirstRunsWithinLimit, ActiveChildren, IsActive
<1>4. KeepsFinished
  BY <1>1 DEF KeepsFinished
<1>. QED BY <1>2, <1>3, <1>4 DEF Inv

\* The task that drains the queue touches neither rows nor actors.
LEMMA DrainKeeps ==
    ASSUME TypeOK, Inv, DrainStep
    PROVE  TypeOK' /\ Inv' /\ KeepsFinished
<1>1. UNCHANGED <<rows, actors, lost>>
  BY DEF DrainStep, TakeBatch, FlushBatch, FlushFails, FinishBatch
<1>2. /\ pending' \subseteq Children /\ batch' \subseteq Children
      /\ drain' \in {"none", "waiting", "flushing", "finishing"} /\ faults' \in 0..MaxFaults
  BY DelegateAssumption DEF DrainStep, TakeBatch, FlushBatch, FlushFails, FinishBatch,
     NextDrain, Fault, NoFault, TypeOK
<1>3. TypeOK'
  BY <1>1, <1>2 DEF TypeOK, rows, actors
<1>. QED BY <1>1, <1>3, QuietStep

\* A crash takes actors away, and counts the children they worked on as lost.
LEMMA CrashKeeps ==
    ASSUME TypeOK, Inv, NEW p \in Processes, Crash(p)
    PROVE  TypeOK' /\ Inv' /\ KeepsFinished
<1>. DEFINE gone == {a \in Actors : at[a] \notin {"idle", "done"} /\ ProcessOf(a) = p}
<1>1. /\ at' = [a \in Actors |-> IF a \in gone THEN Rest(a) ELSE at[a]]
      /\ known' = [a \in Actors |-> IF a \in gone THEN None ELSE known[a]]
      /\ on' = [a \in Actors |-> IF a \in gone \cap Operators THEN None ELSE on[a]]
      /\ lost' = lost \cup {on[a] : a \in {b \in gone : at[b] \in Working}}
      /\ UNCHANGED <<state, outcome, mode, reopened>>
      /\ pending' \subseteq Children /\ batch' \subseteq Children
      /\ drain' \in {"none", "waiting", "flushing", "finishing"} /\ faults' \in 0..MaxFaults
  BY DelegateAssumption DEF Crash, Fault, rows, queue, TypeOK
<1>2. \A a \in gone : at[a] \in Working => on[a] \in Children
  BY DEF Inv, ActorOK
<1>. HIDE DEF gone
<1>3. gone \subseteq Actors
  BY DEF gone
<1>4. TypeOK'
  BY <1>1, <1>2, <1>3 DEF TypeOK, Rest, Places
<1>5. /\ \A b \in Actors \ gone : at'[b] = at[b] /\ on'[b] = on[b] /\ known'[b] = known[b]
      /\ \A b \in gone : /\ at'[b] = Rest(b) /\ known'[b] = None
                         /\ on'[b] = IF b \in Operators THEN None ELSE on[b]
      /\ lost \subseteq lost' /\ \A b \in gone : at[b] \in Working => on[b] \in lost'
  BY <1>1, <1>3 DEF TypeOK
<1>6. ASSUME NEW a \in Actors PROVE ActorOK(a)'
  <2>1. CASE a \in gone
    <3>1. /\ ActorOK(a) /\ Rest(a) \in {"idle", "done"} /\ ~SpawnFailed(a)' /\ ~Turning(a)'
          /\ a \in Children => a \notin Operators /\ Rest(a) = "done"
          /\ a \in Operators => Rest(a) = "idle"
      BY <1>5, <2>1, DelegateAssumption DEF Inv, Rest, Turning, SpawnFailed
    <3>. QED BY <1>1, <1>5, <2>1, <3>1 DEF ActorOK, Plans
  <2>2. CASE a \notin gone
    BY <1>1, <1>5, <2>2 DEF Inv, ActorOK, Turning, SpawnFailed
  <2>. QED BY <2>1, <2>2
<1>7. ASSUME NEW k \in Children PROVE RowOK(k)' /\ WorkedOn(k)'
  <2>1. RowOK(k)'
    BY <1>1 DEF Inv, RowOK, IsActive
  <2>. SUFFICES ASSUME k \notin lost' PROVE WorkedOn(k)'
    BY <2>1 DEF WorkedOn
  <2>2. k \notin lost /\ WorkedOn(k) /\ on[k] = k /\ k \in Actors
    BY <1>5 DEF Inv, ActorOK, Actors
  <2>3. ASSUME NEW b \in Actors, on[b] = k, at[b] \in Working
        PROVE  at'[b] = at[b] /\ on'[b] = k /\ known'[b] = known[b]
    BY <1>5, <2>3
  <2>4. \A b \in Actors : Awaits(b) \/ Runs(b) \/ at[b] = "recording" => at[b] \in Working
    BY DEF Awaits, Runs, Working
  <2>5. state[k] = "ready" => Awaits(k)'
    BY <2>2, <2>3, <2>4 DEF WorkedOn, Awaits, SpawnFailed
  <2>6. ASSUME state[k] = "running" PROVE \E b \in Actors : on'[b] = k /\ Runs(b)'
    <3>1. PICK b \in Actors : on[b] = k /\ Runs(b)
      BY <2>2, <2>6 DEF WorkedOn
    <3>. QED BY <2>3, <2>4, <3>1 DEF Runs, SpawnFailed
  <2>7. ASSUME state[k] \in Terminal, outcome[k] = None
        PROVE  \E b \in Actors : on'[b] = k /\ at'[b] = "recording"
    <3>1. PICK b \in Actors : on[b] = k /\ at[b] = "recording"
      BY <2>2, <2>7 DEF WorkedOn
    <3>. QED BY <2>3, <2>4, <3>1
  <2>. QED BY <1>1, <2>1, <2>5, <2>6, <2>7 DEF WorkedOn
<1>8. Alone'
  <2>1. ASSUME NEW a \in Actors, Turning(a)' \/ at'[a] = "recording"
        PROVE  /\ on'[a] = on[a] /\ Turning(a)' = Turning(a)
               /\ (at'[a] = "recording") = (at[a] = "recording")
    BY <1>5, <2>1 DEF Turning, Rest, SpawnFailed
  <2>. QED BY <2>1 DEF Inv, Alone
<1>9. FirstRunsWithinLimit' /\ KeepsFinished
  BY <1>1 DEF Inv, FirstRunsWithinLimit, ActiveChildren, IsActive, KeepsFinished
<1>. QED BY <1>4, <1>6, <1>7, <1>8, <1>9 DEF Inv

\* Every step keeps the invariant, and finished rows as they are.
LEMMA NextKeeps == TypeOK /\ Inv /\ [Next]_vars => TypeOK' /\ Inv' /\ KeepsFinished
<1>. SUFFICES ASSUME TypeOK, Inv, [Next]_vars PROVE TypeOK' /\ Inv' /\ KeepsFinished
  OBVIOUS
<1>1. ASSUME NEW a \in Actors, StepOf(a) PROVE TypeOK' /\ Inv' /\ KeepsFinished
  BY <1>1, TurnEndsStep, TurnLostStep, FinishStep, RecoveryStep, MarkStep, RecordStep,
     AnnounceStep, LeaveStep, DropStep DEF StepOf
<1>2. ASSUME NEW k \in Children, ChildStep(k) PROVE TypeOK' /\ Inv' /\ KeepsFinished
  <2>1. CASE StartSkipped(k) \/ StartFails(k) \/ LeaveFails(k)
    BY <2>1, SpawnFailsStep, DelegateAssumption DEF StartSkipped, StartFails, LeaveFails, Fault,
       NoFault, TypeOK
  <2>2. CASE Start(k)
    BY <2>2, StartStep
  <2>3. CASE \E m \in Modes[k] : Delegate(k, m) \/ DelegateUnconfirmed(k, m)
    BY <2>3, NewChildStep
  <2>. QED BY <1>2, <2>1, <2>2, <2>3 DEF ChildStep
<1>3. ASSUME NEW o \in Operators, ToolStep(o) PROVE TypeOK' /\ Inv' /\ KeepsFinished
  BY <1>3, LookStep, InterruptStep, ContinueStep DEF ToolStep
<1>4. CASE UNCHANGED vars
  <2>1. UNCHANGED <<rows, actors, lost, queue, faults>>
    BY <1>4 DEF vars
  <2>2. TypeOK'
    BY <2>1 DEF TypeOK, rows, actors, queue
  <2>. QED BY <2>1, <2>2, QuietStep
<1>. QED BY <1>1, <1>2, <1>3, <1>4, DrainKeeps, CrashKeeps DEF Next

\* At first nobody works, and there is nothing to work on.
LEMMA InitHolds == Init => TypeOK /\ Inv
<1>. SUFFICES ASSUME Init PROVE TypeOK /\ Inv
  OBVIOUS
<1>1. TypeOK
  BY DelegateAssumption DEF Init, TypeOK, States, Places, Actors
<1>2. \A a \in Actors : ActorOK(a) /\ ~Turning(a) /\ at[a] = "idle"
  BY DelegateAssumption DEF Init, ActorOK, Turning, SpawnFailed, Plans, Actors
<1>3. \A k \in Children : RowOK(k) /\ WorkedOn(k)
  BY DEF Init, RowOK, WorkedOn, IsActive, Terminal
<1>4. FirstRunsWithinLimit
  <2>1. ActiveChildren \ reopened = {}
    BY DEF Init, ActiveChildren, IsActive
  <2>. QED BY <2>1, FS_EmptySet, DelegateAssumption DEF FirstRunsWithinLimit
<1>. QED BY <1>1, <1>2, <1>3, <1>4 DEF Inv, Alone

\* The invariant holds in every reachable state.
LEMMA Invariance == Spec => [](TypeOK /\ Inv)
BY InitHolds, NextKeeps, PTL DEF Spec

\* Rows, actors and the queue keep their types, for every number of children, operators
\* and faults.
THEOREM TypeCorrect == Spec => []TypeOK
BY Invariance, PTL

\* Nobody starts or continues a child while another turn of it runs (tools/session.rs:930).
THEOREM OneRunner == Spec => []OneRunnerPerChild
<1>1. TypeOK /\ Inv => OneRunnerPerChild
  BY DEF Inv, Alone, Turning, OneRunnerPerChild
<1>. QED BY <1>1, Invariance, PTL

\* The limit holds for children that run for the first time, whatever was lost (tree.rs:167).
THEOREM LimitHolds == Spec => []FirstRunsWithinLimit
<1>1. Inv => FirstRunsWithinLimit
  BY DEF Inv
<1>. QED BY <1>1, Invariance, PTL

\* Without a fault of its own, a child that is not finished has somebody at work on it
\* (delegate_support.rs:119).
THEOREM OnlyLostLinger == Spec => []OnlyLostChildrenLinger
<1>1. TypeOK /\ Inv => OnlyLostChildrenLinger
  <2>. SUFFICES ASSUME Inv, NEW k \in Children, IsActive(k), k \notin lost
                PROVE  \E a \in Actors : on[a] = k /\ at[a] \in Working
    BY DEF OnlyLostChildrenLinger
  <2>1. WorkedOn(k) /\ on[k] = k /\ k \in Actors
    BY DEF Inv, ActorOK, Actors
  <2>2. \A b \in Actors : Awaits(b) \/ Runs(b) => at[b] \in Working
    BY DEF Awaits, Runs, Working
  <2>. QED BY <2>1, <2>2 DEF WorkedOn, IsActive
<1>. QED BY <1>1, Invariance, PTL

\* Whichever write of a recovery fails, a child that was not continued has the outcome that
\* its state tells and none before its end, and one that is finished has an outcome, which
\* after it was continued may be that of its earlier run (delegate_runtime.rs:466).
THEOREM OutcomesMatch == Spec => []OutcomesMatchStates
<1>1. Inv => OutcomesMatchStates
  BY DEF Inv, RowOK, WorkedOn, OutcomesMatchStates, FirstRunsHaveNoOutcome,
         FinishedHasOutcome, OutcomeSaysTheEnd
<1>. QED BY <1>1, Invariance, PTL

\* A row that failed or timed out keeps its state, a completed one only runs again, and the
\* first outcome stays for as long as the child is not continued (persistence.rs:1320).
THEOREM FinishedStays == Spec => FinishedIsFinal
<1>1. TypeOK /\ Inv /\ [Next]_vars => [KeepsFinished]_vars
  BY NextKeeps
<1>2. [KeepsFinished]_vars => [\A k \in Children :
          /\ state[k] \in {"failed", "timed_out"} => state'[k] = state[k]
          /\ state[k] = "completed" => state'[k] \in {"completed", "running"}
          /\ outcome[k] # None /\ k \notin reopened' => outcome'[k] = outcome[k]]_vars
  BY DEF KeepsFinished
<1>. QED BY <1>1, <1>2, Invariance, PTL DEF Spec, FinishedIsFinal

-----------------------------------------------------------------------------
(* Queued results *)

\* The safety half of ResultsAreAnnounced: whoever has queued results has a task that
\* drains them, and a batch is out only while that task writes it.
ResultsHaveADrain ==
    /\ pending # {} => drain # "none"
    /\ batch # {} => drain = "flushing"

\* A result is not dropped on its way: it leaves the queue for a batch, and the batch
\* only when it was written, unless the parent's process is killed.
ResultsKept ==
    \/ pending \cup batch \subseteq pending' \cup batch'
    \/ FlushBatch /\ pending \subseteq pending'
    \/ Crash(Home)

\* Only announcements, the task that drains them and crashes touch the queue.
LEMMA QueueLeftAlone ==
    ASSUME NEW a \in Actors, StepOf(a), ~Announce(a)
    PROVE  UNCHANGED queue
<1>1. CASE \E end \in Terminal : TurnEnds(a, end)
  BY <1>1 DEF TurnEnds
<1>2. CASE TurnLost(a) \/ Finish(a) \/ FinishFails(a) \/ RecordRecovery(a) \/ RecordRecoveryFails(a)
  BY <1>2 DEF TurnLost, Finish, FinishFails, RecordRecovery, RecordRecoveryFails
<1>3. CASE MarkFailed(a) \/ MarkFails(a) \/ RecordOutcome(a) \/ RecordOutcomeFails(a)
  BY <1>3 DEF MarkFailed, MarkFails, RecordOutcome, RecordOutcomeFails
<1>4. CASE Leave(a) \/ Drop(a)
  BY <1>4 DEF Leave, Drop
<1>. QED BY <1>1, <1>2, <1>3, <1>4 DEF StepOf

\* A queue with results is being drained, also when results arrive while others are
\* written or are put back because that failed, and none is lost on the way; the task
\* that drains it looks at the queue again before it ends (announce.rs:180).
THEOREM ResultsAreDrained == Spec => []ResultsHaveADrain /\ [][ResultsKept]_vars
<1>1. Init => ResultsHaveADrain
  BY DEF Init, ResultsHaveADrain
<1>2. ASSUME ResultsHaveADrain, [Next]_vars PROVE ResultsHaveADrain' /\ (ResultsKept \/ UNCHANGED vars)
  <2>1. ASSUME UNCHANGED queue PROVE ResultsHaveADrain' /\ ResultsKept
    BY <1>2, <2>1 DEF ResultsHaveADrain, ResultsKept, queue
  <2>2. ASSUME NEW a \in Actors, Announce(a) PROVE ResultsHaveADrain' /\ ResultsKept
    <3>1. CASE ProcessOf(a) = Home
      BY <1>2, <2>2, <3>1 DEF Announce, ResultsHaveADrain, ResultsKept
    <3>2. CASE ProcessOf(a) # Home
      BY <2>1, <2>2, <3>2 DEF Announce
    <3>. QED BY <3>1, <3>2
  <2>3. CASE TakeBatch
    BY <1>2, <2>3 DEF TakeBatch, ResultsHaveADrain, ResultsKept
  <2>4. CASE FlushBatch
    BY <1>2, <2>4 DEF FlushBatch, ResultsHaveADrain, ResultsKept
  <2>5. CASE FlushFails
    BY <1>2, <2>5 DEF FlushFails, ResultsHaveADrain, ResultsKept
  <2>6. CASE FinishBatch
    BY <1>2, <2>6 DEF FinishBatch, NextDrain, ResultsHaveADrain, ResultsKept
  <2>7. ASSUME NEW p \in Processes, Crash(p) PROVE ResultsHaveADrain' /\ ResultsKept
    <3>1. CASE p = Home
      BY <2>7, <3>1 DEF Crash, ResultsHaveADrain, ResultsKept
    <3>2. CASE p # Home
      BY <2>1, <2>7, <3>2 DEF Crash
    <3>. QED BY <3>1, <3>2
  <2>8. ASSUME NEW k \in Children, ChildStep(k) PROVE UNCHANGED queue
    BY <2>8 DEF ChildStep, Delegate, DelegateUnconfirmed, NewChild, Start, StartSkipped,
                StartFails, SpawnFails, LeaveFails
  <2>9. ASSUME NEW o \in Operators, ToolStep(o) PROVE UNCHANGED queue
    BY <2>9 DEF ToolStep, Look, ApplyCancel, ApplyRecover, BeginContinue, GiveUp
  <2>10. UNCHANGED vars => ResultsHaveADrain'
    BY <1>2, <2>1 DEF vars
  <2>. QED BY <1>2, <2>1, <2>2, <2>3, <2>4, <2>5, <2>6, <2>7, <2>8, <2>9, <2>10, QueueLeftAlone
           DEF Next, DrainStep
<1>3. ResultsHaveADrain /\ [Next]_vars => ResultsHaveADrain'
  BY <1>2
<1>4. ResultsHaveADrain /\ [Next]_vars => [ResultsKept]_vars
  BY <1>2
<1>. QED BY <1>1, <1>3, <1>4, PTL DEF Spec
=============================================================================
