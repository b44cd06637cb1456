------------------------- MODULE AcpSessions_proofs -------------------------
(***************************************************************************)
(* Proofs about AcpSessions for every number of calls and sessions: type   *)
(* correctness, the exact counts, one call per session, the turns that may *)
(* linger, and that the registry of mutexes implements SessionLine.        *)
(***************************************************************************)
EXTENDS AcpSessions, FiniteSetTheorems, SequenceTheorems, TLAPS

-----------------------------------------------------------------------------
(* Queues *)

\* Everybody is in a queue once.
Single(s) == \A i, j \in DOMAIN s : s[i] = s[j] => i = j

Waits(c, m) == \E i \in DOMAIN queue[m] : queue[m][i] = c

\* A queue without one of its callers.
LEMMA WithoutOne ==
    ASSUME NEW s \in Seq(Calls), NEW i \in DOMAIN s, Single(s)
    PROVE  LET r == Without(s, i) IN
           /\ r \in Seq(Calls) /\ Single(r)
           /\ \A d : (\E j \in DOMAIN r : r[j] = d) <=> (d # s[i] /\ \E j \in DOMAIN s : s[j] = d)
           /\ i # 1 => r # <<>> /\ r[1] = s[1]
<1>. DEFINE n == Len(s)
            a == SubSeq(s, 1, i - 1)
            b == SubSeq(s, i + 1, n)
            r == Without(s, i)
<1>1. n \in Nat /\ DOMAIN s = 1 .. n /\ i \in 1 .. n /\ \A j \in 1 .. n : s[j] \in Calls
  BY LenProperties, ElementOfSeq
<1>2. a \in Seq(Calls) /\ Len(a) = i - 1 /\ \A j \in 1 .. i - 1 : a[j] = s[j]
  <2>1. /\ 1 \in 1 .. n + 1 /\ i - 1 \in 0 .. n
        /\ \A j \in 1 .. i - 1 : s[j] \in Calls
    BY <1>1
  <2>. QED BY <1>1, <2>1, SubSeqProperties
<1>3. b \in Seq(Calls) /\ Len(b) = n - i /\ \A j \in 1 .. n - i : b[j] = s[j + i]
  <2>1. /\ i + 1 \in 1 .. n + 1 /\ n \in i .. n
        /\ \A j \in i + 1 .. n : s[j] \in Calls
    BY <1>1
  <2>. QED BY <1>1, <2>1, SubSeqProperties
<1>4. r = a \o b
  BY DEF Without
<1>5. /\ r \in Seq(Calls) /\ Len(r) = n - 1
      /\ \A j \in 1 .. i - 1 : r[j] = s[j]
      /\ \A j \in i .. n - 1 : r[j] = s[j + 1]
  <2>. HIDE DEF a, b, r, n
  <2>1. /\ r \in Seq(Calls) /\ Len(r) = Len(a) + Len(b)
        /\ \A j \in 1 .. Len(a) + Len(b) : r[j] = IF j <= Len(a) THEN a[j] ELSE b[j - Len(a)]
    BY <1>2, <1>3, <1>4, ConcatProperties
  <2>2. ASSUME NEW j \in 1 .. i - 1 PROVE r[j] = s[j]
    BY <1>1, <1>2, <1>3, <2>1
  <2>3. ASSUME NEW j \in i .. n - 1 PROVE r[j] = s[j + 1]
    <3>1. j \in 1 .. Len(a) + Len(b) /\ ~(j <= Len(a)) /\ j - Len(a) \in 1 .. n - i
      BY <1>1, <1>2, <1>3
    <3>2. r[j] = b[j - Len(a)] /\ (j - Len(a)) + i = j + 1
      BY <1>1, <1>2, <2>1, <3>1
    <3>. QED BY <1>3, <3>1, <3>2
  <2>4. Len(r) = n - 1
    BY <1>1, <1>2, <1>3, <2>1
  <2>. QED BY <2>1, <2>2, <2>3, <2>4
<1>6. DOMAIN r = 1 .. n - 1
  BY <1>5, LenProperties
<1>. HIDE DEF a, b, r, n
<1>. DEFINE old(j) == IF j < i THEN j ELSE j + 1
<1>7. ASSUME NEW j \in 1 .. n - 1
      PROVE  /\ j \in Nat /\ old(j) \in 1 .. n /\ old(j) # i
             /\ r[j] = s[old(j)]
  <2>1. j \in Nat /\ j >= 1 /\ j <= n - 1 /\ i \in Nat /\ i >= 1 /\ i <= n
    BY <1>1
  <2>2. CASE j < i
    <3>1. j \in 1 .. i - 1 /\ old(j) = j
      BY <2>1, <2>2
    <3>. QED BY <1>1, <1>5, <2>1, <2>2, <3>1
  <2>3. CASE ~(j < i)
    <3>1. j \in i .. n - 1 /\ old(j) = j + 1
      BY <1>1, <2>1, <2>3
    <3>2. r[j] = s[j + 1]
      BY <1>5, <3>1
    <3>. QED BY <1>1, <2>1, <2>3, <3>1, <3>2
  <2>. QED BY <2>2, <2>3
<1>8. Single(r)
  <2>1. SUFFICES ASSUME NEW j \in 1 .. n - 1, NEW k \in 1 .. n - 1, r[j] = r[k]
                 PROVE  j = k
    BY <1>6 DEF Single
  <2>2. /\ j \in Nat /\ old(j) \in DOMAIN s /\ r[j] = s[old(j)]
        /\ k \in Nat /\ old(k) \in DOMAIN s /\ r[k] = s[old(k)]
    BY <1>1, <1>7
  <2>3. old(j) = old(k)
    <3>. HIDE DEF old
    <3>. QED BY <2>1, <2>2 DEF Single
  <2>. QED BY <1>1, <2>2, <2>3
<1>9. ASSUME NEW d
      PROVE  (\E j \in DOMAIN r : r[j] = d) <=> (d # s[i] /\ \E j \in DOMAIN s : s[j] = d)
  <2>1. ASSUME NEW j \in DOMAIN r, r[j] = d PROVE d # s[i] /\ \E l \in DOMAIN s : s[l] = d
    <3>1. old(j) \in DOMAIN s /\ old(j) # i /\ s[old(j)] = d
      BY <1>1, <1>6, <1>7, <2>1
    <3>. HIDE DEF old
    <3>. QED BY <3>1 DEF Single
  <2>2. ASSUME NEW l \in DOMAIN s, s[l] = d, d # s[i] PROVE \E j \in DOMAIN r : r[j] = d
    <3>1. CASE l < i
      BY <1>1, <1>5, <1>6, <2>2, <3>1
    <3>2. CASE l > i
      <4>1. l - 1 \in i .. n - 1 /\ (l - 1) + 1 = l
        BY <1>1, <3>2
      <4>. QED BY <1>1, <1>5, <1>6, <2>2, <4>1
    <3>. QED BY <1>1, <2>2, <3>1, <3>2
  <2>. QED BY <2>1, <2>2
<1>10. i # 1 => r # <<>> /\ r[1] = s[1]
  BY <1>1, <1>5, EmptySeq
<1>. QED BY <1>5, <1>8, <1>9, <1>10 DEF r

\* A queue with one more caller.
LEMMA WithOneMore ==
    ASSUME NEW s \in Seq(Calls), NEW c \in Calls, Single(s), \A i \in DOMAIN s : s[i] # c
    PROVE  LET r == Append(s, c) IN
           /\ r \in Seq(Calls) /\ Single(r) /\ r # <<>>
           /\ \A d : (\E j \in DOMAIN r : r[j] = d) <=> (d = c \/ \E j \in DOMAIN s : s[j] = d)
           /\ s # <<>> => r[1] = s[1]
<1>. DEFINE r == Append(s, c)
<1>1. Len(s) \in Nat /\ DOMAIN s = 1 .. Len(s) /\ (s # <<>> => Len(s) >= 1)
  BY LenProperties, EmptySeq
<1>2. /\ r \in Seq(Calls) /\ Len(r) = Len(s) + 1 /\ r[Len(s) + 1] = c
      /\ \A i \in 1 .. Len(s) : r[i] = s[i]
  BY AppendProperties
<1>3. DOMAIN r = 1 .. Len(s) + 1 /\ r # <<>>
  BY <1>1, <1>2, LenProperties, EmptySeq
<1>. HIDE DEF r
<1>4. Single(r)
  BY <1>1, <1>2, <1>3 DEF Single
<1>5. ASSUME NEW d
      PROVE  (\E j \in DOMAIN r : r[j] = d) <=> (d = c \/ \E j \in DOMAIN s : s[j] = d)
  BY <1>1, <1>2, <1>3
<1>6. s # <<>> => r[1] = s[1]
  BY <1>1, <1>2
<1>. QED BY <1>2, <1>3, <1>4, <1>5, <1>6 DEF r

-----------------------------------------------------------------------------
(* The registry of mutexes *)

\* A call that observes is never in line, whatever it does.
HasMutex(c) == at[c] \in Joined /\ Kind(c) # "observe"
IsQueued(c) == at[c] \in Queued /\ Kind(c) # "observe"
IsCounted(c) == at[c] \in Counted /\ Kind(c) # "observe"
Before(c) == at[c] \in {"idle", "found", "signalled", "preempting", "preempted", "registered"}
Observing == {"idle", "sweeping", "choosing", "checking", "evicting", "done"}

\* A call that has a mutex has its session's, that of no other; no mutex is older than
\* the call that makes it; who waits for a mutex is in its queue, once, and who owns it
\* at its head.
LineInv ==
    /\ \A c \in Calls : HasMutex(c) => mine[c] \in Calls /\ entry[Key(c)] = mine[c]
    /\ \A k \in Sessions : entry[k] # None => Key(entry[k]) = k
    /\ \A c \in Calls, k \in Sessions : Before(c) => entry[k] # c
    /\ \A c, m \in Calls : Waits(c, m) <=> IsQueued(c) /\ mine[c] = m
    /\ \A m \in Calls : Single(queue[m])
    /\ \A c \in Calls : HasGuard(c) => queue[mine[c]] # <<>> /\ queue[mine[c]][1] = c
    /\ \A c \in Calls : Kind(c) = "observe" => at[c] \in Observing

\* A step that leaves the queues alone, and moves its call only where it keeps its
\* mutex and its place, or where it needs neither.
Quiet(c) ==
    /\ UNCHANGED <<job, entry, queue>>
    /\ \A d \in Calls \ {c} : at'[d] = at[d] /\ mine'[d] = mine[d]
    /\ HasMutex(c)' => HasMutex(c)
    /\ IsQueued(c)' <=> IsQueued(c)
    /\ HasMutex(c)' \/ IsQueued(c) => mine'[c] = mine[c]
    /\ HasGuard(c)' => HasGuard(c) \/ (queue[mine[c]] # <<>> /\ queue[mine[c]][1] = c)
    /\ Before(c)' => Before(c)
    /\ Kind(c) = "observe" => at'[c] \in Observing

\* A quiet step that nobody enters or leaves the counts by.
Silent(c) ==
    /\ Quiet(c)
    /\ UNCHANGED <<mine, refs, pending>>
    /\ IsCounted(c)' <=> IsCounted(c)

\* Counts stay as they are when nobody enters or leaves.
LEMMA CountsKept ==
    ASSUME CountsAreExact, UNCHANGED <<job, refs, pending>>,
           \A d \in Calls : IsCounted(d)' <=> IsCounted(d)
    PROVE  CountsAreExact'
<1>1. ASSUME NEW k \in Sessions PROVE CountedOn(k)' = CountedOn(k) /\ TurnsOn(k)' = TurnsOn(k)
  <2>1. \A d \in Calls : Kind(d)' = Kind(d) /\ Key(d)' = Key(d)
    BY DEF Kind, Key
  <2>2. \A d : d \in CountedOn(k)' <=> d \in Calls /\ IsCounted(d)' /\ Key(d)' = k
    BY DEF CountedOn, IsCounted
  <2>3. \A d : d \in CountedOn(k) <=> d \in Calls /\ IsCounted(d) /\ Key(d) = k
    BY DEF CountedOn, IsCounted
  <2>4. CountedOn(k)' = CountedOn(k)
    BY <2>1, <2>2, <2>3
  <2>. QED BY <2>1, <2>3, <2>4 DEF TurnsOn
<1>. QED BY <1>1 DEF CountsAreExact

\* What others are in line for stays what it was.
LEMMA OthersInLine ==
    ASSUME NEW c \in Calls, NEW d \in Calls \ {c}, at'[d] = at[d], job' = job
    PROVE  /\ IsCounted(d)' = IsCounted(d) /\ HasMutex(d)' = HasMutex(d)
           /\ IsQueued(d)' = IsQueued(d) /\ HasGuard(d)' = HasGuard(d)
           /\ Before(d)' = Before(d) /\ Kind(d)' = Kind(d) /\ Key(d)' = Key(d)
  BY DEF IsCounted, HasMutex, IsQueued, HasGuard, Before, Kind, Key

\* The sets of places, one by one, for the provers.
LEMMA PlacesOf ==
    /\ Asleep = {"evicting", "creating", "running", "asking"}
    /\ Guarded = {"evicting", "creating", "running", "asking", "sweeping", "choosing", "checking",
                  "swept", "resolved", "marked", "settling", "closing", "releasing"}
    /\ Queued = Guarded \cup {"queued"}
    /\ Joined = Queued \cup {"joined", "released"}
    /\ Counted = Joined \cup {"registered"}
  BY DEF Asleep, Guarded, Queued, Joined, Counted

\* A quiet step keeps the registry in order.
LEMMA QuietKeeps ==
    ASSUME TypeOK, LineInv, NEW c \in Calls, Quiet(c)
    PROVE  LineInv' /\ LineOf' = LineOf
<1>1. /\ UNCHANGED <<job, entry, queue>>
      /\ \A d \in Calls : Kind(d)' = Kind(d) /\ Key(d)' = Key(d)
  BY DEF Quiet, Kind, Key
<1>2. ASSUME NEW d \in Calls, d # c
      PROVE  /\ HasMutex(d)' = HasMutex(d)
             /\ IsQueued(d)' = IsQueued(d) /\ HasGuard(d)' = HasGuard(d)
             /\ Before(d)' = Before(d) /\ mine'[d] = mine[d]
  BY <1>1, <1>2, OthersInLine DEF Quiet
<1>4. LineOf' = LineOf
  BY <1>1 DEF LineOf
<1>5. \A d \in Calls, m \in Calls : Waits(d, m)' = Waits(d, m)
  BY <1>1 DEF Waits
<1>6. /\ \A d \in Calls : HasMutex(d)' => mine'[d] \in Calls /\ entry[Key(d)] = mine'[d]
      /\ \A d \in Calls, k \in Sessions : Before(d)' => entry[k] # d
      /\ \A d \in Calls, m \in Calls : Waits(d, m) <=> IsQueued(d)' /\ mine'[d] = m
      /\ \A d \in Calls : Kind(d) = "observe" => at'[d] \in Observing
  BY <1>2 DEF Quiet, LineInv
<1>3. ASSUME NEW d \in Calls, HasGuard(d)' PROVE queue[mine'[d]] # <<>> /\ queue[mine'[d]][1] = d
  <2>1. HasGuard(c)' => HasMutex(c)'
    BY PlacesOf DEF HasGuard, HasMutex
  <2>. QED BY <1>2, <1>3, <2>1 DEF Quiet, LineInv
<1>7. \A k \in Sessions : (entry[k] # None => Key(entry[k]) = k)'
  BY <1>1 DEF LineInv, Key
<1>8. \A m \in Calls : Single(queue[m])'
  BY <1>1 DEF LineInv, Single
<1>9. LineInv'
  <2>1. \A d \in Calls : /\ (HasMutex(d) => mine[d] \in Calls /\ entry[Key(d)] = mine[d])'
                         /\ \A k \in Sessions : (Before(d) => entry[k] # d)'
                         /\ \A m \in Calls : (Waits(d, m) <=> IsQueued(d) /\ mine[d] = m)'
                         /\ (HasGuard(d) => queue[mine[d]] # <<>> /\ queue[mine[d]][1] = d)'
                         /\ (Kind(d) = "observe" => at[d] \in Observing)'
    BY <1>1, <1>3, <1>5, <1>6
  <2>. QED BY <2>1, <1>7, <1>8 DEF LineInv
<1>. QED BY <1>4, <1>9

\* The steps that leave the registry alone.
LEMMA SilentSteps ==
    ASSUME TypeOK, LineInv, NEW c \in Calls,
           \/ LookUp(c) \/ Observe(c) \/ PreemptStep(c) \/ SweepStep(c) \/ TurnStep(c)
           \/ ControlStep(c) \/ DropCall(c) \/ Acquire(c)
    PROVE  Silent(c)
<1>. USE PlacesOf DEF registry, MoveTo, Quiet, Silent, IsCounted, HasMutex, IsQueued, HasGuard,
        Before, Observing, Kind
<1>0. /\ Kind(c) = "observe" => at[c] \in Observing
      /\ at \in [Calls -> Places]
  BY DEF LineInv, TypeOK
<1>1. CASE LookUp(c) \/ Observe(c)
  BY <1>0, <1>1 DEF LookUp, Observe
<1>2. CASE PreemptStep(c)
  BY <1>0, <1>2 DEF PreemptStep, AnswerFromStore, Abort, MarkCancelling, CancelAccepted,
     CancelFailed
<1>3. CASE SweepStep(c)
  BY <1>0, <1>3 DEF SweepStep, ListIdle, SkipSession, FindUncounted, SkipTurn, CloseIdle,
     Evict, KeepIdle, EndSweep
<1>4. CASE TurnStep(c)
  BY <1>0, <1>4 DEF TurnStep, ReuseSession, CreateSession, SessionCreated, CreationFailed,
     MarkBusy, StartTurn, TurnReturns, SettleTurn
<1>5. CASE ControlStep(c)
  BY <1>0, <1>5 DEF ControlStep, AskBackend, BackendAnswers, BackendCloses, ForgetSession
<1>6. CASE DropCall(c)
  BY <1>0, <1>6 DEF DropCall
<1>7. CASE Acquire(c)
  <2>1. Kind(c) # "observe" /\ at[c] = "queued" /\ Waits(c, mine[c])
    BY <1>0, <1>7 DEF Acquire, Observing, LineInv, IsQueued, HasMutex
  <2>2. queue[mine[c]] # <<>>
    BY <2>1, EmptySeq DEF Waits
  <2>. QED BY <1>0, <1>7, <2>1, <2>2 DEF Acquire
<1>. QED BY <1>1, <1>2, <1>3, <1>4, <1>5, <1>6, <1>7

-----------------------------------------------------------------------------
(* The counts *)

CountsTyped == refs \in [Sessions -> Nat] /\ pending \in [Sessions -> Nat]

\* The counted calls of a session are a finite set.
LEMMA CountedFinite ==
    /\ \A k : IsFiniteSet(CountedOn(k)) /\ IsFiniteSet(TurnsOn(k))
    /\ \A k, d : /\ d \in CountedOn(k) <=> d \in Calls /\ IsCounted(d) /\ Key(d) = k
                 /\ d \in TurnsOn(k) <=> d \in CountedOn(k) /\ Kind(d) = "turn"
<1>1. \A k, d : /\ d \in CountedOn(k) <=> d \in Calls /\ IsCounted(d) /\ Key(d) = k
                /\ d \in TurnsOn(k) <=> d \in CountedOn(k) /\ Kind(d) = "turn"
  BY DEF CountedOn, TurnsOn, IsCounted
<1>2. \A k : CountedOn(k) \subseteq Calls /\ TurnsOn(k) \subseteq Calls
  BY <1>1
<1>. QED BY <1>1, <1>2, FS_Subset, AcpAssumption

\* A call that enters is counted once.
LEMMA CountedInOnce ==
    ASSUME TypeOK, CountsAreExact, NEW c \in Calls, job' = job, CountIn(c),
           ~IsCounted(c), IsCounted(c)', \A d \in Calls \ {c} : IsCounted(d)' <=> IsCounted(d)
    PROVE  CountsAreExact' /\ CountsTyped'
<1>1. /\ Key(c) \in Sessions
      /\ \A d : Kind(d)' = Kind(d) /\ Key(d)' = Key(d)
  BY DEF TypeOK, Kind, Key
<1>2. ASSUME NEW k \in Sessions
      PROVE  /\ refs'[k] = Cardinality(CountedOn(k)') /\ refs'[k] \in Nat
             /\ pending'[k] = Cardinality(TurnsOn(k)') /\ pending'[k] \in Nat
  <2>1. /\ IsFiniteSet(CountedOn(k)) /\ IsFiniteSet(TurnsOn(k))
        /\ c \notin CountedOn(k) /\ c \notin TurnsOn(k)
        /\ refs[k] = Cardinality(CountedOn(k)) /\ pending[k] = Cardinality(TurnsOn(k))
        /\ refs[k] \in Nat /\ pending[k] \in Nat
    BY CountedFinite DEF CountsAreExact, TypeOK
  <2>2. /\ \A d : d \in CountedOn(k)' <=> d \in Calls /\ IsCounted(d)' /\ Key(d) = k
        /\ \A d : d \in TurnsOn(k)' <=> d \in CountedOn(k)' /\ Kind(d) = "turn"
    BY <1>1 DEF CountedOn, TurnsOn, IsCounted
  <2>3. /\ refs'[k] = IF k = Key(c) THEN refs[k] + 1 ELSE refs[k]
        /\ pending'[k] = IF k = Key(c) /\ Kind(c) = "turn" THEN pending[k] + 1 ELSE pending[k]
    BY DEF CountIn, TypeOK
  <2>4. CASE k = Key(c)
    <3>1. CountedOn(k)' = CountedOn(k) \cup {c}
      BY <2>2, <2>4, CountedFinite
    <3>2. TurnsOn(k)' = IF Kind(c) = "turn" THEN TurnsOn(k) \cup {c} ELSE TurnsOn(k)
      BY <2>2, <3>1, CountedFinite
    <3>3. /\ Cardinality(CountedOn(k) \cup {c}) = Cardinality(CountedOn(k)) + 1
          /\ Cardinality(TurnsOn(k) \cup {c}) = Cardinality(TurnsOn(k)) + 1
      BY <2>1, FS_AddElement
    <3>. QED BY <2>1, <2>3, <2>4, <3>1, <3>2, <3>3
  <2>5. CASE k # Key(c)
    <3>1. CountedOn(k)' = CountedOn(k)
      BY <2>2, <2>5, CountedFinite
    <3>2. TurnsOn(k)' = TurnsOn(k)
      BY <2>2, <3>1, CountedFinite
    <3>. QED BY <2>1, <2>3, <2>5, <3>1, <3>2
  <2>. QED BY <2>4, <2>5
<1>3. CountsTyped'
  BY <1>2 DEF CountsTyped, CountIn, TypeOK
<1>. QED BY <1>2, <1>3 DEF CountsAreExact

\* A call that leaves is counted out once, and the counts never go below zero.
LEMMA CountedOutOnce ==
    ASSUME TypeOK, CountsAreExact, NEW c \in Calls, job' = job, CountOut(c),
           IsCounted(c), ~IsCounted(c)', \A d \in Calls \ {c} : IsCounted(d)' <=> IsCounted(d)
    PROVE  CountsAreExact' /\ CountsTyped'
<1>1. /\ Key(c) \in Sessions
      /\ \A d : Kind(d)' = Kind(d) /\ Key(d)' = Key(d)
  BY DEF TypeOK, Kind, Key
<1>2. ASSUME NEW k \in Sessions
      PROVE  /\ refs'[k] = Cardinality(CountedOn(k)') /\ refs'[k] \in Nat
             /\ pending'[k] = Cardinality(TurnsOn(k)') /\ pending'[k] \in Nat
  <2>1. /\ IsFiniteSet(CountedOn(k)) /\ IsFiniteSet(TurnsOn(k))
        /\ refs[k] = Cardinality(CountedOn(k)) /\ pending[k] = Cardinality(TurnsOn(k))
        /\ refs[k] \in Nat /\ pending[k] \in Nat
    BY CountedFinite DEF CountsAreExact, TypeOK
  <2>2. /\ \A d : d \in CountedOn(k)' <=> d \in Calls /\ IsCounted(d)' /\ Key(d) = k
        /\ \A d : d \in TurnsOn(k)' <=> d \in CountedOn(k)' /\ Kind(d) = "turn"
    BY <1>1 DEF CountedOn, TurnsOn, IsCounted
  <2>3. /\ refs'[k] = IF k = Key(c) THEN refs[k] - 1 ELSE refs[k]
        /\ pending'[k] = IF k = Key(c) /\ Kind(c) = "turn" THEN pending[k] - 1 ELSE pending[k]
    BY DEF CountOut, TypeOK
  <2>4. CASE k = Key(c)
    <3>1. CountedOn(k)' = CountedOn(k) \ {c} /\ c \in CountedOn(k)
      BY <2>2, <2>4, CountedFinite
    <3>2. /\ TurnsOn(k)' = IF Kind(c) = "turn" THEN TurnsOn(k) \ {c} ELSE TurnsOn(k)
          /\ Kind(c) = "turn" => c \in TurnsOn(k)
      BY <2>2, <3>1, CountedFinite
    <3>3. /\ Cardinality(CountedOn(k) \ {c}) = Cardinality(CountedOn(k)) - 1
          /\ Cardinality(CountedOn(k) \ {c}) \in Nat
      <4>1. IsFiniteSet(CountedOn(k) \ {c})
        BY <2>1, FS_RemoveElement
      <4>. QED BY <2>1, <3>1, <4>1, FS_RemoveElement, FS_CardinalityType
    <3>4. Kind(c) = "turn" => /\ Cardinality(TurnsOn(k) \ {c}) = Cardinality(TurnsOn(k)) - 1
                              /\ Cardinality(TurnsOn(k) \ {c}) \in Nat
      <4>1. IsFiniteSet(TurnsOn(k) \ {c})
        BY <2>1, FS_RemoveElement
      <4>. QED BY <2>1, <3>2, <4>1, FS_RemoveElement, FS_CardinalityType
    <3>. QED BY <2>1, <2>3, <2>4, <3>1, <3>2, <3>3, <3>4
  <2>5. CASE k # Key(c)
    <3>1. CountedOn(k)' = CountedOn(k)
      BY <2>2, <2>5, CountedFinite
    <3>2. TurnsOn(k)' = TurnsOn(k)
      BY <2>2, <3>1, CountedFinite
    <3>. QED BY <2>1, <2>3, <2>5, <3>1, <3>2
  <2>. QED BY <2>4, <2>5
<1>3. CountsTyped'
  BY <1>2 DEF CountsTyped, CountOut, TypeOK
<1>. QED BY <1>2, <1>3 DEF CountsAreExact

-----------------------------------------------------------------------------
(* The steps of the registry *)

Ordered == LineInv /\ CountsAreExact /\ CountsTyped

\* A call only makes itself known.
LEMMA RegisterKeeps ==
    ASSUME TypeOK, LineInv, CountsAreExact, NEW c \in Calls, Register(c)
    PROVE  Ordered' /\ LineOf' = LineOf
<1>. USE PlacesOf
<1>0. /\ Kind(c) = "observe" => at[c] \in Observing
      /\ at \in [Calls -> Places]
  BY DEF LineInv, TypeOK
<1>1. /\ at[c] \in {"idle", "found", "preempted"} /\ at' = [at EXCEPT ![c] = "registered"]
      /\ UNCHANGED <<job, mine, entry, queue>> /\ CountIn(c)
  BY DEF Register, MoveTo
<1>2. Kind(c) # "observe"
  BY <1>0 DEF Register, Observing
<1>3. Quiet(c)
  BY <1>0, <1>1, <1>2 DEF Quiet, HasMutex, IsQueued, HasGuard, Before, Kind
<1>4. ~IsCounted(c) /\ IsCounted(c)' /\ \A d \in Calls \ {c} : IsCounted(d)' <=> IsCounted(d)
  BY <1>0, <1>1, <1>2 DEF IsCounted, Kind
<1>. QED BY <1>1, <1>3, <1>4, QuietKeeps, CountedInOnce DEF Ordered

\* A call that is through with the queue is counted out.
LEMMA UncountKeeps ==
    ASSUME TypeOK, LineInv, CountsAreExact, NEW c \in Calls, Uncount(c)
    PROVE  Ordered' /\ LineOf' = LineOf
<1>. USE PlacesOf
<1>0. /\ Kind(c) = "observe" => at[c] \in Observing
      /\ at \in [Calls -> Places] /\ mine \in [Calls -> Calls \cup {None}]
  BY DEF LineInv, TypeOK
<1>1. /\ at[c] = "released" /\ at' = [at EXCEPT ![c] = "uncounted"]
      /\ mine' = [mine EXCEPT ![c] = None]
      /\ UNCHANGED <<job, entry, queue>> /\ CountOut(c)
  BY DEF Uncount, MoveTo
<1>2. Kind(c) # "observe"
  BY <1>0, <1>1 DEF Observing
<1>3. Quiet(c)
  BY <1>0, <1>1, <1>2 DEF Quiet, HasMutex, IsQueued, HasGuard, Before, Kind
<1>4. IsCounted(c) /\ ~IsCounted(c)' /\ \A d \in Calls \ {c} : IsCounted(d)' <=> IsCounted(d)
  BY <1>0, <1>1, <1>2 DEF IsCounted, Kind
<1>. QED BY <1>1, <1>3, <1>4, QuietKeeps, CountedOutOnce DEF Ordered

\* Nobody waits for a mutex that no counted call of its session has.
LEMMA NobodyWaits ==
    ASSUME TypeOK, LineInv, NEW m \in Calls,
           \A d \in Calls : ~(IsQueued(d) /\ mine[d] = m)
    PROVE  queue[m] = <<>>
<1>1. queue[m] \in Seq(Calls) /\ \A i \in DOMAIN queue[m] : queue[m][i] \in Calls
  BY ElementOfSeq, LenProperties DEF TypeOK
<1>2. DOMAIN queue[m] = {}
  BY <1>1 DEF LineInv, Waits
<1>3. PICK n \in Nat : n = Len(queue[m]) /\ DOMAIN queue[m] = 1 .. n
  BY <1>1, LenProperties
<1>4. Len(queue[m]) = 0
  <2>1. n >= 1 => 1 \in 1 .. n
    OBVIOUS
  <2>. QED BY <1>2, <1>3, <2>1
<1>5. \A q \in Seq(Calls) : q = <<>> <=> Len(q) = 0
  BY EmptySeq
<1>. QED BY <1>1, <1>4, <1>5

\* A call takes its session's mutex, or puts in one that nobody has waited for.
LEMMA JoinKeeps ==
    ASSUME TypeOK, LineInv, CountsAreExact, NEW c \in Calls, Join(c)
    PROVE  Ordered' /\ LineOf' = LineOf
<1>. USE PlacesOf
<1>0. /\ Kind(c) = "observe" => at[c] \in Observing
      /\ at \in [Calls -> Places] /\ mine \in [Calls -> Calls \cup {None}]
      /\ entry \in [Sessions -> Calls \cup {None}] /\ None \notin Calls
      /\ Key(c) \in Sessions
  BY AcpAssumption DEF LineInv, TypeOK, Key
<1>1. PICK m : /\ m = IF entry[Key(c)] = None THEN c ELSE entry[Key(c)]
               /\ entry' = [entry EXCEPT ![Key(c)] = m]
               /\ mine' = [mine EXCEPT ![c] = m]
               /\ at[c] = "registered" /\ at' = [at EXCEPT ![c] = "joined"]
               /\ UNCHANGED <<job, queue, refs, pending>>
  BY DEF Join, MoveTo
<1>2. Kind(c) # "observe" /\ m \in Calls
  BY <1>0, <1>1 DEF Observing
<1>3. \A d \in Calls : Kind(d)' = Kind(d) /\ Key(d)' = Key(d)
  BY <1>1 DEF Kind, Key
<1>4. /\ \A d \in Calls \ {c} : /\ IsCounted(d)' = IsCounted(d) /\ HasMutex(d)' = HasMutex(d)
                               /\ IsQueued(d)' = IsQueued(d) /\ HasGuard(d)' = HasGuard(d)
                               /\ Before(d)' = Before(d)
                               /\ mine'[d] = mine[d] /\ at'[d] = at[d]
      /\ IsCounted(c) /\ IsCounted(c)' /\ ~IsQueued(c) /\ ~IsQueued(c)' /\ ~HasGuard(c)'
      /\ ~Before(c)' /\ Before(c)
  <2>1. \A d \in Calls \ {c} : mine'[d] = mine[d] /\ at'[d] = at[d]
    BY <1>0, <1>1
  <2>2. /\ IsCounted(c) /\ IsCounted(c)' /\ ~IsQueued(c) /\ ~IsQueued(c)' /\ ~HasGuard(c)'
        /\ ~Before(c)' /\ Before(c)
    BY <1>0, <1>1, <1>2, <1>3 DEF IsCounted, IsQueued, HasGuard, Before
  <2>. QED BY <1>1, <2>1, <2>2, OthersInLine
<1>5. \A d \in Calls : HasMutex(d)' => mine'[d] \in Calls /\ entry'[Key(d)] = mine'[d]
  <2>1. ASSUME NEW d \in Calls \ {c}, HasMutex(d)
        PROVE  mine[d] \in Calls /\ entry'[Key(d)] = mine[d]
    BY <1>0, <1>1, <2>1 DEF LineInv
  <2>. QED BY <1>0, <1>1, <1>2, <1>4, <2>1
<1>6. \A k \in Sessions : entry'[k] # None => Key(entry'[k]) = k
  BY <1>0, <1>1 DEF LineInv
<1>7. \A d \in Calls, k \in Sessions : Before(d)' => entry'[k] # d
  BY <1>0, <1>1, <1>4 DEF LineInv
<1>8. \A d, n \in Calls : Waits(d, n)' <=> IsQueued(d)' /\ mine'[d] = n
  <2>1. \A d, n \in Calls : Waits(d, n)' = Waits(d, n)
    BY <1>1 DEF Waits
  <2>. QED BY <1>4, <2>1 DEF LineInv
<1>9. \A n \in Calls : Single(queue[n])'
  BY <1>1 DEF LineInv, Single
<1>10. \A d \in Calls : HasGuard(d)' => queue'[mine'[d]] # <<>> /\ queue'[mine'[d]][1] = d
  BY <1>1, <1>4 DEF LineInv
<1>11. \A d \in Calls : Kind(d)' = "observe" => at'[d] \in Observing
  BY <1>2, <1>3, <1>4 DEF LineInv
<1>12. LineInv'
  <2>1. \A k \in Sessions : (entry[k] # None => Key(entry[k]) = k)'
    BY <1>1, <1>6 DEF Key
  <2>. QED BY <1>5, <2>1, <1>7, <1>8, <1>9, <1>10, <1>11, <1>3 DEF LineInv
<1>13. CountsAreExact' /\ CountsTyped'
  BY <1>1, <1>4, CountsKept DEF CountsTyped, TypeOK
<1>14. entry[Key(c)] = None => queue[c] = <<>>
  <2>1. ASSUME NEW d \in Calls, IsQueued(d), mine[d] = c PROVE FALSE
    BY <1>4, <2>1 DEF LineInv, HasMutex, IsQueued, TypeOK, Key
  <2>. QED BY <2>1, NobodyWaits
<1>15. LineOf' = LineOf
  BY <1>0, <1>1, <1>14 DEF LineOf
<1>. QED BY <1>12, <1>13, <1>15 DEF Ordered

\* The entry of a session goes when no counted call has its mutex.
LEMMA RemoveKeeps ==
    ASSUME TypeOK, LineInv, CountsAreExact, NEW c \in Calls, RemoveEntry(c)
    PROVE  Ordered' /\ LineOf' = LineOf
<1>. USE PlacesOf
<1>0. /\ Kind(c) = "observe" => at[c] \in Observing
      /\ at \in [Calls -> Places]
      /\ entry \in [Sessions -> Calls \cup {None}] /\ None \notin Calls
      /\ Key(c) \in Sessions
  BY AcpAssumption DEF LineInv, TypeOK, Key
<1>1. /\ at[c] = "uncounted" /\ at' = [at EXCEPT ![c] = "done"]
      /\ entry' = [entry EXCEPT ![Key(c)] = IF refs[Key(c)] = 0 THEN None ELSE @]
      /\ UNCHANGED <<job, mine, queue, refs, pending>>
  BY DEF RemoveEntry, MoveTo
<1>2. \A d \in Calls : Kind(d)' = Kind(d) /\ Key(d)' = Key(d)
  BY <1>1 DEF Kind, Key
<1>3. /\ \A d \in Calls \ {c} : /\ IsCounted(d)' = IsCounted(d) /\ HasMutex(d)' = HasMutex(d)
                               /\ IsQueued(d)' = IsQueued(d) /\ HasGuard(d)' = HasGuard(d)
                               /\ Before(d)' = Before(d) /\ at'[d] = at[d]
      /\ ~IsCounted(c) /\ ~IsCounted(c)' /\ ~IsQueued(c) /\ ~IsQueued(c)' /\ ~HasGuard(c)'
      /\ ~Before(c)' /\ ~HasMutex(c)' /\ at'[c] \in Observing
  <2>1. \A d \in Calls \ {c} : at'[d] = at[d]
    BY <1>0, <1>1
  <2>2. /\ ~IsCounted(c) /\ ~IsCounted(c)' /\ ~IsQueued(c) /\ ~IsQueued(c)' /\ ~HasGuard(c)'
        /\ ~Before(c)' /\ ~HasMutex(c)' /\ at'[c] \in Observing
    BY <1>0, <1>1, <1>2 DEF IsCounted, IsQueued, HasGuard, HasMutex, Before, Observing
  <2>. QED BY <1>1, <2>1, <2>2, OthersInLine
<1>4. ASSUME NEW d \in Calls, IsCounted(d), Key(d) = Key(c) PROVE refs[Key(c)] # 0
  <2>1. d \in CountedOn(Key(c)) /\ IsFiniteSet(CountedOn(Key(c)))
    BY <1>4, CountedFinite
  <2>2. Cardinality(CountedOn(Key(c))) # 0
    BY <2>1, FS_EmptySet
  <2>. QED BY <1>0, <2>2 DEF CountsAreExact
<1>5. \A d \in Calls : HasMutex(d) => IsCounted(d)
  BY DEF HasMutex, IsCounted
<1>6. \A d \in Calls : HasMutex(d)' => mine[d] \in Calls /\ entry'[Key(d)] = mine[d]
  <2>1. ASSUME NEW d \in Calls \ {c}, HasMutex(d) PROVE entry'[Key(d)] = entry[Key(d)]
    BY <1>0, <1>1, <1>4, <1>5, <2>1
  <2>. QED BY <1>3, <2>1 DEF LineInv
<1>7. \A k \in Sessions : entry'[k] = entry[k] \/ (k = Key(c) /\ refs[k] = 0 /\ entry'[k] = None)
  BY <1>0, <1>1
<1>8. \A k \in Sessions : (entry[k] # None => Key(entry[k]) = k)'
  BY <1>1, <1>7 DEF LineInv, Key
<1>9. \A d \in Calls, k \in Sessions : Before(d)' => entry'[k] # d
  BY <1>0, <1>3, <1>7 DEF LineInv
<1>10. \A d, n \in Calls : Waits(d, n)' <=> IsQueued(d)' /\ mine'[d] = n
  <2>1. \A d, n \in Calls : Waits(d, n)' = Waits(d, n)
    BY <1>1 DEF Waits
  <2>. QED BY <1>1, <1>3, <2>1 DEF LineInv
<1>11. \A n \in Calls : Single(queue[n])'
  BY <1>1 DEF LineInv, Single
<1>12. \A d \in Calls : HasGuard(d)' => queue'[mine'[d]] # <<>> /\ queue'[mine'[d]][1] = d
  BY <1>1, <1>3 DEF LineInv
<1>13. \A d \in Calls : Kind(d)' = "observe" => at'[d] \in Observing
  BY <1>2, <1>3 DEF LineInv
<1>14. LineInv'
  BY <1>1, <1>6, <1>8, <1>9, <1>10, <1>11, <1>12, <1>13, <1>2 DEF LineInv
<1>15. CountsAreExact' /\ CountsTyped'
  BY <1>1, <1>3, CountsKept DEF CountsTyped, TypeOK
<1>16. ASSUME NEW k \in Sessions, entry'[k] # entry[k] PROVE queue[entry[k]] = <<>>
  <2>1. k = Key(c) /\ refs[k] = 0 /\ entry[k] # None
    BY <1>7, <1>16
  <2>2. PICK m \in Calls : m = entry[k] /\ Key(m) = k
    BY <1>0, <2>1 DEF LineInv
  <2>3. ASSUME NEW d \in Calls, IsQueued(d), mine[d] = m PROVE FALSE
    <3>1. HasMutex(d) /\ Key(d) \in Sessions
      BY <2>3 DEF IsQueued, HasMutex, TypeOK, Key
    <3>2. entry[Key(d)] = m
      BY <2>3, <3>1 DEF LineInv
    <3>3. entry[Key(d)] # None
      BY <1>0, <3>2
    <3>4. Key(d) = k
      BY <2>2, <3>1, <3>2, <3>3 DEF LineInv
    <3>. QED BY <1>4, <1>5, <2>1, <3>1, <3>4
  <2>. QED BY <2>2, <2>3, NobodyWaits
<1>17. LineOf' = LineOf
  BY <1>0, <1>1, <1>7, <1>16 DEF LineOf
<1>. QED BY <1>14, <1>15, <1>17 DEF Ordered

\* A call joins the end of its session's line.
LEMMA EnqueueKeeps ==
    ASSUME TypeOK, LineInv, CountsAreExact, NEW c \in Calls, Enqueue(c)
    PROVE  /\ Ordered' /\ queue' \in [Calls -> Seq(Calls)]
           /\ \A k \in Sessions : \A i \in DOMAIN LineOf[k] : LineOf[k][i] # c
           /\ LineOf' = [LineOf EXCEPT ![Key(c)] = Append(@, c)]
<1>. USE PlacesOf
<1>0. /\ Kind(c) = "observe" => at[c] \in Observing
      /\ at \in [Calls -> Places] /\ queue \in [Calls -> Seq(Calls)]
      /\ entry \in [Sessions -> Calls \cup {None}] /\ None \notin Calls
      /\ Key(c) \in Sessions
  BY AcpAssumption DEF LineInv, TypeOK, Key
<1>1. /\ at[c] = "joined" /\ at' = [at EXCEPT ![c] = "queued"]
      /\ queue' = [queue EXCEPT ![mine[c]] = Append(@, c)]
      /\ UNCHANGED <<job, mine, entry, refs, pending>>
  BY DEF Enqueue, MoveTo
<1>2. Kind(c) # "observe"
  BY <1>0, <1>1 DEF Observing
<1>3. \A d \in Calls : Kind(d)' = Kind(d) /\ Key(d)' = Key(d)
  BY <1>1 DEF Kind, Key
<1>4. /\ \A d \in Calls \ {c} : /\ IsCounted(d)' = IsCounted(d) /\ HasMutex(d)' = HasMutex(d)
                               /\ IsQueued(d)' = IsQueued(d) /\ HasGuard(d)' = HasGuard(d)
                               /\ Before(d)' = Before(d) /\ at'[d] = at[d]
      /\ IsCounted(c) /\ IsCounted(c)' /\ HasMutex(c) /\ HasMutex(c)' /\ ~IsQueued(c)
      /\ IsQueued(c)' /\ ~HasGuard(c)' /\ ~Before(c)'
  <2>1. \A d \in Calls \ {c} : at'[d] = at[d]
    BY <1>0, <1>1
  <2>2. /\ IsCounted(c) /\ IsCounted(c)' /\ HasMutex(c) /\ HasMutex(c)' /\ ~IsQueued(c)
        /\ IsQueued(c)' /\ ~HasGuard(c)' /\ ~Before(c)'
    BY <1>0, <1>1, <1>2, <1>3 DEF IsCounted, IsQueued, HasGuard, HasMutex, Before
  <2>. QED BY <1>1, <2>1, <2>2, OthersInLine
<1>5. PICK m \in Calls : m = mine[c] /\ entry[Key(c)] = m
  BY <1>4 DEF LineInv
<1>6. PICK s \in Seq(Calls) : s = queue[m]
  BY <1>0
<1>7. /\ Append(s, c) \in Seq(Calls) /\ Single(Append(s, c)) /\ Append(s, c) # <<>>
      /\ \A d : (\E j \in DOMAIN Append(s, c) : Append(s, c)[j] = d)
                <=> (d = c \/ \E j \in DOMAIN s : s[j] = d)
      /\ s # <<>> => Append(s, c)[1] = s[1]
  <2>1. Single(s) /\ \A i \in DOMAIN s : s[i] # c
    BY <1>4, <1>6 DEF LineInv, Waits
  <2>. QED BY <2>1, WithOneMore
<1>8. queue'[m] = Append(s, c) /\ \A n \in Calls \ {m} : queue'[n] = queue[n]
  BY <1>0, <1>1, <1>5, <1>6
<1>9. \A d \in Calls : HasMutex(d)' => mine'[d] \in Calls /\ entry'[Key(d)] = mine'[d]
  BY <1>1, <1>4 DEF LineInv
<1>10. \A k \in Sessions : (entry[k] # None => Key(entry[k]) = k)'
  BY <1>1 DEF LineInv, Key
<1>11. \A d \in Calls, k \in Sessions : Before(d)' => entry'[k] # d
  BY <1>1, <1>4 DEF LineInv
<1>12. ASSUME NEW d \in Calls, NEW n \in Calls
       PROVE  Waits(d, n)' <=> IsQueued(d)' /\ mine'[d] = n
  <2>1. CASE n = m
    <3>1. Waits(d, n)' <=> d = c \/ Waits(d, n)
      <4>1. Waits(d, n)' <=> \E j \in DOMAIN Append(s, c) : Append(s, c)[j] = d
        BY <1>8, <2>1 DEF Waits
      <4>2. Waits(d, n) <=> \E j \in DOMAIN s : s[j] = d
        BY <1>6, <2>1 DEF Waits
      <4>. QED BY <1>7, <4>1, <4>2
    <3>. QED BY <1>1, <1>4, <1>5, <2>1, <3>1 DEF LineInv
  <2>2. CASE n # m
    <3>1. Waits(d, n)' <=> Waits(d, n)
      BY <1>8, <2>2 DEF Waits
    <3>. QED BY <1>1, <1>4, <1>5, <2>2, <3>1 DEF LineInv
  <2>. QED BY <2>1, <2>2
<1>13. \A n \in Calls : Single(queue'[n])
  BY <1>7, <1>8 DEF LineInv
<1>14. ASSUME NEW d \in Calls, HasGuard(d)' PROVE queue'[mine'[d]] # <<>> /\ queue'[mine'[d]][1] = d
  <2>1. d # c /\ HasGuard(d) /\ mine[d] \in Calls /\ mine'[d] = mine[d]
    BY <1>1, <1>4, <1>14 DEF LineInv, HasGuard, HasMutex
  <2>2. queue[mine[d]] # <<>> /\ queue[mine[d]][1] = d
    BY <2>1 DEF LineInv
  <2>3. CASE mine[d] = m
    BY <1>6, <1>7, <1>8, <2>1, <2>2, <2>3
  <2>4. CASE mine[d] # m
    BY <1>8, <2>1, <2>2, <2>4
  <2>. QED BY <2>3, <2>4
<1>15. \A d \in Calls : Kind(d)' = "observe" => at'[d] \in Observing
  BY <1>2, <1>3, <1>4 DEF LineInv
<1>16. LineInv'
  <2>1. \A n \in Calls : Single(queue[n])'
    BY <1>13 DEF Single
  <2>. QED BY <1>1, <1>3, <1>9, <1>10, <1>11, <1>12, <2>1, <1>14, <1>15 DEF LineInv
<1>17. CountsAreExact' /\ CountsTyped'
  BY <1>1, <1>4, CountsKept DEF CountsTyped, TypeOK
<1>18. queue' \in [Calls -> Seq(Calls)]
  BY <1>0, <1>1, <1>5, <1>6, <1>7
<1>19. ASSUME NEW k \in Sessions, NEW i \in DOMAIN LineOf[k], LineOf[k][i] = c PROVE FALSE
  <2>1. CASE entry[k] = None
    <3>1. LineOf[k] = <<>>
      BY <2>1 DEF LineOf
    <3>2. DOMAIN LineOf[k] = {}
      <4>1. \A q : q = <<>> => DOMAIN q = {}
        OBVIOUS
      <4>. QED BY <3>1, <4>1
    <3>. QED BY <3>2, <1>19
  <2>2. CASE entry[k] # None
    <3>1. Waits(c, entry[k]) /\ entry[k] \in Calls
      BY <1>0, <1>19, <2>2 DEF LineOf, Waits
    <3>. QED BY <1>4, <3>1 DEF LineInv
  <2>. QED BY <2>1, <2>2
<1>20. ASSUME NEW k \in Sessions, entry[k] = m PROVE k = Key(c)
  <2>1. entry[k] # None /\ entry[Key(c)] # None
    BY <1>0, <1>5, <1>20
  <2>2. Key(entry[k]) = k /\ Key(entry[Key(c)]) = Key(c)
    BY <1>0, <2>1 DEF LineInv
  <2>. QED BY <1>5, <1>20, <2>2
<1>21. LineOf' = [LineOf EXCEPT ![Key(c)] = Append(@, c)]
  <2>1. LineOf' = [k \in Sessions |-> IF entry[k] = None THEN <<>> ELSE queue'[entry[k]]]
    BY <1>1 DEF LineOf
  <2>2. ASSUME NEW k \in Sessions
        PROVE  (IF entry[k] = None THEN <<>> ELSE queue'[entry[k]])
                 = IF k = Key(c) THEN Append(LineOf[k], c) ELSE LineOf[k]
    <3>1. CASE k = Key(c)
      BY <1>0, <1>5, <1>6, <1>8, <3>1 DEF LineOf
    <3>2. CASE k # Key(c)
      BY <1>0, <1>8, <1>20, <3>2 DEF LineOf
    <3>. QED BY <3>1, <3>2
  <2>3. LineOf = [k \in Sessions |-> LineOf[k]]
    BY DEF LineOf
  <2>. QED BY <1>0, <2>1, <2>2, <2>3
<1>. QED BY <1>16, <1>17, <1>18, <1>19, <1>21 DEF Ordered

\* A call leaves its session's line, from the head or from the middle.
LEMMA LeaveKeeps ==
    ASSUME TypeOK, LineInv, NEW c \in Calls, NEW i \in DOMAIN queue[mine[c]],
           IsQueued(c), queue[mine[c]][i] = c,
           queue' = [queue EXCEPT ![mine[c]] = Without(@, i)],
           UNCHANGED <<job, entry>>,
           \A d \in Calls \ {c} : at'[d] = at[d] /\ mine'[d] = mine[d],
           ~IsQueued(c)', ~HasGuard(c)', ~Before(c)', HasMutex(c)' => mine'[c] = mine[c]
    PROVE  /\ LineInv' /\ queue' \in [Calls -> Seq(Calls)]
           /\ i \in DOMAIN LineOf[Key(c)] /\ LineOf[Key(c)][i] = c
           /\ LineOf' = [LineOf EXCEPT ![Key(c)] = Without(@, i)]
<1>0. /\ Kind(c) # "observe" /\ HasMutex(c)
      /\ queue \in [Calls -> Seq(Calls)]
      /\ entry \in [Sessions -> Calls \cup {None}] /\ None \notin Calls
      /\ Key(c) \in Sessions
  BY AcpAssumption, PlacesOf DEF TypeOK, Key, IsQueued, HasMutex
<1>3. \A d \in Calls : Kind(d)' = Kind(d) /\ Key(d)' = Key(d)
  BY DEF Kind, Key
<1>4. \A d \in Calls \ {c} : /\ HasMutex(d)' = HasMutex(d)
                             /\ IsQueued(d)' = IsQueued(d) /\ HasGuard(d)' = HasGuard(d)
                             /\ Before(d)' = Before(d) /\ at'[d] = at[d]
  BY OthersInLine
<1>5. PICK m \in Calls : m = mine[c] /\ entry[Key(c)] = m
  BY <1>0 DEF LineInv
<1>6. PICK s \in Seq(Calls) : s = queue[m]
  BY <1>0
<1>7. /\ Without(s, i) \in Seq(Calls) /\ Single(Without(s, i))
      /\ \A d : (\E j \in DOMAIN Without(s, i) : Without(s, i)[j] = d)
                <=> (d # s[i] /\ \E j \in DOMAIN s : s[j] = d)
      /\ i # 1 => Without(s, i) # <<>> /\ Without(s, i)[1] = s[1]
  <2>1. Single(s) /\ i \in DOMAIN s
    BY <1>5, <1>6 DEF LineInv
  <2>. QED BY <2>1, WithoutOne
<1>8. /\ queue'[m] = Without(s, i) /\ \A n \in Calls \ {m} : queue'[n] = queue[n]
      /\ s[i] = c
  BY <1>0, <1>5, <1>6
<1>9. ASSUME NEW d \in Calls, HasMutex(d)'
      PROVE  mine'[d] \in Calls /\ entry'[Key(d)] = mine'[d]
  <2>1. HasMutex(d) /\ mine'[d] = mine[d]
    BY <1>0, <1>4, <1>9
  <2>. QED BY <2>1 DEF LineInv
<1>10. \A k \in Sessions : (entry[k] # None => Key(entry[k]) = k)'
  BY DEF LineInv, Key
<1>11. \A d \in Calls, k \in Sessions : Before(d)' => entry'[k] # d
  BY <1>4 DEF LineInv
<1>12. ASSUME NEW d \in Calls, NEW n \in Calls
       PROVE  Waits(d, n)' <=> IsQueued(d)' /\ mine'[d] = n
  <2>1. CASE n = m
    <3>1. Waits(d, n)' <=> d # c /\ Waits(d, n)
      <4>1. Waits(d, n)' <=> \E j \in DOMAIN Without(s, i) : Without(s, i)[j] = d
        BY <1>8, <2>1 DEF Waits
      <4>2. Waits(d, n) <=> \E j \in DOMAIN s : s[j] = d
        BY <1>6, <2>1 DEF Waits
      <4>. QED BY <1>7, <1>8, <4>1, <4>2
    <3>2. Waits(d, n) <=> IsQueued(d) /\ mine[d] = n
      BY DEF LineInv
    <3>3. d # c => (IsQueued(d)' <=> IsQueued(d)) /\ mine'[d] = mine[d]
      BY <1>4
    <3>. QED BY <3>1, <3>2, <3>3
  <2>2. CASE n # m
    <3>1. Waits(d, n)' <=> Waits(d, n)
      BY <1>8, <2>2 DEF Waits
    <3>2. Waits(d, n) <=> IsQueued(d) /\ mine[d] = n
      BY DEF LineInv
    <3>3. d # c => (IsQueued(d)' <=> IsQueued(d)) /\ mine'[d] = mine[d]
      BY <1>4
    <3>. QED BY <1>5, <2>2, <3>1, <3>2, <3>3
  <2>. QED BY <2>1, <2>2
<1>13. \A n \in Calls : Single(queue'[n])
  BY <1>7, <1>8 DEF LineInv
<1>14. ASSUME NEW d \in Calls, HasGuard(d)' PROVE queue'[mine'[d]] # <<>> /\ queue'[mine'[d]][1] = d
  <2>1. d # c /\ HasGuard(d) /\ mine[d] \in Calls /\ mine'[d] = mine[d]
    BY <1>4, <1>14, PlacesOf DEF LineInv, HasGuard, HasMutex
  <2>2. queue[mine[d]] # <<>> /\ queue[mine[d]][1] = d
    BY <2>1 DEF LineInv
  <2>3. CASE mine[d] = m
    <3>1. s[1] = d
      BY <1>6, <2>2, <2>3
    <3>2. i # 1
      BY <1>8, <2>1, <3>1
    <3>. QED BY <1>7, <1>8, <2>1, <2>3, <3>1, <3>2
  <2>4. CASE mine[d] # m
    BY <1>8, <2>1, <2>2, <2>4
  <2>. QED BY <2>3, <2>4
<1>15. \A d \in Calls : Kind(d)' = "observe" => at'[d] \in Observing
  BY <1>0, <1>3, <1>4 DEF LineInv
<1>16. LineInv'
  <2>1. \A n \in Calls : Single(queue[n])'
    BY <1>13 DEF Single
  <2>. QED BY <1>3, <1>9, <1>10, <1>11, <1>12, <2>1, <1>14, <1>15 DEF LineInv
<1>18. queue' \in [Calls -> Seq(Calls)]
  BY <1>0, <1>5, <1>6, <1>7
<1>19. LineOf[Key(c)] = s /\ i \in DOMAIN LineOf[Key(c)] /\ LineOf[Key(c)][i] = c
  BY <1>0, <1>5, <1>6 DEF LineOf
<1>20. ASSUME NEW k \in Sessions, entry[k] = m PROVE k = Key(c)
  <2>1. entry[k] # None /\ entry[Key(c)] # None
    BY <1>0, <1>5, <1>20
  <2>2. Key(entry[k]) = k /\ Key(entry[Key(c)]) = Key(c)
    BY <1>0, <2>1 DEF LineInv
  <2>. QED BY <1>5, <1>20, <2>2
<1>21. LineOf' = [LineOf EXCEPT ![Key(c)] = Without(@, i)]
  <2>1. LineOf' = [k \in Sessions |-> IF entry[k] = None THEN <<>> ELSE queue'[entry[k]]]
    BY DEF LineOf
  <2>2. ASSUME NEW k \in Sessions
        PROVE  (IF entry[k] = None THEN <<>> ELSE queue'[entry[k]])
                 = IF k = Key(c) THEN Without(LineOf[k], i) ELSE LineOf[k]
    <3>1. CASE k = Key(c)
      BY <1>0, <1>5, <1>6, <1>8, <3>1 DEF LineOf
    <3>2. CASE k # Key(c)
      BY <1>0, <1>8, <1>20, <3>2 DEF LineOf
    <3>. QED BY <3>1, <3>2
  <2>3. LineOf = [k \in Sessions |-> LineOf[k]]
    BY DEF LineOf
  <2>. QED BY <1>0, <2>1, <2>2, <2>3
<1>. QED BY <1>16, <1>18, <1>19, <1>21

\* The holder hands the mutex on; it stays counted.
LEMMA UnlockKeeps ==
    ASSUME TypeOK, LineInv, CountsAreExact, NEW c \in Calls, Unlock(c)
    PROVE  /\ Ordered' /\ queue' \in [Calls -> Seq(Calls)]
           /\ \E i \in DOMAIN LineOf[Key(c)] :
                  /\ LineOf[Key(c)][i] = c
                  /\ LineOf' = [LineOf EXCEPT ![Key(c)] = Without(@, i)]
<1>. USE PlacesOf
<1>0. /\ Kind(c) = "observe" => at[c] \in Observing
      /\ at \in [Calls -> Places]
  BY DEF LineInv, TypeOK
<1>1. /\ at[c] = "releasing" /\ at' = [at EXCEPT ![c] = "released"]
      /\ UNCHANGED <<job, mine, entry, refs, pending>>
  BY DEF Unlock, MoveTo
<1>2. PICK i \in DOMAIN queue[mine[c]] : /\ queue[mine[c]][i] = c
                                         /\ queue' = [queue EXCEPT ![mine[c]] = Without(@, i)]
  BY DEF Unlock
<1>3. IsQueued(c) /\ ~IsQueued(c)' /\ ~HasGuard(c)' /\ ~Before(c)' /\ IsCounted(c) /\ IsCounted(c)'
  BY <1>0, <1>1 DEF IsQueued, HasGuard, Before, IsCounted, Observing, Kind
<1>4. \A d \in Calls \ {c} : at'[d] = at[d] /\ mine'[d] = mine[d]
  BY <1>0, <1>1
<1>5. CountsAreExact' /\ CountsTyped'
  <2>1. \A d \in Calls : IsCounted(d)' <=> IsCounted(d)
    BY <1>1, <1>3, <1>4, OthersInLine
  <2>. QED BY <1>1, <2>1, CountsKept DEF CountsTyped, TypeOK
<1>6. /\ LineInv' /\ queue' \in [Calls -> Seq(Calls)]
      /\ i \in DOMAIN LineOf[Key(c)] /\ LineOf[Key(c)][i] = c
      /\ LineOf' = [LineOf EXCEPT ![Key(c)] = Without(@, i)]
  BY <1>1, <1>2, <1>3, <1>4, LeaveKeeps
<1>. QED BY <1>5, <1>6 DEF Ordered

\* A dropped waiter leaves the line and the counts.
LEMMA DropWaiterKeeps ==
    ASSUME TypeOK, LineInv, CountsAreExact, NEW c \in Calls, DropWaiter(c)
    PROVE  /\ Ordered' /\ queue' \in [Calls -> Seq(Calls)]
           /\ \E i \in DOMAIN LineOf[Key(c)] :
                  /\ LineOf[Key(c)][i] = c
                  /\ LineOf' = [LineOf EXCEPT ![Key(c)] = Without(@, i)]
<1>. USE PlacesOf
<1>0. /\ Kind(c) = "observe" => at[c] \in Observing
      /\ at \in [Calls -> Places] /\ mine \in [Calls -> Calls \cup {None}]
  BY DEF LineInv, TypeOK
<1>1. /\ at[c] = "queued" /\ at' = [at EXCEPT ![c] = "done"]
      /\ mine' = [mine EXCEPT ![c] = None]
      /\ UNCHANGED <<job, entry>> /\ CountOut(c)
  BY DEF DropWaiter, MoveTo
<1>2. PICK i \in DOMAIN queue[mine[c]] : /\ queue[mine[c]][i] = c
                                         /\ queue' = [queue EXCEPT ![mine[c]] = Without(@, i)]
  BY DEF DropWaiter
<1>3. /\ IsQueued(c) /\ ~IsQueued(c)' /\ ~HasGuard(c)' /\ ~Before(c)' /\ ~HasMutex(c)'
      /\ IsCounted(c) /\ ~IsCounted(c)'
  BY <1>0, <1>1 DEF IsQueued, HasGuard, HasMutex, Before, IsCounted, Observing, Kind
<1>4. \A d \in Calls \ {c} : at'[d] = at[d] /\ mine'[d] = mine[d]
  BY <1>0, <1>1
<1>5. CountsAreExact' /\ CountsTyped'
  <2>1. \A d \in Calls \ {c} : IsCounted(d)' <=> IsCounted(d)
    BY <1>1, <1>4, OthersInLine
  <2>. QED BY <1>1, <1>3, <2>1, CountedOutOnce
<1>6. /\ LineInv' /\ queue' \in [Calls -> Seq(Calls)]
      /\ i \in DOMAIN LineOf[Key(c)] /\ LineOf[Key(c)][i] = c
      /\ LineOf' = [LineOf EXCEPT ![Key(c)] = Without(@, i)]
  BY <1>1, <1>2, <1>3, <1>4, LeaveKeeps
<1>. QED BY <1>5, <1>6 DEF Ordered

\* Every step, as the lemmas above split them.
CallStep(c) ==
    \/ LookUp(c) \/ Observe(c) \/ PreemptStep(c) \/ SweepStep(c) \/ TurnStep(c)
    \/ ControlStep(c) \/ DropCall(c) \/ QueueStep(c) \/ DropWaiter(c)

LEMMA NextIsCallStep ==
    ASSUME Next PROVE \E c \in Calls : CallStep(c)
  BY DEF Next, Begin, Step, CallStep, QueueStep

JoinsLine(c) ==
    /\ \A k \in Sessions : \A i \in DOMAIN LineOf[k] : LineOf[k][i] # c
    /\ LineOf' = [LineOf EXCEPT ![Key(c)] = Append(@, c)]

LeavesLine(c) ==
    \E i \in DOMAIN LineOf[Key(c)] :
        /\ LineOf[Key(c)][i] = c
        /\ LineOf' = [LineOf EXCEPT ![Key(c)] = Without(@, i)]

\* Any step keeps the registry in order, and is a step of the line or leaves it alone.
LEMMA StepKeepsOrder ==
    ASSUME TypeOK, LineInv, CountsAreExact, NEW c \in Calls, CallStep(c)
    PROVE  /\ Ordered' /\ queue' \in [Calls -> Seq(Calls)]
           /\ LineOf' = LineOf \/ JoinsLine(c) \/ LeavesLine(c)
<1>0. queue \in [Calls -> Seq(Calls)] /\ CountsTyped
  BY DEF TypeOK, CountsTyped
<1>1. CASE \/ LookUp(c) \/ Observe(c) \/ PreemptStep(c) \/ SweepStep(c) \/ TurnStep(c)
           \/ ControlStep(c) \/ DropCall(c) \/ Acquire(c)
  <2>1. Silent(c)
    BY <1>1, SilentSteps
  <2>2. LineInv' /\ LineOf' = LineOf
    BY <2>1, QuietKeeps DEF Silent
  <2>3. UNCHANGED <<job, refs, pending, queue>>
    BY <2>1 DEF Silent, Quiet
  <2>4. \A d \in Calls : IsCounted(d)' <=> IsCounted(d)
    BY <2>1, OthersInLine DEF Silent, Quiet
  <2>5. CountsAreExact'
    BY <2>3, <2>4, CountsKept
  <2>6. CountsTyped'
    BY <1>0, <2>3 DEF CountsTyped
  <2>. QED BY <1>0, <2>2, <2>3, <2>5, <2>6 DEF Ordered
<1>2. CASE Register(c)
  BY <1>0, <1>2, RegisterKeeps DEF Register
<1>3. CASE Join(c)
  BY <1>0, <1>3, JoinKeeps DEF Join
<1>4. CASE Enqueue(c)
  BY <1>4, EnqueueKeeps DEF JoinsLine
<1>5. CASE Unlock(c)
  BY <1>5, UnlockKeeps DEF LeavesLine
<1>6. CASE Uncount(c)
  BY <1>0, <1>6, UncountKeeps DEF Uncount
<1>7. CASE RemoveEntry(c)
  BY <1>0, <1>7, RemoveKeeps DEF RemoveEntry
<1>8. CASE DropWaiter(c)
  BY <1>8, DropWaiterKeeps DEF LeavesLine
<1>. QED BY <1>1, <1>2, <1>3, <1>4, <1>5, <1>6, <1>7, <1>8 DEF CallStep, QueueStep

\* Whoever owns a session's mutex is at the head of the one queue it has.
LEMMA OneGuard ==
    ASSUME LineInv PROVE OneCallPerSession
<1>1. \A c \in Calls : HasGuard(c) => HasMutex(c)
  BY PlacesOf DEF HasGuard, HasMutex
<1>. QED BY <1>1 DEF LineInv, OneCallPerSession

-----------------------------------------------------------------------------
(* Turns *)

InTurn == {"creating", "resolved", "marked", "running", "settling"}
Sweeping == {"sweeping", "choosing", "checking", "evicting"}

DroppedTurn(k) == \E c \in dropped : Kind(c) = "turn" /\ Key(c) = k

\* What a call knows of itself: only turns run, a turn settles as Error or as the
\* backend reports, there is a sweep left while one goes on; a registered turn is on the session it is
\* registered for; and a copy that says Busy was read after a turn was dropped.
TurnInv ==
    /\ \A c \in Calls : at[c] \in InTurn => Kind(c) = "turn"
    /\ \A c \in Calls : at[c] = "settling" => meta[c] \in Reported \cup {"Error"}
    /\ \A c \in Calls : at[c] \in Sweeping => sweeps[c] \in 1 .. 2
    /\ \A k \in Sessions : active[k] # None => Key(active[k]) = k
    /\ \A c \in Calls : at[c] = "asking" /\ meta[c] = "Busy" /\ "Busy" \notin Reported
                            => DroppedTurn(Key(c))

IInv == TypeOK /\ LineInv /\ CountsAreExact /\ TurnInv /\ OnlyDroppedTurnsLinger

\* Types.
LEMMA TypeStep ==
    ASSUME IInv, NEW c \in Calls, CallStep(c) PROVE TypeOK'
<1>. USE PlacesOf DEF Places, Kinds, States
<1>0. TypeOK /\ TurnInv /\ CountsTyped' /\ queue' \in [Calls -> Seq(Calls)]
  BY StepKeepsOrder DEF IInv, Ordered
<1>1. /\ refs' \in [Sessions -> Nat] /\ pending' \in [Sessions -> Nat]
      /\ Reported \subseteq States /\ Key(c) \in Sessions
  BY <1>0, AcpAssumption DEF CountsTyped, TypeOK, Key
<1>2. CASE LookUp(c) \/ Observe(c) \/ PreemptStep(c)
  <2>1. CASE LookUp(c)
    BY <1>0, <1>1, <2>1 DEF LookUp, MoveTo, TypeOK, registry, sweep
  <2>4. CASE Observe(c)
    BY <1>0, <1>1, <2>4 DEF Observe, MoveTo, TypeOK, registry, sweep
  <2>2. CASE AnswerFromStore(c) \/ Abort(c) \/ CancelAccepted(c)
    BY <1>0, <1>1, <2>2 DEF AnswerFromStore, Abort, CancelAccepted, MoveTo, TypeOK, registry, sweep
  <2>3. CASE MarkCancelling(c) \/ CancelFailed(c)
    <3>1. CASE MarkCancelling(c)
      BY <1>0, <1>1, <3>1 DEF MarkCancelling, MoveTo, Store, TypeOK, registry, sweep
    <3>2. CASE CancelFailed(c)
      BY <1>0, <1>1, <3>2 DEF CancelFailed, MoveTo, Store, TypeOK, registry, sweep
    <3>. QED BY <2>3, <3>1, <3>2
  <2>. QED BY <1>2, <2>1, <2>2, <2>3, <2>4 DEF PreemptStep
<1>3. CASE SweepStep(c)
  <2>1. CASE ListIdle(c)
    BY <1>0, <2>1 DEF ListIdle, MoveTo, TypeOK, registry
  <2>2. CASE SkipSession(c) \/ FindUncounted(c) \/ SkipTurn(c) \/ CloseIdle(c)
    <3>1. CASE SkipSession(c)
      BY <1>0, <3>1 DEF SkipSession, MoveTo, TypeOK, registry
    <3>2. CASE CloseIdle(c)
      BY <1>0, <3>2 DEF CloseIdle, MoveTo, TypeOK, registry, sweep
    <3>3. CASE FindUncounted(c)
      BY <1>0, <3>3 DEF FindUncounted, MoveTo, TypeOK, registry
    <3>4. CASE SkipTurn(c)
      BY <1>0, <3>4 DEF SkipTurn, MoveTo, TypeOK, registry
    <3>. QED BY <2>2, <3>1, <3>2, <3>3, <3>4
  <2>3. CASE Evict(c) \/ KeepIdle(c)
    BY <1>0, <2>3 DEF Evict, KeepIdle, Store, MoveTo, TypeOK, registry
  <2>4. CASE EndSweep(c)
    <3>1. sweeps[c] \in 1 .. 2
      BY <1>0, <2>4 DEF EndSweep, TurnInv, Sweeping
    <3>2. sweeps[c] - 1 \in 0 .. 2
      BY <3>1
    <3>. QED BY <1>0, <2>4, <3>2 DEF EndSweep, MoveTo, TypeOK, registry
  <2>. QED BY <1>3, <2>1, <2>2, <2>3, <2>4 DEF SweepStep
<1>4. CASE TurnStep(c)
  <2>1. CASE ReuseSession(c) \/ CreateSession(c) \/ CreationFailed(c)
    <3>1. CASE ReuseSession(c)
      BY <1>0, <1>1, <3>1 DEF ReuseSession, MoveTo, TypeOK, registry, sweep
    <3>2. CASE CreateSession(c)
      BY <1>0, <1>1, <3>2 DEF CreateSession, MoveTo, TypeOK, registry, sweep
    <3>3. CASE CreationFailed(c)
      BY <1>0, <1>1, <3>3 DEF CreationFailed, MoveTo, TypeOK, registry, sweep
    <3>. QED BY <2>1, <3>1, <3>2, <3>3
  <2>4. CASE SessionCreated(c) \/ MarkBusy(c)
    <3>1. CASE SessionCreated(c)
      BY <1>0, <1>1, <3>1 DEF SessionCreated, MoveTo, Store, TypeOK, registry, sweep
    <3>2. CASE MarkBusy(c)
      BY <1>0, <1>1, <3>2 DEF MarkBusy, MoveTo, Store, TypeOK, registry, sweep
    <3>. QED BY <2>4, <3>1, <3>2
  <2>2. CASE StartTurn(c)
    BY <1>0, <1>1, <2>2 DEF StartTurn, MoveTo, TypeOK, registry, sweep
  <2>5. CASE TurnReturns(c)
    BY <1>0, <1>1, <2>5 DEF TurnReturns, MoveTo, TypeOK, registry, sweep
  <2>3. CASE SettleTurn(c)
    BY <1>0, <1>1, <2>3 DEF SettleTurn, MoveTo, Store, TypeOK, registry, sweep
  <2>. QED BY <1>4, <2>1, <2>2, <2>3, <2>4, <2>5 DEF TurnStep
<1>5. CASE ControlStep(c)
  <2>1. CASE AskBackend(c)
    <3>1. at' \in [Calls -> Places] /\ meta' \in [Calls -> States \cup {None}]
      <4>1. at \in [Calls -> Places] /\ meta \in [Calls -> States \cup {None}]
            /\ store[Key(c)] \in States \cup {None}
        BY <1>0, <1>1 DEF TypeOK
      <4>2. \/ at' = [at EXCEPT ![c] = "releasing"] /\ meta' = meta
            \/ at' = [at EXCEPT ![c] = "asking"] /\ meta' = [meta EXCEPT ![c] = store[Key(c)]]
        BY <2>1 DEF AskBackend, MoveTo
      <4>. HIDE DEF States, Kinds
      <4>. QED BY <4>1, <4>2
    <3>2. UNCHANGED <<job, mine, sweep, dropped, registry, active, store>>
      BY <2>1 DEF AskBackend
    <3>. QED BY <1>0, <3>1, <3>2 DEF TypeOK, registry, sweep
  <2>2. CASE BackendAnswers(c)
    <3>1. Answers(c) \subseteq States \cup {None}
      BY <1>0, <1>1 DEF Answers, TypeOK
    <3>. HIDE DEF States
    <3>. QED BY <1>0, <1>1, <2>2, <3>1 DEF BackendAnswers, MoveTo, Store, TypeOK, registry, sweep
  <2>3. CASE BackendCloses(c)
    BY <1>0, <1>1, <2>3 DEF BackendCloses, MoveTo, TypeOK, registry, sweep
  <2>4. CASE ForgetSession(c)
    BY <1>0, <1>1, <2>4 DEF ForgetSession, MoveTo, Store, TypeOK, registry, sweep
  <2>. QED BY <1>5, <2>1, <2>2, <2>3, <2>4 DEF ControlStep
<1>6. CASE DropCall(c) \/ DropWaiter(c)
  <2>1. CASE DropCall(c)
    BY <1>0, <1>1, <2>1 DEF DropCall, MoveTo, TypeOK, registry, sweep
  <2>2. CASE DropWaiter(c)
    BY <1>0, <1>1, <2>2 DEF DropWaiter, MoveTo, TypeOK, registry, sweep
  <2>. QED BY <1>6, <2>1, <2>2
<1>7. CASE QueueStep(c)
  <2>0. \A place \in Places : MoveTo(c, place) => at' \in [Calls -> Places]
    <3>. HIDE DEF Places
    <3>. QED BY <1>0 DEF MoveTo, TypeOK
  <2>1. CASE Register(c) \/ Enqueue(c)
    <3>1. at' \in [Calls -> Places]
      BY <2>0, <2>1 DEF Register, Enqueue
    <3>2. UNCHANGED <<job, mine, meta, sweep, dropped, entry, active, store>>
      BY <2>1 DEF Register, Enqueue
    <3>. HIDE DEF Places, Kinds, States
    <3>. QED BY <1>0, <1>1, <3>1, <3>2 DEF TypeOK, sweep
  <2>6. CASE Acquire(c)
    <3>1. at' \in [Calls -> Places]
      BY <2>0, <2>6 DEF Acquire
    <3>2. /\ sweeps' = [sweeps EXCEPT ![c] = IF Kind(c) = "turn" THEN 2 ELSE 1]
          /\ UNCHANGED <<job, mine, meta, todo, victim, dropped, registry, active, store>>
      BY <2>6 DEF Acquire
    <3>. HIDE DEF Places, Kinds, States
    <3>. QED BY <1>0, <1>1, <3>1, <3>2 DEF TypeOK, registry
  <2>2. CASE Join(c)
    BY <1>0, <1>1, <2>2 DEF Join, MoveTo, TypeOK, sweep
  <2>3. CASE Unlock(c)
    BY <1>0, <1>1, <2>3 DEF Unlock, MoveTo, TypeOK, sweep
  <2>4. CASE Uncount(c)
    BY <1>0, <1>1, <2>4 DEF Uncount, MoveTo, TypeOK, sweep
  <2>5. CASE RemoveEntry(c)
    BY <1>0, <1>1, <2>5 DEF RemoveEntry, MoveTo, TypeOK, sweep
  <2>. QED BY <1>7, <2>1, <2>2, <2>3, <2>4, <2>5, <2>6 DEF QueueStep
<1>. QED BY <1>2, <1>3, <1>4, <1>5, <1>6, <1>7 DEF CallStep

Working == {"marked", "running", "settling"}

\* What a step has to respect for the turns to stay accounted for: a turn leaves its
\* registration behind only when it is dropped, and Busy comes from a turn at work, from
\* the backend, or from a copy.
RespectsTurns(c) ==
    /\ job' = job /\ dropped \subseteq dropped'
    /\ \A d \in Calls \ {c} : at'[d] = at[d] /\ meta'[d] = meta[d] /\ sweeps'[d] = sweeps[d]
    /\ at'[c] \in InTurn => Kind(c) = "turn"
    /\ at'[c] = "settling" => meta'[c] \in Reported \cup {"Error"}
    /\ at'[c] \in Sweeping => sweeps'[c] \in 1 .. 2
    /\ at'[c] = "asking" /\ meta'[c] = "Busy" /\ "Busy" \notin Reported => DroppedTurn(Key(c))
    /\ \A k \in Sessions : \/ active'[k] \in {active[k], None}
                           \/ active'[k] = c /\ k = Key(c) /\ at'[c] = "running"
    /\ at[c] = "running" => at'[c] = "running" \/ c \in dropped' \/ active'[Key(c)] = None
    /\ \A k \in Sessions : store'[k] = "Busy" =>
           \/ store[k] = "Busy" \/ "Busy" \in Reported \/ DroppedTurn(k)
           \/ k = Key(c) /\ at'[c] \in Working
    /\ at[c] \in Working => \/ at'[c] \in Working \/ c \in dropped'
                            \/ store'[Key(c)] # "Busy" \/ "Busy" \in Reported

LEMMA TurnsKept ==
    ASSUME IInv, TypeOK', NEW c \in Calls, RespectsTurns(c)
    PROVE  TurnInv' /\ OnlyDroppedTurnsLinger'
<1>0. /\ \A d : Kind(d)' = Kind(d) /\ Key(d)' = Key(d)
      /\ \A k : DroppedTurn(k) => DroppedTurn(k)'
      /\ TypeOK /\ TurnInv /\ OnlyDroppedTurnsLinger /\ None \notin Calls
      /\ dropped' \subseteq Calls /\ dropped \subseteq Calls
  BY AcpAssumption DEF RespectsTurns, Kind, Key, DroppedTurn, IInv, TypeOK
<1>1. ASSUME NEW d \in Calls
      PROVE  /\ at'[d] \in InTurn => Kind(d) = "turn"
             /\ at'[d] = "settling" => meta'[d] \in Reported \cup {"Error"}
             /\ at'[d] \in Sweeping => sweeps'[d] \in 1 .. 2
             /\ at'[d] = "asking" /\ meta'[d] = "Busy" /\ "Busy" \notin Reported
                   => DroppedTurn(Key(d))
  BY <1>0 DEF RespectsTurns, TurnInv
<1>2. ASSUME NEW k \in Sessions, active'[k] # None PROVE Key(active'[k]) = k
  BY <1>0, <1>2 DEF RespectsTurns, TurnInv
<1>3. TurnInv'
  <2>1. \A k \in Sessions : active'[k] # None => job'[active'[k]].key = k
    BY <1>2 DEF Key, RespectsTurns
  <2>. QED BY <1>0, <1>1, <2>1 DEF TurnInv, Key
<1>4. ASSUME NEW k \in Sessions, active'[k] # None
      PROVE  at'[active'[k]] = "running" \/ active'[k] \in dropped'
  <2>1. CASE active'[k] = c /\ at'[c] = "running"
    BY <2>1
  <2>2. CASE active'[k] = active[k]
    <3>1. PICK d \in Calls : d = active[k] /\ Key(d) = k
      BY <1>0, <1>4, <2>2 DEF TurnInv, TypeOK
    <3>2. at[d] = "running" \/ d \in dropped
      BY <1>0, <1>4, <2>2, <3>1 DEF OnlyDroppedTurnsLinger
    <3>3. CASE d = c
      BY <1>4, <2>2, <3>1, <3>2, <3>3 DEF RespectsTurns
    <3>4. CASE d # c
      BY <2>2, <3>1, <3>2, <3>4 DEF RespectsTurns
    <3>. QED BY <3>3, <3>4
  <2>. QED BY <1>4, <2>1, <2>2 DEF RespectsTurns
<1>5. ASSUME NEW k \in Sessions, store'[k] = "Busy", "Busy" \notin Reported
      PROVE  \E d \in Calls : /\ Kind(d) = "turn" /\ Key(d) = k
                              /\ at'[d] \in Working \/ d \in dropped'
  <2>1. CASE store[k] = "Busy"
    <3>1. PICK d \in Calls : Kind(d) = "turn" /\ Key(d) = k /\ (at[d] \in Working \/ d \in dropped)
      BY <1>0, <1>5, <2>1 DEF OnlyDroppedTurnsLinger, Working
    <3>2. CASE d = c
      BY <1>5, <3>1, <3>2 DEF RespectsTurns
    <3>3. CASE d # c
      BY <3>1, <3>3 DEF RespectsTurns
    <3>. QED BY <3>2, <3>3
  <2>2. CASE DroppedTurn(k)
    BY <1>0, <2>2 DEF DroppedTurn, RespectsTurns
  <2>3. CASE k = Key(c) /\ at'[c] \in Working
    BY <2>3 DEF RespectsTurns, Working, InTurn
  <2>. QED BY <1>5, <2>1, <2>2, <2>3 DEF RespectsTurns
<1>6. OnlyDroppedTurnsLinger'
  BY <1>0, <1>4, <1>5 DEF OnlyDroppedTurnsLinger, Working
<1>. QED BY <1>3, <1>6

\* A copy that says Busy while its call owns the session is left from a dropped turn.
LEMMA BusyCopies ==
    ASSUME IInv, NEW c \in Calls, at[c] = "swept", Kind(c) # "turn",
           store[Key(c)] = "Busy", "Busy" \notin Reported
    PROVE  DroppedTurn(Key(c))
<1>1. OneCallPerSession /\ Kind(c) # "observe" /\ Key(c) \in Sessions
  <2>1. Kind(c) # "observe"
    BY DEF IInv, LineInv, Observing
  <2>. QED BY <2>1, OneGuard DEF IInv, TypeOK, Key
<1>2. PICK d \in Calls : /\ Kind(d) = "turn" /\ Key(d) = Key(c)
                         /\ at[d] \in Working \/ d \in dropped
  BY <1>1 DEF IInv, OnlyDroppedTurnsLinger, Working
<1>3. at[d] \notin Working
  <2>1. ASSUME at[d] \in Working PROVE FALSE
    <3>1. HasGuard(d) /\ HasGuard(c)
      BY <1>1, <1>2, <2>1, PlacesOf DEF HasGuard, Working
    <3>. QED BY <1>1, <1>2, <3>1 DEF OneCallPerSession
  <2>. QED BY <2>1
<1>. QED BY <1>2, <1>3 DEF DroppedTurn

\* Every step respects the turns.
LEMMA TurnsRespected ==
    ASSUME IInv, NEW c \in Calls, CallStep(c) PROVE RespectsTurns(c)
<1>. USE DEF InTurn, Working, Sweeping
<1>0. /\ at \in [Calls -> Places] /\ meta \in [Calls -> States \cup {None}]
      /\ sweeps \in [Calls -> 0 .. 2] /\ active \in [Sessions -> Calls \cup {None}]
      /\ store \in [Sessions -> States \cup {None}] /\ TurnInv
      /\ Key(c) \in Sessions /\ victim \in [Calls -> Sessions \cup {None}]
      /\ None # "Busy" /\ TypeOK
  BY AcpAssumption DEF IInv, TypeOK, Key, States
<1>1. CASE LookUp(c) \/ Observe(c)
  BY <1>0, <1>1 DEF LookUp, Observe, MoveTo, RespectsTurns, sweep
<1>2. CASE AnswerFromStore(c) \/ Abort(c) \/ CancelAccepted(c)
  BY <1>0, <1>2 DEF AnswerFromStore, Abort, CancelAccepted, MoveTo, RespectsTurns, sweep
<1>3. CASE MarkCancelling(c) \/ CancelFailed(c)
  BY <1>0, <1>3 DEF MarkCancelling, CancelFailed, MoveTo, Store, RespectsTurns, sweep
<1>4. CASE ListIdle(c) \/ SkipSession(c) \/ FindUncounted(c)
  BY <1>0, <1>4 DEF ListIdle, SkipSession, FindUncounted, MoveTo, RespectsTurns, TurnInv
<1>19. CASE SkipTurn(c) \/ CloseIdle(c)
  BY <1>0, <1>19 DEF SkipTurn, CloseIdle, MoveTo, RespectsTurns, TurnInv, sweep
<1>5. CASE Evict(c) \/ KeepIdle(c)
  BY <1>0, <1>5 DEF Evict, KeepIdle, MoveTo, Store, RespectsTurns, TurnInv
<1>6. CASE EndSweep(c)
  <2>1. sweeps[c] \in 1 .. 2 /\ (sweeps[c] > 1 => sweeps[c] - 1 \in 1 .. 2)
    BY <1>0, <1>6 DEF EndSweep, TurnInv
  <2>. QED BY <1>0, <1>6, <2>1 DEF EndSweep, MoveTo, RespectsTurns
<1>7. CASE ReuseSession(c) \/ CreateSession(c) \/ CreationFailed(c)
  BY <1>0, <1>7 DEF ReuseSession, CreateSession, CreationFailed, MoveTo, RespectsTurns, sweep
<1>8. CASE SessionCreated(c) \/ MarkBusy(c)
  BY <1>0, <1>8 DEF SessionCreated, MarkBusy, MoveTo, Store, RespectsTurns, sweep, TurnInv
<1>9. CASE StartTurn(c)
  BY <1>0, <1>9 DEF StartTurn, MoveTo, RespectsTurns, sweep, TurnInv
<1>10. CASE TurnReturns(c)
  BY <1>0, <1>10 DEF TurnReturns, MoveTo, RespectsTurns, sweep, TurnInv
<1>11. CASE SettleTurn(c)
  BY <1>0, <1>11 DEF SettleTurn, MoveTo, Store, RespectsTurns, sweep, TurnInv
<1>12. CASE AskBackend(c)
  <2>1. store[Key(c)] = "Busy" /\ "Busy" \notin Reported => DroppedTurn(Key(c))
    BY <1>12, BusyCopies DEF AskBackend
  <2>. QED BY <1>0, <1>12, <2>1 DEF AskBackend, MoveTo, RespectsTurns, sweep
<1>13. CASE BackendAnswers(c)
  <2>1. PICK state \in Answers(c) : store' = [store EXCEPT ![Key(c)] = state]
    BY <1>13 DEF BackendAnswers, Store
  <2>2. state = "Busy" => store[Key(c)] = "Busy" \/ "Busy" \in Reported \/ DroppedTurn(Key(c))
    BY <1>0, <1>13, <2>1 DEF BackendAnswers, Answers, TurnInv
  <2>. QED BY <1>0, <1>13, <2>1, <2>2 DEF BackendAnswers, MoveTo, RespectsTurns, sweep
<1>14. CASE BackendCloses(c)
  BY <1>0, <1>14 DEF BackendCloses, MoveTo, RespectsTurns, sweep
<1>20. CASE ForgetSession(c)
  BY <1>0, <1>20 DEF ForgetSession, MoveTo, Store, RespectsTurns, sweep
<1>15. CASE DropCall(c)
  BY <1>0, <1>15 DEF DropCall, MoveTo, RespectsTurns
<1>16. CASE DropWaiter(c)
  BY <1>0, <1>16 DEF DropWaiter, MoveTo, RespectsTurns, sweep
<1>17. CASE Register(c) \/ Join(c) \/ Enqueue(c) \/ Unlock(c) \/ Uncount(c) \/ RemoveEntry(c)
  BY <1>0, <1>17 DEF Register, Join, Enqueue, Unlock, Uncount, RemoveEntry, MoveTo,
     RespectsTurns, sweep
<1>18. CASE Acquire(c)
  BY <1>0, <1>18 DEF Acquire, MoveTo, RespectsTurns
<1>. QED BY <1>1, <1>2, <1>3, <1>4, <1>5, <1>6, <1>7, <1>8, <1>9, <1>10, <1>11, <1>12, <1>13,
            <1>14, <1>15, <1>16, <1>17, <1>18, <1>19, <1>20
         DEF CallStep, PreemptStep, SweepStep, TurnStep, ControlStep, QueueStep

-----------------------------------------------------------------------------
(* The theorems *)

LEMMA InitInv == ASSUME Init PROVE IInv
<1>1. /\ job \in [Calls -> [kind : Kinds, key : Sessions]] /\ at = [c \in Calls |-> "idle"]
      /\ IsFiniteSet(Calls) /\ None \notin Calls
  BY AcpAssumption DEF Init
<1>2. TypeOK
  <2>1. queue \in [Calls -> Seq(Calls)]
    BY EmptySeq DEF Init
  <2>. QED BY <1>1, <2>1 DEF Init, TypeOK, Places
<1>3. \A c \in Calls : ~IsCounted(c) /\ ~HasMutex(c) /\ ~IsQueued(c) /\ ~HasGuard(c)
  BY <1>1, PlacesOf DEF IsCounted, HasMutex, IsQueued, HasGuard
<1>4. \A m \in Calls : queue[m] = <<>> /\ DOMAIN queue[m] = {}
  BY DEF Init
<1>5. LineInv
  BY <1>1, <1>3, <1>4 DEF LineInv, Init, Waits, Single, Observing
<1>6. CountsAreExact
  <2>1. \A k : CountedOn(k) = {} /\ TurnsOn(k) = {}
    BY <1>3, CountedFinite
  <2>. QED BY <2>1, FS_EmptySet DEF CountsAreExact, Init
<1>7. TurnInv
  BY <1>1 DEF TurnInv, Init, InTurn, Sweeping
<1>8. OnlyDroppedTurnsLinger
  <2>1. None # "Busy"
    BY AcpAssumption DEF States
  <2>. QED BY <2>1 DEF OnlyDroppedTurnsLinger, Init
<1>. QED BY <1>2, <1>5, <1>6, <1>7, <1>8 DEF IInv

LEMMA StepInv == ASSUME IInv, [Next]_vars PROVE IInv'
<1>1. CASE Next
  <2>1. PICK c \in Calls : CallStep(c)
    BY <1>1, NextIsCallStep
  <2>2. LineInv' /\ CountsAreExact'
    BY <2>1, StepKeepsOrder DEF IInv, Ordered
  <2>3. TypeOK'
    BY <2>1, TypeStep
  <2>4. TurnInv' /\ OnlyDroppedTurnsLinger'
    BY <2>1, <2>3, TurnsRespected, TurnsKept
  <2>. QED BY <2>2, <2>3, <2>4 DEF IInv
<1>2. CASE UNCHANGED vars
  <2>1. UNCHANGED <<job, at, mine, meta, todo, victim, sweeps, dropped>>
    BY <1>2 DEF vars, sweep
  <2>2. UNCHANGED <<entry, queue, refs, pending, active, store>>
    BY <1>2 DEF vars, registry
  <2>3. TypeOK'
    BY <2>1, <2>2 DEF IInv, TypeOK
  <2>4. \A d : Kind(d)' = Kind(d) /\ Key(d)' = Key(d)
    BY <2>1 DEF Kind, Key
  <2>5. \A d \in Calls : IsCounted(d)' <=> IsCounted(d)
    BY <2>1, <2>4 DEF IsCounted
  <2>6. CountsAreExact'
    BY <2>1, <2>2, <2>5, CountsKept DEF IInv
  <2>7. LineInv'
    BY <2>1, <2>2, <2>4 DEF IInv, LineInv, HasMutex, IsQueued, HasGuard, Before, Waits, Single
  <2>8. TurnInv' /\ OnlyDroppedTurnsLinger'
    BY <2>1, <2>2, <2>4 DEF IInv, TurnInv, OnlyDroppedTurnsLinger, DroppedTurn
  <2>. QED BY <2>3, <2>6, <2>7, <2>8 DEF IInv
<1>. QED BY <1>1, <1>2

LEMMA Invariance == Spec => []IInv
<1>1. Init => IInv
  BY InitInv
<1>2. IInv /\ [Next]_vars => IInv'
  BY StepInv
<1>. QED BY <1>1, <1>2, PTL DEF Spec

\* The variables of the manager keep their types, whatever calls run, wait or are dropped.
THEOREM TypeCorrect == Spec => []TypeOK
<1>1. IInv => TypeOK
  BY DEF IInv
<1>. QED BY <1>1, Invariance, PTL

\* Two calls never work on one session at the same time, for any number of calls and
\* sessions, whatever mutexes the registry drops and makes in between (manager.rs:151).
THEOREM OneCall == Spec => []OneCallPerSession
<1>1. IInv => OneCallPerSession
  BY OneGuard DEF IInv
<1>. QED BY <1>1, Invariance, PTL

\* actor_ref_counts and pending_turns count the calls in line, neither one more nor one
\* less, though waiters are dropped at any time (manager_actor.rs:83).
THEOREM CountsExact == Spec => []CountsAreExact
<1>1. IInv => CountsAreExact
  BY DEF IInv
<1>. QED BY <1>1, Invariance, PTL

\* A registered turn or a Busy state that no turn at work explains is left from a turn
\* whose caller dropped it (manager.rs:209).
THEOREM OnlyDroppedLinger == Spec => []OnlyDroppedTurnsLinger
<1>1. IInv => OnlyDroppedTurnsLinger
  BY DEF IInv
<1>. QED BY <1>1, Invariance, PTL

-----------------------------------------------------------------------------
(* The registry implements one line per session *)

LEMMA LineInit == ASSUME Init PROVE Line!Init
  BY DEF Init, Line!Init, LineOf

LEMMA LineStep ==
    ASSUME IInv, [Next]_vars PROVE [Line!Next]_LineOf
<1>1. CASE Next
  <2>1. PICK c \in Calls : CallStep(c)
    BY <1>1, NextIsCallStep
  <2>2. LineOf' = LineOf \/ JoinsLine(c) \/ LeavesLine(c)
    BY <2>1, StepKeepsOrder DEF IInv
  <2>3. Key(c) \in Sessions
    BY DEF IInv, TypeOK, Key
  <2>4. CASE JoinsLine(c)
    <3>1. Line!Join(c, Key(c))
      BY <2>4 DEF JoinsLine, Line!Join, Line!InLine
    <3>. QED BY <2>3, <3>1 DEF Line!Next
  <2>5. CASE LeavesLine(c)
    <3>1. Line!Leave(c, Key(c))
      BY <2>5 DEF LeavesLine, Line!Leave, Line!Without, Without
    <3>. QED BY <2>3, <3>1 DEF Line!Next
  <2>. QED BY <2>2, <2>4, <2>5
<1>2. CASE UNCHANGED vars
  BY <1>2 DEF vars, registry, LineOf
<1>. QED BY <1>1, <1>2

\* The registry of counted mutexes is one line per session: a call joins at the end, and
\* leaves from the head when it is through or from its place when it is dropped; taking
\* the mutex, counting and removing the entry change nothing of it (manager_actor.rs:17).
THEOREM RegistryImplementsLine == Spec => ImplementsLine
<1>1. Init => Line!Init
  BY LineInit
<1>2. IInv /\ [Next]_vars => [Line!Next]_LineOf
  BY LineStep
<1>. QED BY <1>1, <1>2, Invariance, PTL DEF Spec, ImplementsLine, Line!Spec

-----------------------------------------------------------------------------
(* Who a waiter waits for *)

\* The safety half of EveryCallReturns: the head of the queue a call waits in is a call
\* on the same session that works on it, or that may take the mutex at once; never one
\* that returned or was dropped, nor one of a session whose mutex was made anew.
WaitersHaveAHead ==
    \A c \in Calls :
        at[c] = "queued" =>
            \E h \in Calls : /\ queue[mine[c]] # <<>> /\ queue[mine[c]][1] = h
                             /\ mine[h] = mine[c] /\ Key(h) = Key(c)
                             /\ HasGuard(h) \/ at[h] = "queued"

\* Nobody waits for somebody who is gone, though waiters leave from anywhere in the
\* queue, and entries are removed and made while others hold on to a mutex
\* (PendingSessionActorRegistration and SessionActorGuard, manager_actor.rs:83).
THEOREM NobodyWaitsForTheGone == Spec => []WaitersHaveAHead
<1>1. ASSUME IInv PROVE WaitersHaveAHead
  <2>. SUFFICES ASSUME NEW c \in Calls, at[c] = "queued"
                PROVE  \E h \in Calls : /\ queue[mine[c]] # <<>> /\ queue[mine[c]][1] = h
                                        /\ mine[h] = mine[c] /\ Key(h) = Key(c)
                                        /\ HasGuard(h) \/ at[h] = "queued"
    BY DEF WaitersHaveAHead
  <2>1. Kind(c) # "observe" /\ IsQueued(c) /\ HasMutex(c)
    BY <1>1 DEF IInv, LineInv, Observing, IsQueued, HasMutex, Queued, Joined
  <2>2. mine[c] \in Calls /\ entry[Key(c)] = mine[c] /\ Waits(c, mine[c])
    BY <1>1, <2>1 DEF IInv, LineInv
  <2>3. PICK q \in Seq(Calls) : q = queue[mine[c]]
    BY <1>1, <2>2 DEF IInv, TypeOK
  <2>4. Len(q) \in Nat /\ DOMAIN q = 1 .. Len(q)
    BY LenProperties
  <2>5. 1 \in DOMAIN q
    BY <2>2, <2>3, <2>4 DEF Waits
  <2>6. q[1] \in Calls /\ q # <<>>
    BY <2>4, <2>5, ElementOfSeq, EmptySeq
  <2>7. PICK h \in Calls : h = q[1]
    BY <2>6
  <2>8. Waits(h, mine[c])
    BY <2>3, <2>5, <2>7 DEF Waits
  <2>9. IsQueued(h) /\ mine[h] = mine[c]
    BY <1>1, <2>2, <2>8 DEF IInv, LineInv
  <2>10. HasMutex(h)
    BY <2>9 DEF IsQueued, HasMutex, Joined
  <2>11. entry[Key(h)] = mine[h] /\ Key(h) \in Sessions /\ Key(c) \in Sessions
    BY <1>1, <2>10 DEF IInv, LineInv, TypeOK, Key
  <2>12. Key(h) = Key(c)
    BY <1>1, <2>2, <2>9, <2>11, AcpAssumption DEF IInv, LineInv
  <2>13. HasGuard(h) \/ at[h] = "queued"
    BY <2>9 DEF IsQueued, HasGuard, Queued
  <2>. QED BY <2>3, <2>6, <2>7, <2>9, <2>12, <2>13
<1>. QED BY <1>1, Invariance, PTL
=============================================================================
