------------------------- MODULE KernelGate_proofs -------------------------
(***************************************************************************)
(* Proofs about KernelGate for every set of calls, packs and capabilities  *)
(* and every width of the counters: type correctness, the finality of a    *)
(* revocation, that a call made with a revoked token never passes, that    *)
(* grants stay within token and pack, and that answers and events agree.   *)
(***************************************************************************)
EXTENDS KernelGate, TLAPS

\* The frame conjuncts of TypeOK, on their own.
FramesOK ==
    /\ DOMAIN frame = {c \in Calls : stage[c] # "unused"}
    /\ \A c \in DOMAIN frame :
          /\ frame[c] \in Frame
          /\ frame[c].token = NoToken => stage[c] \in Tokenless

\* A frame built from well-typed arguments is a frame.
LEMMA NewFrameType ==
    ASSUME NEW op \in Ops, NEW p \in PackIds, NEW need \in SUBSET Capabilities,
           NEW k \in Connectors, NEW t \in Token \cup {NoToken}, NEW now \in Times,
           NEW below \in Generations
    PROVE  /\ NewFrame(op, p, need, k, t, now, below) \in Frame
           /\ NewFrame(op, p, need, k, t, now, below).token = t
  BY DEF NewFrame, Frame

\* What the engine mints is a token: generation and expiry stay in their width.
LEMMA MintedTokenType ==
    ASSUME TypeOK, NEW p \in PackIds, NEW caps \in Demands, NEW now \in Times, NEW ttl \in Ttls
    PROVE  MintedToken(p, caps, now, ttl) \in Token
<1>. USE KernelAssumption
<1>1. NextGeneration \in Generations
  BY DEF NextGeneration, Generations, TypeOK
<1>2. Expiry(now, ttl) \in Times
  BY DEF Expiry, Times
<1>. QED BY <1>1, <1>2 DEF MintedToken, Token, TypeOK

\* A record step of a call in progress keeps the audit, the stages and the frames
\* within their types.
LEMMA RecordThenType ==
    ASSUME TypeOK, NEW c \in Calls, NEW kind \in EventKinds,
           NEW next \in Stages \ {"unused"},
           stage[c] # "unused", next \in Tokenless \/ stage[c] \notin Tokenless,
           RecordThen(c, kind, next), UNCHANGED frame
    PROVE  /\ audit' \subseteq [call: Calls, kind: EventKinds]
           /\ stage' \in [Calls -> Stages]
           /\ FramesOK'
<1>. USE DEF Tokenless
<1>1. PICK end \in {next, "unrecorded"} : stage' = [stage EXCEPT ![c] = end]
  BY DEF RecordThen
<1>2. end \in Stages /\ end # "unused"
  BY DEF Stages, Ended
<1>3. audit' \subseteq [call: Calls, kind: EventKinds]
  BY DEF TypeOK, RecordThen, Recorded, SinkFailed, Event
<1>. QED BY <1>1, <1>2, <1>3 DEF TypeOK, FramesOK

\* Entering a call with a well-typed frame keeps stage and frame within their types.
LEMMA EnterType ==
    ASSUME TypeOK, NEW c \in Calls, NEW f \in Frame, NEW s \in Stages \ {"unused"},
           f.token = NoToken => s \in Tokenless, Enter(c, f, s)
    PROVE  /\ stage' \in [Calls -> Stages]
           /\ FramesOK'
  BY DEF TypeOK, FramesOK, Enter, Put

\* Every step keeps the types.
LEMMA TypeStep == TypeOK /\ [Next]_vars => TypeOK'
<1>. USE KernelAssumption DEF Tokenless
<1>. SUFFICES ASSUME TypeOK, [Next]_vars PROVE TypeOK'
  OBVIOUS
<1>. USE DEF TypeOK
<1>1. ASSUME NEW m \in Manifests, RegisterPack(m) PROVE TypeOK'
  BY <1>1 DEF RegisterPack, policy, Put, Manifest
<1>2. ASSUME NEW c \in Calls, NEW p \in PackIds, NEW need \in Demands,
             NEW k \in Connectors, IssueToken(c, p, need, k)
      PROVE  TypeOK'
  <2>1. PICK now \in Times, ttl \in Ttls :
           Enter(c, NewFrame("issue", p, need, k, MintedToken(p, need, now, ttl), now, 0),
                 "minted")
    BY <1>2 DEF IssueToken
  <2>2. NextGeneration \in Generations /\ 0 \in Generations
    BY DEF NextGeneration, Generations
  <2>3. MintedToken(p, need, now, ttl) \in Token
    BY MintedTokenType
  <2>4. /\ NewFrame("issue", p, need, k, MintedToken(p, need, now, ttl), now, 0) \in Frame
        /\ NewFrame("issue", p, need, k, MintedToken(p, need, now, ttl), now, 0).token = MintedToken(p, need, now, ttl)
    BY <2>2, <2>3, NewFrameType DEF Ops
  <2>. HIDE DEF TypeOK
  <2>5. /\ stage' \in [Calls -> Stages]
        /\ FramesOK'
    BY <2>1, <2>3, <2>4, NoTokenAssumption, EnterType DEF Stages
  <2>. QED BY <1>2, <2>2, <2>5 DEF IssueToken, TypeOK, FramesOK
<1>3. ASSUME NEW c \in Calls, NEW p \in PackIds, NEW need \in Demands,
             NEW k \in Connectors, IssueRefused(c, p, need, k)
      PROVE  TypeOK'
  <2>1. /\ NewFrame("issue", p, need, k, NoToken, 0, 0) \in Frame
        /\ NewFrame("issue", p, need, k, NoToken, 0, 0).token = NoToken
    BY NewFrameType DEF Ops, Times, Generations
  <2>2. Enter(c, NewFrame("issue", p, need, k, NoToken, 0, 0), "refused")
    BY <1>3 DEF IssueRefused
  <2>. HIDE DEF TypeOK
  <2>3. /\ stage' \in [Calls -> Stages]
        /\ FramesOK'
    BY <2>1, <2>2, NoTokenAssumption, EnterType DEF Stages, Ended
  <2>. QED BY <1>3, <2>3 DEF IssueRefused, TypeOK, FramesOK, policy
<1>4. ASSUME NEW c \in Calls, NEW p \in PackIds, NEW need \in Demands,
             NEW k \in Connectors, NEW op \in GatedOps, NEW t \in tokens,
             BeginCall(c, op, p, need, k, t)
      PROVE  TypeOK'
  <2>0. t \in Token
    OBVIOUS
  <2>1. PICK now \in Times : Enter(c, NewFrame(op, p, need, k, t, now, 0), "screening")
    BY <1>4 DEF BeginCall
  <2>2. /\ NewFrame(op, p, need, k, t, now, 0) \in Frame
        /\ NewFrame(op, p, need, k, t, now, 0).token = t
    BY NewFrameType DEF Ops, Generations
  <2>. HIDE DEF TypeOK
  <2>3. /\ stage' \in [Calls -> Stages]
        /\ FramesOK'
    BY <2>0, <2>1, <2>2, NoTokenAssumption, EnterType DEF Stages
  <2>. QED BY <1>4, <2>3 DEF BeginCall, TypeOK, FramesOK, policy
<1>5. ASSUME NEW c \in Calls, NEW p \in PackIds, NEW need \in Demands,
             NEW k \in Connectors, NEW op \in GatedOps, NEW t \in tokens,
             RefuseCall(c, op, p, need, k, t)
      PROVE  TypeOK'
  <2>1. /\ NewFrame(op, p, need, k, t, 0, 0) \in Frame
        /\ NewFrame(op, p, need, k, t, 0, 0).token = t
    BY NewFrameType DEF Ops, Times, Generations
  <2>2. Enter(c, NewFrame(op, p, need, k, t, 0, 0), "refused")
    BY <1>5 DEF RefuseCall
  <2>. HIDE DEF TypeOK
  <2>3. /\ stage' \in [Calls -> Stages]
        /\ FramesOK'
    BY <2>1, <2>2, NoTokenAssumption, EnterType DEF Stages, Ended
  <2>. QED BY <1>5, <2>3 DEF RefuseCall, TypeOK, FramesOK, policy
<1>6. ASSUME NEW c \in Calls, NEW k \in Connectors, NEW id \in RevocableIds,
             NEW p \in PackIds, RevokeToken(c, id, p, k)
      PROVE  TypeOK'
  <2>1. /\ NewFrame("revoke", p, {}, k, NoToken, 0, 0) \in Frame
        /\ NewFrame("revoke", p, {}, k, NoToken, 0, 0).token = NoToken
    BY NewFrameType DEF Ops, Times, Generations
  <2>2. Enter(c, NewFrame("revoke", p, {}, k, NoToken, 0, 0), "revoking")
    BY <1>6 DEF RevokeToken
  <2>. HIDE DEF TypeOK
  <2>3. /\ stage' \in [Calls -> Stages]
        /\ FramesOK'
    BY <2>1, <2>2, EnterType DEF Stages, Tokenless
  <2>. QED BY <1>6, <2>3 DEF RevokeToken, TypeOK, FramesOK
<1>7. ASSUME NEW c \in Calls, NEW k \in Connectors, NEW below \in Thresholds,
             NEW p \in PackIds, RaiseThreshold(c, below, p, k)
      PROVE  TypeOK'
  <2>1. /\ NewFrame("revoke_generation", p, {}, k, NoToken, 0, below) \in Frame
        /\ NewFrame("revoke_generation", p, {}, k, NoToken, 0, below).token = NoToken
    BY NewFrameType DEF Ops, Times
  <2>2. Enter(c, NewFrame("revoke_generation", p, {}, k, NoToken, 0, below), "raised")
    BY <1>7 DEF RaiseThreshold
  <2>3. Raised(below) \in Generations
    BY DEF Raised
  <2>. HIDE DEF TypeOK
  <2>4. /\ stage' \in [Calls -> Stages]
        /\ FramesOK'
    BY <2>1, <2>2, NoTokenAssumption, EnterType DEF Stages
  <2>. QED BY <1>7, <2>3, <2>4 DEF RaiseThreshold, TypeOK, FramesOK
<1>8. ASSUME NEW c \in Calls, AnnounceToken(c) PROVE TypeOK'
  <2>1. /\ audit' \subseteq [call: Calls, kind: EventKinds]
        /\ stage' \in [Calls -> Stages]
        /\ FramesOK'
    BY <1>8, RecordThenType DEF AnnounceToken, EventKinds, Stages, Ended
  <2>2. frame[c].token \in Token
    BY <1>8 DEF AnnounceToken, Frame
  <2>. QED BY <1>8, <2>1, <2>2 DEF AnnounceToken, policy, FramesOK
<1>9. ASSUME NEW c \in Calls, AnnounceRevocation(c) PROVE TypeOK'
  <2>1. /\ audit' \subseteq [call: Calls, kind: EventKinds]
        /\ stage' \in [Calls -> Stages]
        /\ FramesOK'
    BY <1>9, RecordThenType DEF AnnounceRevocation, EventKinds, Stages, Ended
  <2>. QED BY <1>9, <2>1 DEF AnnounceRevocation, policy, FramesOK
<1>10. ASSUME NEW c \in Calls, FastForward(c) PROVE TypeOK'
  BY <1>10 DEF FastForward, FastForwarded, Frame, Stages, Ended
<1>11. ASSUME NEW c \in Calls, CheckRevokedTokens(c) PROVE TypeOK'
  BY <1>11 DEF CheckRevokedTokens, policy, Stages
<1>12. ASSUME NEW c \in Calls, CheckPolicy(c) PROVE TypeOK'
  BY <1>12 DEF CheckPolicy, policy, Stages
<1>13. ASSUME NEW c \in Calls, RecordDenial(c) PROVE TypeOK'
  <2>1. /\ audit' \subseteq [call: Calls, kind: EventKinds]
        /\ stage' \in [Calls -> Stages]
        /\ FramesOK'
    BY <1>13, RecordThenType DEF RecordDenial, EventKinds, Stages, Ended
  <2>. QED BY <1>13, <2>1 DEF RecordDenial, policy, FramesOK
<1>14. ASSUME NEW c \in Calls, AdapterReturns(c) PROVE TypeOK'
  BY <1>14 DEF AdapterReturns, policy, Stages, Ended, FirstRecord
<1>15. ASSUME NEW c \in Calls, DropCall(c) PROVE TypeOK'
  BY <1>15 DEF DropCall, policy, Stages, Ended
<1>16. ASSUME NEW c \in Calls, RecordDispatch(c) PROVE TypeOK'
  <2>1. /\ audit' \subseteq [call: Calls, kind: EventKinds]
        /\ stage' \in [Calls -> Stages]
        /\ FramesOK'
    <3>1. CASE RecordThen(c, "TaskDispatched", "ok")
      BY <1>16, <3>1, RecordThenType DEF RecordDispatch, EventKinds, Stages, Ended
    <3>2. CASE RecordThen(c, "ConnectorInvoked", "closing")
      BY <1>16, <3>2, RecordThenType DEF RecordDispatch, EventKinds, Stages, Ended
    <3>. QED BY <1>16, <3>1, <3>2 DEF RecordDispatch
  <2>. QED BY <1>16, <2>1 DEF RecordDispatch, policy, FramesOK
<1>17. ASSUME NEW c \in Calls, RecordPlaneInvocation(c) PROVE TypeOK'
  <2>1. /\ audit' \subseteq [call: Calls, kind: EventKinds]
        /\ stage' \in [Calls -> Stages]
        /\ FramesOK'
    BY <1>17, RecordThenType DEF RecordPlaneInvocation, EventKinds, Stages, Ended
  <2>. QED BY <1>17, <2>1 DEF RecordPlaneInvocation, policy, FramesOK
<1>18. CASE UNCHANGED vars
  BY <1>18 DEF vars, policy
<1>. HIDE DEF TypeOK
<1>. QED
  BY <1>1, <1>2, <1>3, <1>4, <1>5, <1>6, <1>7, <1>8, <1>9, <1>10, <1>11, <1>12, <1>13,
     <1>14, <1>15, <1>16, <1>17, <1>18 DEF Next, Request, Administer, Proceed

\* Every reachable state is well typed (kernel.rs, policy.rs: the engine's counters
\* stay in their width and every call's frame is complete).
THEOREM TypeCorrect == Spec => []TypeOK
<1>1. Init => TypeOK
  BY KernelAssumption DEF Init, TypeOK, Generations, Times, Stages, Ended
<1>. QED BY <1>1, TypeStep, PTL DEF Spec

-----------------------------------------------------------------------------
(* Revocation *)

\* The engine only ever adds revocations: the set of revoked ids grows and the
\* threshold never falls.
LEMMA RevocationsAccumulate ==
    ASSUME TypeOK, [Next]_vars
    PROVE  revokedTokens \subseteq revokedTokens' /\ revokedBelow <= revokedBelow'
<1>1. revokedBelow <= revokedBelow
  BY DEF TypeOK, Generations
<1>2. ASSUME NEW c \in Calls, NEW k \in Connectors, NEW below \in Thresholds,
             NEW p \in PackIds, RaiseThreshold(c, below, p, k)
      PROVE  revokedTokens \subseteq revokedTokens' /\ revokedBelow <= revokedBelow'
  BY <1>1, <1>2, KernelAssumption DEF RaiseThreshold, Raised, TypeOK, Generations
<1>3. ASSUME NEW m \in Manifests, RegisterPack(m)
      PROVE  revokedTokens \subseteq revokedTokens' /\ revokedBelow <= revokedBelow'
  BY <1>1, <1>3 DEF RegisterPack, policy
<1>4. ASSUME NEW c \in Calls, Request(c)
      PROVE  revokedTokens \subseteq revokedTokens' /\ revokedBelow <= revokedBelow'
  BY <1>1, <1>4 DEF Request, IssueToken, IssueRefused, BeginCall, RefuseCall, policy
<1>5. ASSUME NEW c \in Calls, NEW k \in Connectors, NEW id \in RevocableIds,
             NEW p \in PackIds, RevokeToken(c, id, p, k)
      PROVE  revokedTokens \subseteq revokedTokens' /\ revokedBelow <= revokedBelow'
  BY <1>1, <1>5 DEF RevokeToken
<1>6. ASSUME NEW c \in Calls, Proceed(c)
      PROVE  revokedTokens \subseteq revokedTokens' /\ revokedBelow <= revokedBelow'
  BY <1>1, <1>6 DEF Proceed, AnnounceToken, AnnounceRevocation, FastForward,
     CheckRevokedTokens, CheckPolicy, RecordDenial, AdapterReturns, DropCall,
     RecordDispatch, RecordPlaneInvocation, policy
<1>7. CASE UNCHANGED vars
  BY <1>1, <1>7 DEF vars, policy
<1>. QED BY <1>2, <1>3, <1>4, <1>5, <1>6, <1>7 DEF Next, Administer

\* Both ways of being revoked last.
LEMMA RevokedStaysRevoked ==
    ASSUME TypeOK, [Next]_vars, NEW t \in Token
    PROVE  /\ ById(t) => ById(t)'
           /\ ByGeneration(t) => ByGeneration(t)'
<1>1. TypeOK'
  BY TypeStep
<1>. QED BY <1>1, RevocationsAccumulate DEF ById, ByGeneration, Token, TypeOK, Generations

\* Once revoked, a token stays revoked, whatever the order of the revocations
\* (policy.rs revoke_generation, revoke_token).
THEOREM RevocationFinal == Spec => RevocationIsFinal
<1>1. TypeOK /\ [Next]_vars => [\A t \in tokens : Revoked(t) => Revoked(t)']_vars
  BY RevokedStaysRevoked DEF Revoked, TypeOK
<1>. QED BY <1>1, TypeCorrect, PTL DEF Spec, RevocationIsFinal

-----------------------------------------------------------------------------
(* A call made with a revoked token never passes the gate *)

\* The stages a gated call can be in when its token was revoked before it began.
HeldStages == {"refused", "screening", "weighing", "denying", "denied", "unrecorded"}

\* What holds of a barred call d: its token stays revoked, and past the look-up
\* by id it was revoked by generation, which the threshold check cannot miss.
Held(d) ==
    /\ stage[d] \in {"minted", "revoking", "raised"} => frame[d].op \notin GatedOps
    /\ d \in invoked => frame[d].op \in GatedOps
    /\ frame[d].barred => frame[d].token \in Token /\ Revoked(frame[d].token)
    /\ frame[d].barred /\ frame[d].op \in GatedOps =>
          /\ d \notin invoked
          /\ stage[d] \in HeldStages
          /\ stage[d] = "weighing" => ByGeneration(frame[d].token)

\* The inductive strengthening of RevokedCallsNeverRun.
GateInv ==
    /\ invoked \subseteq DOMAIN frame
    /\ \A d \in DOMAIN frame : Held(d)

\* A call that takes no part in a step stays held.
LEMMA HeldFrame ==
    ASSUME TypeOK, [Next]_vars, NEW d \in DOMAIN frame, Held(d), stage'[d] = stage[d],
           frame'[d] = frame[d], d \in invoked' <=> d \in invoked
    PROVE  Held(d)'
<1>1. ASSUME NEW t \in Token
      PROVE  (ById(t) => ById(t)') /\ (ByGeneration(t) => ByGeneration(t)')
  BY RevokedStaysRevoked
<1>. QED BY <1>1 DEF Held, Revoked, ById, ByGeneration

\* Entering a call with a new frame keeps every call held.
LEMMA EnterHeld ==
    ASSUME TypeOK, [Next]_vars, GateInv, NEW c \in Calls, NEW op \in Ops, NEW p, NEW need,
           NEW k, NEW t \in Token \cup {NoToken}, NEW now, NEW below, NEW s,
           Enter(c, NewFrame(op, p, need, k, t, now, below), s), UNCHANGED invoked,
           op \in GatedOps => s \in {"refused", "screening"}
    PROVE  GateInv'
<1>1. c \notin DOMAIN frame /\ c \notin invoked
  BY DEF Enter, TypeOK, GateInv
<1>2. /\ DOMAIN frame' = DOMAIN frame \cup {c}
      /\ frame'[c] = NewFrame(op, p, need, k, t, now, below)
      /\ stage'[c] = s
      /\ \A d \in DOMAIN frame : frame'[d] = frame[d] /\ stage'[d] = stage[d]
  BY <1>1 DEF Enter, Put, TypeOK
<1>3. \A d \in DOMAIN frame : Held(d)'
  BY <1>2, HeldFrame DEF GateInv
<1>4. ASSUME t \in Token, Revoked(t) PROVE Revoked(t)'
  BY <1>4, RevokedStaysRevoked DEF Revoked
<1>5. /\ frame'[c].op = op
      /\ frame'[c].token = t
      /\ frame'[c].barred <=> t # NoToken /\ Revoked(t)
  <2>. DEFINE b == t # NoToken /\ Revoked(t)
  <2>1. frame'[c] = [op |-> op, pack |-> p, need |-> need, connector |-> k, token |-> t,
                     at |-> now, below |-> below, barred |-> b]
    BY <1>2, Zenon DEF NewFrame
  <2>2. b \in BOOLEAN
    OBVIOUS
  <2>. HIDE DEF b
  <2>3. frame'[c].op = op /\ frame'[c].token = t /\ frame'[c].barred = b
    BY <2>1
  <2>. QED BY <2>2, <2>3 DEF b
<1>6. frame'[c].barred => frame'[c].token \in Token /\ Revoked(frame[c].token)'
  BY <1>4, <1>5 DEF Revoked, ById, ByGeneration
<1>7. Held(c)'
  BY <1>1, <1>2, <1>5, <1>6 DEF Held, HeldStages
<1>. QED BY <1>1, <1>2, <1>3, <1>7 DEF GateInv

\* Every step keeps every call held.
LEMMA GateStep == TypeOK /\ GateInv /\ [Next]_vars => GateInv'
<1>. SUFFICES ASSUME TypeOK, GateInv, [Next]_vars PROVE GateInv'
  OBVIOUS
<1>. USE NoTokenAssumption, KernelAssumption
<1>1. ASSUME NEW m \in Manifests, RegisterPack(m) PROVE GateInv'
  BY <1>1, HeldFrame DEF RegisterPack, GateInv
<1>2. ASSUME NEW c \in Calls, Request(c) PROVE GateInv'
  <2>1. ASSUME NEW p \in PackIds, NEW need \in Demands, NEW k \in Connectors,
               IssueToken(c, p, need, k)
        PROVE  GateInv'
    <3>1. PICK now \in Times, ttl \in Ttls :
             Enter(c, NewFrame("issue", p, need, k, MintedToken(p, need, now, ttl), now, 0),
                   "minted")
      BY <2>1 DEF IssueToken
    <3>2. MintedToken(p, need, now, ttl) \in Token
      BY MintedTokenType
    <3>. QED BY <2>1, <3>1, <3>2, EnterHeld DEF IssueToken, Ops, GatedOps, AsyncOps
  <2>2. ASSUME NEW p \in PackIds, NEW need \in Demands, NEW k \in Connectors,
               IssueRefused(c, p, need, k)
        PROVE  GateInv'
    BY <2>2, EnterHeld DEF IssueRefused, Ops
  <2>3. ASSUME NEW p \in PackIds, NEW need \in Demands, NEW k \in Connectors,
               NEW op \in GatedOps, NEW t \in tokens, BeginCall(c, op, p, need, k, t)
        PROVE  GateInv'
    BY <2>3, EnterHeld DEF BeginCall, Ops, TypeOK
  <2>4. ASSUME NEW p \in PackIds, NEW need \in Demands, NEW k \in Connectors,
               NEW op \in GatedOps, NEW t \in tokens, RefuseCall(c, op, p, need, k, t)
        PROVE  GateInv'
    BY <2>4, EnterHeld DEF RefuseCall, Ops, TypeOK
  <2>. QED BY <1>2, <2>1, <2>2, <2>3, <2>4 DEF Request
<1>3. ASSUME NEW c \in Calls, NEW k \in Connectors, NEW id \in RevocableIds,
             NEW p \in PackIds, RevokeToken(c, id, p, k)
      PROVE  GateInv'
  BY <1>3, EnterHeld DEF RevokeToken, Ops, GatedOps, AsyncOps, TypeOK
<1>4. ASSUME NEW c \in Calls, NEW k \in Connectors, NEW below \in Thresholds,
             NEW p \in PackIds, RaiseThreshold(c, below, p, k)
      PROVE  GateInv'
  BY <1>4, EnterHeld DEF RaiseThreshold, Ops, GatedOps, AsyncOps
<1>5. ASSUME NEW c \in Calls, Proceed(c) PROVE GateInv'
  <2>1. /\ c \in DOMAIN frame
        /\ frame' = frame
        /\ \A d \in Calls \ {c} : stage'[d] = stage[d] /\ (d \in invoked' <=> d \in invoked)
        /\ invoked' \subseteq invoked \cup {c}
    BY <1>5 DEF Proceed, AnnounceToken, AnnounceRevocation, FastForward, CheckRevokedTokens,
       CheckPolicy, RecordDenial, AdapterReturns, DropCall, RecordDispatch,
       RecordPlaneInvocation, RecordThen, TypeOK
  <2>2. \A d \in DOMAIN frame \ {c} : Held(d)'
    BY <2>1, HeldFrame DEF GateInv, TypeOK
  <2>3. (frame[c].token \in Token /\ Revoked(frame[c].token)) => Revoked(frame[c].token)'
    BY <2>1, RevokedStaysRevoked DEF Revoked, ById, ByGeneration
  <2>4. Held(c)
    BY <2>1 DEF GateInv
  <2>5. Held(c)'
    <3>1. CASE AnnounceToken(c) \/ AnnounceRevocation(c) \/ FastForward(c)
      BY <2>1, <2>3, <2>4, <3>1 DEF Held, AnnounceToken, AnnounceRevocation, FastForward,
         RecordThen, TypeOK
    <3>2. CASE CheckRevokedTokens(c)
      <4>1. /\ invoked' = invoked
            /\ UNCHANGED <<revokedTokens, revokedBelow>>
            /\ stage'[c] \in {"denying", "weighing"}
            /\ stage'[c] = "weighing" => ~ById(frame[c].token)
        BY <3>2 DEF CheckRevokedTokens, policy, TypeOK
      <4>2. frame[c].barred /\ stage'[c] = "weighing" => ByGeneration(frame[c].token)'
        BY <2>1, <2>4, <4>1 DEF Held, Revoked, ById, ByGeneration
      <4>. QED BY <2>1, <2>3, <2>4, <4>1, <4>2 DEF Held, HeldStages
    <3>3. CASE CheckPolicy(c)
      BY <2>1, <2>3, <2>4, <3>3 DEF Held, CheckPolicy, PolicyAllows, HeldStages, GatedOps, TypeOK
    <3>4. CASE RecordDenial(c)
      BY <2>1, <2>3, <2>4, <3>4 DEF Held, RecordDenial, RecordThen, HeldStages, TypeOK
    <3>5. CASE AdapterReturns(c) \/ DropCall(c) \/ RecordDispatch(c) \/ RecordPlaneInvocation(c)
      BY <2>1, <2>3, <2>4, <3>5 DEF Held, AdapterReturns, DropCall, RecordDispatch,
         RecordPlaneInvocation, RecordThen, FirstRecord, HeldStages, TypeOK
    <3>. QED BY <1>5, <3>1, <3>2, <3>3, <3>4, <3>5 DEF Proceed
  <2>. QED BY <2>1, <2>2, <2>5 DEF GateInv
<1>6. CASE UNCHANGED vars
  BY <1>6, HeldFrame DEF vars, GateInv
<1>. QED BY <1>1, <1>2, <1>3, <1>4, <1>5, <1>6 DEF Next, Administer

\* A call made after its token was revoked is never let through, for any number of
\* calls, tokens and thresholds (policy.rs authorize).
THEOREM RevocationHolds == Spec => []RevokedCallsNeverRun
<1>1. Init => GateInv
  BY DEF Init, GateInv
<1>2. TypeOK /\ GateInv => RevokedCallsNeverRun
  BY DEF GateInv, Held, HeldStages, RevokedCallsNeverRun, Granted, GatedOps, TypeOK
<1>. QED BY <1>1, <1>2, GateStep, TypeCorrect, PTL DEF Spec

-----------------------------------------------------------------------------
(* What is granted was asked for within its bounds, and what is answered was   *)
(* recorded                                                                    *)

InvocationKinds == {"TaskDispatched", "ConnectorInvoked", "PlaneInvoked"}

\* Which operation each stage belongs to, and which calls reached their adapter.
Placed(c) ==
    /\ stage[c] = "minted" => frame[c].op = "issue"
    /\ stage[c] = "revoking" => frame[c].op = "revoke"
    /\ stage[c] = "raised" => frame[c].op = "revoke_generation"
    /\ stage[c] \in {"screening", "weighing", "denying", "denied"} => frame[c].op \in GatedOps
    /\ stage[c] = "running" => frame[c].op \in AsyncOps
    /\ stage[c] = "recording" => frame[c].op \in {"task", "connector"}
    /\ stage[c] = "closing" => frame[c].op \in {"plane", "connector", "authorize"}
    /\ stage[c] \in {"running", "recording", "closing", "ok"} /\ frame[c].op \in AsyncOps =>
          c \in invoked
    /\ c \in invoked =>
          /\ frame[c].op \in AsyncOps
          /\ stage[c] \in {"running", "recording", "closing", "ok", "failed", "cancelled",
                           "unrecorded"}

\* What the boundary and the policy engine have seen of the call.
Bounded(c) ==
    /\ frame[c].op \in GatedOps /\ stage[c] # "refused" =>
          BoundaryHolds(frame[c].op, frame[c].pack, frame[c].need, frame[c].connector)
    /\ Granted(c) =>
          /\ frame[c].token.pack = frame[c].pack
          /\ frame[c].at <= frame[c].token.expires
          /\ frame[c].need \subseteq frame[c].token.caps
    /\ stage[c] = "minted" => PackGrants(frame[c].token.pack, frame[c].token.caps)

\* What the sink holds of the call.
Told(c) ==
    /\ stage[c] = "ok" => \A kind \in Evidence(frame[c].op) : Event(c, kind) \in audit
    /\ stage[c] = "denied" => Event(c, "AuthorizationDenied") \in audit
    /\ stage[c] = "closing" /\ frame[c].op = "connector" => Event(c, "ConnectorInvoked") \in audit
    /\ \A kind \in InvocationKinds : Event(c, kind) \in audit =>
          /\ c \in invoked \/ frame[c].op = "authorize"
          /\ stage[c] \in {"closing", "ok", "unrecorded"}
    /\ Event(c, "AuthorizationDenied") \in audit =>
          c \notin invoked /\ stage[c] \in {"denied", "unrecorded"}

\* The inductive strengthening of the three properties of grants and evidence.
EvidenceInv ==
    /\ invoked \subseteq DOMAIN frame
    /\ \A e \in audit : e.call \in DOMAIN frame
    /\ \A t \in tokens : PackGrants(t.pack, t.caps)
    /\ \A c \in DOMAIN frame : Placed(c) /\ Bounded(c) /\ Told(c)

\* The fields of a new frame the properties look at.
LEMMA NewFrameFields ==
    ASSUME NEW op, NEW p, NEW need, NEW k, NEW t, NEW now, NEW below
    PROVE  LET f == NewFrame(op, p, need, k, t, now, below)
           IN  f.op = op /\ f.pack = p /\ f.need = need /\ f.connector = k /\ f.token = t
<1>. DEFINE b == t # NoToken /\ Revoked(t)
<1>1. NewFrame(op, p, need, k, t, now, below) =
        [op |-> op, pack |-> p, need |-> need, connector |-> k, token |-> t,
         at |-> now, below |-> below, barred |-> b]
  BY Zenon DEF NewFrame
<1>. HIDE DEF b
<1>. QED BY <1>1

\* Packs are only added.
LEMMA PacksAreKept ==
    ASSUME TypeOK, [Next]_vars
    PROVE  \A p \in DOMAIN packs : p \in DOMAIN packs' /\ packs'[p] = packs[p]
<1>1. ASSUME NEW m \in Manifests, RegisterPack(m)
      PROVE  \A p \in DOMAIN packs : p \in DOMAIN packs' /\ packs'[p] = packs[p]
  BY <1>1 DEF RegisterPack, Put
<1>2. ASSUME NEW c \in Calls, Request(c) \/ Administer(c) \/ Proceed(c) PROVE packs' = packs
  BY <1>2 DEF Request, IssueToken, IssueRefused, BeginCall, RefuseCall, Administer,
     RevokeToken, RaiseThreshold, Proceed, AnnounceToken, AnnounceRevocation, FastForward,
     CheckRevokedTokens, CheckPolicy, RecordDenial, AdapterReturns, DropCall, RecordDispatch,
     RecordPlaneInvocation
<1>. QED BY <1>1, <1>2 DEF Next, vars

\* The same, of what packs grant.
LEMMA GrantsAreKept ==
    ASSUME TypeOK, [Next]_vars, NEW p, NEW need
    PROVE  /\ PackGrants(p, need) => PackGrants(p, need)'
           /\ \A op, k : BoundaryHolds(op, p, need, k) => BoundaryHolds(op, p, need, k)'
  BY PacksAreKept DEF PackGrants, BoundaryHolds

\* A call that takes no part in a step keeps what is said of it.
LEMMA EvidenceFrame ==
    ASSUME TypeOK, [Next]_vars, NEW d \in DOMAIN frame, Placed(d), Bounded(d), Told(d),
           d \in DOMAIN frame', stage'[d] = stage[d], frame'[d] = frame[d],
           d \in invoked' <=> d \in invoked,
           \A kind \in EventKinds : Event(d, kind) \in audit' <=> Event(d, kind) \in audit
    PROVE  Placed(d)' /\ Bounded(d)' /\ Told(d)'
<1>1. Placed(d)'
  BY DEF Placed
<1>2. Bounded(d)'
  <2>1. Granted(d)' => Granted(d)
    BY DEF Granted
  <2>. QED BY <2>1, GrantsAreKept DEF Bounded, PackGrants, BoundaryHolds
<1>3. Told(d)'
  <2>1. InvocationKinds \subseteq EventKinds /\ "AuthorizationDenied" \in EventKinds
        /\ \A op : Evidence(op) \subseteq EventKinds
    BY DEF InvocationKinds, EventKinds, Evidence
  <2>. QED BY <2>1 DEF Told, InvocationKinds, Event
<1>. QED BY <1>1, <1>2, <1>3

\* Entering a call says nothing of the others, and little of the call itself.
LEMMA EnterEvidence ==
    ASSUME TypeOK, [Next]_vars, EvidenceInv, NEW c \in Calls, NEW op, NEW p, NEW need, NEW k,
           NEW t, NEW now, NEW below,
           NEW s \in {"refused", "minted", "revoking", "raised", "screening"},
           Enter(c, NewFrame(op, p, need, k, t, now, below), s),
           UNCHANGED <<invoked, audit, tokens>>,
           s = "minted" => op = "issue" /\ PackGrants(t.pack, t.caps),
           s = "revoking" => op = "revoke",
           s = "raised" => op = "revoke_generation",
           s = "screening" => op \in GatedOps /\ BoundaryHolds(op, p, need, k),
           op \in GatedOps => s \in {"refused", "screening"}
    PROVE  EvidenceInv'
<1>1. c \notin DOMAIN frame /\ c \notin invoked /\ \A kind : Event(c, kind) \notin audit
  BY DEF Enter, TypeOK, EvidenceInv, Event
<1>2. /\ DOMAIN frame' = DOMAIN frame \cup {c}
      /\ frame'[c] = NewFrame(op, p, need, k, t, now, below)
      /\ stage'[c] = s
      /\ \A d \in DOMAIN frame : frame'[d] = frame[d] /\ stage'[d] = stage[d]
  BY <1>1 DEF Enter, Put, TypeOK
<1>3. ASSUME NEW d \in DOMAIN frame PROVE Placed(d)' /\ Bounded(d)' /\ Told(d)'
  <2>1. \A kind \in EventKinds : Event(d, kind) \in audit' <=> Event(d, kind) \in audit
    BY DEF Event
  <2>. QED BY <1>2, <2>1, EvidenceFrame DEF EvidenceInv
<1>4. /\ frame'[c].op = op
      /\ frame'[c].pack = p
      /\ frame'[c].need = need
      /\ frame'[c].connector = k
      /\ frame'[c].token = t
  BY <1>2, NewFrameFields
<1>5. Placed(c)'
  BY <1>1, <1>2, <1>4 DEF Placed
<1>6. Bounded(c)'
  <2>1. ~Granted(c)'
    BY <1>1, <1>2 DEF Granted
  <2>. QED BY <1>2, <1>4, <2>1, GrantsAreKept DEF Bounded, PackGrants, BoundaryHolds
<1>7. Told(c)'
  BY <1>1, <1>2 DEF Told, Event
<1>8. \A u \in tokens' : PackGrants(u.pack, u.caps)'
  BY GrantsAreKept DEF EvidenceInv
<1>. QED BY <1>1, <1>2, <1>3, <1>5, <1>6, <1>7, <1>8 DEF EvidenceInv

\* A call that proceeds leaves the others alone.
LEMMA ProceedEvidence ==
    ASSUME TypeOK, EvidenceInv, NEW c \in Calls, Proceed(c),
           Placed(c)', Bounded(c)', Told(c)',
           \A t \in tokens' : PackGrants(t.pack, t.caps)'
    PROVE  EvidenceInv'
<1>1. /\ c \in DOMAIN frame
      /\ frame' = frame
      /\ \A d \in Calls \ {c} : stage'[d] = stage[d] /\ (d \in invoked' <=> d \in invoked)
      /\ invoked' \subseteq invoked \cup {c}
  BY DEF Proceed, AnnounceToken, AnnounceRevocation, FastForward, CheckRevokedTokens,
     CheckPolicy, RecordDenial, AdapterReturns, DropCall, RecordDispatch,
     RecordPlaneInvocation, RecordThen, TypeOK
<1>2. \E kind : audit' \in {audit, audit \cup {Event(c, kind)}}
  BY DEF Proceed, AnnounceToken, AnnounceRevocation, FastForward, CheckRevokedTokens,
     CheckPolicy, RecordDenial, AdapterReturns, DropCall, RecordDispatch,
     RecordPlaneInvocation, RecordThen, Recorded, SinkFailed
<1>3. /\ \A e \in audit' : e.call \in DOMAIN frame
      /\ \A d \in Calls \ {c} : \A kind : Event(d, kind) \in audit' <=> Event(d, kind) \in audit
  BY <1>1, <1>2 DEF EvidenceInv, Event
<1>4. ASSUME NEW d \in DOMAIN frame, d # c PROVE Placed(d)' /\ Bounded(d)' /\ Told(d)'
  <2>1. [Next]_vars /\ d \in Calls
    BY DEF Next, TypeOK
  <2>. QED BY <1>1, <1>3, <1>4, <2>1, EvidenceFrame DEF EvidenceInv
<1>. QED BY <1>1, <1>3, <1>4 DEF EvidenceInv

\* Every step keeps what is said of grants and evidence.
LEMMA EvidenceStep == TypeOK /\ EvidenceInv /\ [Next]_vars => EvidenceInv'
<1>. SUFFICES ASSUME TypeOK, EvidenceInv, [Next]_vars PROVE EvidenceInv'
  OBVIOUS
<1>1. ASSUME NEW m \in Manifests, RegisterPack(m) PROVE EvidenceInv'
  <2>1. /\ UNCHANGED <<policy, tokens, audit, invoked, stage, frame>>
        /\ \A t \in tokens' : PackGrants(t.pack, t.caps)'
    BY <1>1, GrantsAreKept DEF RegisterPack, EvidenceInv
  <2>. QED BY <2>1, EvidenceFrame DEF EvidenceInv
<1>2. ASSUME NEW c \in Calls, Request(c) PROVE EvidenceInv'
  <2>1. ASSUME NEW p \in PackIds, NEW need \in Demands, NEW k \in Connectors,
               IssueToken(c, p, need, k)
        PROVE  EvidenceInv'
    <3>1. PICK now \in Times, ttl \in Ttls :
             Enter(c, NewFrame("issue", p, need, k, MintedToken(p, need, now, ttl), now, 0),
                   "minted")
      BY <2>1 DEF IssueToken
    <3>2. /\ MintedToken(p, need, now, ttl).pack = p
          /\ MintedToken(p, need, now, ttl).caps = need
      BY DEF MintedToken
    <3>. QED BY <2>1, <3>1, <3>2, EnterEvidence DEF IssueToken, GatedOps, AsyncOps
  <2>2. ASSUME NEW p \in PackIds, NEW need \in Demands, NEW k \in Connectors,
               IssueRefused(c, p, need, k)
        PROVE  EvidenceInv'
    BY <2>2, EnterEvidence DEF IssueRefused
  <2>3. ASSUME NEW p \in PackIds, NEW need \in Demands, NEW k \in Connectors,
               NEW op \in GatedOps, NEW t \in tokens, BeginCall(c, op, p, need, k, t)
        PROVE  EvidenceInv'
    BY <2>3, EnterEvidence DEF BeginCall
  <2>4. ASSUME NEW p \in PackIds, NEW need \in Demands, NEW k \in Connectors,
               NEW op \in GatedOps, NEW t \in tokens, RefuseCall(c, op, p, need, k, t)
        PROVE  EvidenceInv'
    BY <2>4, EnterEvidence DEF RefuseCall
  <2>. QED BY <1>2, <2>1, <2>2, <2>3, <2>4 DEF Request
<1>3. ASSUME NEW c \in Calls, NEW k \in Connectors, NEW id \in RevocableIds,
             NEW p \in PackIds, RevokeToken(c, id, p, k)
      PROVE  EvidenceInv'
  BY <1>3, EnterEvidence DEF RevokeToken, GatedOps, AsyncOps
<1>4. ASSUME NEW c \in Calls, NEW k \in Connectors, NEW below \in Thresholds,
             NEW p \in PackIds, RaiseThreshold(c, below, p, k)
      PROVE  EvidenceInv'
  BY <1>4, EnterEvidence DEF RaiseThreshold, GatedOps, AsyncOps
<1>5. ASSUME NEW c \in Calls, Proceed(c) PROVE EvidenceInv'
  <2>1. c \in DOMAIN frame /\ frame' = frame /\ packs' = packs
    BY <1>5 DEF Proceed, AnnounceToken, AnnounceRevocation, FastForward, CheckRevokedTokens,
       CheckPolicy, RecordDenial, AdapterReturns, DropCall, RecordDispatch,
       RecordPlaneInvocation, RecordThen, TypeOK
  <2>2. Placed(c) /\ Bounded(c) /\ Told(c)
    BY <2>1 DEF EvidenceInv
  <2>3. \A op \in GatedOps : \A p, need, k :
          BoundaryHolds(op, p, need, k) => BoundaryHolds(op, p, need, k)'
    BY <2>1 DEF BoundaryHolds, PackGrants
  <2>. USE DEF GatedOps, AsyncOps
  <2>4. Placed(c)' /\ Bounded(c)' /\ Told(c)' /\ \A t \in tokens' : PackGrants(t.pack, t.caps)'
    <3>1. CASE AnnounceToken(c)
      <4>1. /\ \/ stage'[c] = "ok" /\ Event(c, "TokenIssued") \in audit'
               \/ stage'[c] = "unrecorded"
            /\ audit' \in {audit, audit \cup {Event(c, "TokenIssued")}}
            /\ invoked' = invoked
            /\ tokens' \subseteq tokens \cup {frame[c].token}
        BY <3>1 DEF AnnounceToken, RecordThen, Recorded, SinkFailed, TypeOK
      <4>2. frame[c].op = "issue" /\ stage[c] = "minted" /\ c \notin invoked
        BY <2>2, <3>1 DEF AnnounceToken, Placed
      <4>3. Placed(c)'
        BY <2>1, <4>1, <4>2 DEF Placed
      <4>4. Bounded(c)'
        BY <2>1, <4>1, <4>2 DEF Bounded, Granted
      <4>5. Told(c)'
        BY <2>1, <2>2, <4>1, <4>2 DEF Told, Event, Evidence, InvocationKinds
      <4>6. \A t \in tokens' : PackGrants(t.pack, t.caps)'
        BY <2>1, <2>2, <4>1, <4>2 DEF Bounded, PackGrants, EvidenceInv
      <4>. QED BY <4>3, <4>4, <4>5, <4>6
    <3>2. CASE AnnounceRevocation(c)
      <4>1. /\ \/ stage'[c] = "ok" /\ Event(c, "TokenRevoked") \in audit'
               \/ stage'[c] = "unrecorded"
            /\ audit' \in {audit, audit \cup {Event(c, "TokenRevoked")}}
            /\ invoked' = invoked /\ tokens' = tokens
        BY <3>2 DEF AnnounceRevocation, RecordThen, Recorded, SinkFailed, TypeOK
      <4>2. frame[c].op = "revoke" /\ stage[c] = "revoking" /\ c \notin invoked
        BY <2>2, <3>2 DEF AnnounceRevocation, Placed
      <4>3. Placed(c)' /\ Bounded(c)'
        BY <2>1, <4>1, <4>2 DEF Placed, Bounded, Granted
      <4>4. Told(c)'
        BY <2>1, <2>2, <4>1, <4>2 DEF Told, Event, Evidence, InvocationKinds
      <4>. QED BY <2>1, <4>1, <4>3, <4>4 DEF PackGrants, EvidenceInv
    <3>3. CASE FastForward(c)
      <4>1. /\ stage'[c] = "ok" /\ UNCHANGED <<audit, invoked, tokens>>
            /\ frame[c].op = "revoke_generation" /\ stage[c] = "raised" /\ c \notin invoked
        BY <2>2, <3>3 DEF FastForward, Placed, TypeOK
      <4>2. Placed(c)' /\ Bounded(c)'
        BY <2>1, <4>1 DEF Placed, Bounded, Granted
      <4>3. Told(c)'
        BY <2>1, <2>2, <4>1 DEF Told, Event, Evidence, InvocationKinds
      <4>. QED BY <2>1, <4>1, <4>2, <4>3 DEF PackGrants, EvidenceInv
    <3>4. CASE CheckRevokedTokens(c)
      <4>1. /\ stage'[c] \in {"denying", "weighing"} /\ stage[c] = "screening"
            /\ UNCHANGED <<audit, invoked, tokens>>
        BY <3>4 DEF CheckRevokedTokens, TypeOK
      <4>2. Placed(c)'
        BY <2>1, <2>2, <4>1 DEF Placed
      <4>3. Bounded(c)'
        BY <2>1, <2>2, <2>3, <4>1 DEF Placed, Bounded, Granted
      <4>4. Told(c)'
        BY <2>1, <2>2, <4>1 DEF Told, Event
      <4>. QED BY <2>1, <4>1, <4>2, <4>3, <4>4 DEF PackGrants, EvidenceInv
    <3>5. CASE CheckPolicy(c)
      <4>1. /\ stage[c] = "weighing"
            /\ \/ stage'[c] = "denying" /\ invoked' = invoked
               \/ /\ PolicyAllows(frame[c]) /\ frame[c].op = "authorize"
                  /\ stage'[c] = "closing" /\ invoked' = invoked
               \/ /\ PolicyAllows(frame[c]) /\ frame[c].op \in AsyncOps
                  /\ stage'[c] = "running" /\ invoked' = invoked \cup {c}
            /\ UNCHANGED <<audit, tokens>>
        BY <3>5 DEF CheckPolicy, TypeOK
      <4>2. Placed(c)'
        BY <2>1, <2>2, <4>1 DEF Placed
      <4>3. Bounded(c)'
        BY <2>1, <2>2, <2>3, <4>1 DEF Placed, Bounded, Granted, PolicyAllows
      <4>4. Told(c)'
        BY <2>1, <2>2, <4>1 DEF Told, Event, InvocationKinds
      <4>. QED BY <2>1, <4>1, <4>2, <4>3, <4>4 DEF PackGrants, EvidenceInv
    <3>6. CASE RecordDenial(c)
      <4>1. /\ stage[c] = "denying"
            /\ \/ stage'[c] = "denied" /\ Event(c, "AuthorizationDenied") \in audit'
               \/ stage'[c] = "unrecorded"
            /\ audit' \in {audit, audit \cup {Event(c, "AuthorizationDenied")}}
            /\ invoked' = invoked /\ tokens' = tokens
        BY <3>6 DEF RecordDenial, RecordThen, Recorded, SinkFailed, TypeOK
      <4>2. Placed(c)'
        BY <2>1, <2>2, <4>1 DEF Placed
      <4>3. Bounded(c)'
        BY <2>1, <2>2, <2>3, <4>1 DEF Placed, Bounded, Granted
      <4>4. Told(c)'
        BY <2>1, <2>2, <4>1 DEF Told, Placed, Event, InvocationKinds
      <4>. QED BY <2>1, <4>1, <4>2, <4>3, <4>4 DEF PackGrants, EvidenceInv
    <3>7. CASE AdapterReturns(c) \/ DropCall(c)
      <4>1. /\ stage[c] = "running"
            /\ stage'[c] \in {FirstRecord(frame[c].op), "failed", "cancelled"}
            /\ UNCHANGED <<audit, invoked, tokens>>
        BY <3>7 DEF AdapterReturns, DropCall, TypeOK
      <4>2. Placed(c)'
        BY <2>1, <2>2, <4>1 DEF Placed, FirstRecord
      <4>3. Bounded(c)'
        BY <2>1, <2>2, <2>3, <4>1 DEF Placed, Bounded, Granted, FirstRecord
      <4>4. Told(c)'
        BY <2>1, <2>2, <4>1 DEF Told, Placed, Event, FirstRecord
      <4>. QED BY <2>1, <4>1, <4>2, <4>3, <4>4 DEF PackGrants, EvidenceInv
    <3>8. CASE RecordDispatch(c)
      <4>1. /\ stage[c] = "recording"
            /\ \/ /\ frame[c].op = "task"
                  /\ stage'[c] = "ok" /\ Event(c, "TaskDispatched") \in audit'
               \/ /\ frame[c].op = "connector"
                  /\ stage'[c] = "closing" /\ Event(c, "ConnectorInvoked") \in audit'
               \/ stage'[c] = "unrecorded"
            /\ audit' \in {audit, audit \cup {Event(c, "TaskDispatched")},
                           audit \cup {Event(c, "ConnectorInvoked")}}
            /\ invoked' = invoked /\ tokens' = tokens
        BY <3>8 DEF RecordDispatch, RecordThen, Recorded, SinkFailed, TypeOK
      <4>2. Placed(c)'
        BY <2>1, <2>2, <4>1 DEF Placed
      <4>3. Bounded(c)'
        BY <2>1, <2>2, <2>3, <4>1 DEF Placed, Bounded, Granted
      <4>4. Told(c)'
        BY <2>1, <2>2, <4>1 DEF Told, Placed, Event, Evidence, InvocationKinds
      <4>. QED BY <2>1, <4>1, <4>2, <4>3, <4>4 DEF PackGrants, EvidenceInv
    <3>9. CASE RecordPlaneInvocation(c)
      <4>1. /\ stage[c] = "closing"
            /\ \/ stage'[c] = "ok" /\ Event(c, "PlaneInvoked") \in audit'
               \/ stage'[c] = "unrecorded"
            /\ audit \subseteq audit'
            /\ audit' \in {audit, audit \cup {Event(c, "PlaneInvoked")}}
            /\ invoked' = invoked /\ tokens' = tokens
        BY <3>9 DEF RecordPlaneInvocation, RecordThen, Recorded, SinkFailed, TypeOK
      <4>2. Placed(c)'
        BY <2>1, <2>2, <4>1 DEF Placed
      <4>3. Bounded(c)'
        BY <2>1, <2>2, <2>3, <4>1 DEF Placed, Bounded, Granted
      <4>4. Told(c)'
        BY <2>1, <2>2, <4>1 DEF Told, Placed, Event, Evidence, InvocationKinds
      <4>. QED BY <2>1, <4>1, <4>2, <4>3, <4>4 DEF PackGrants, EvidenceInv
    <3>. QED BY <1>5, <3>1, <3>2, <3>3, <3>4, <3>5, <3>6, <3>7, <3>8, <3>9 DEF Proceed
  <2>. QED BY <1>5, <2>4, ProceedEvidence
<1>6. CASE UNCHANGED vars
  BY <1>6, EvidenceFrame DEF vars, EvidenceInv, PackGrants
<1>. QED BY <1>1, <1>2, <1>3, <1>4, <1>5, <1>6 DEF Next, Administer

\* Grants and evidence are as the invariant says, in every reachable state.
LEMMA EvidenceHolds == Spec => [](TypeOK /\ EvidenceInv)
<1>1. Init => EvidenceInv
  BY DEF Init, EvidenceInv
<1>. QED BY <1>1, EvidenceStep, TypeCorrect, PTL DEF Spec

\* Whatever the gate lets through was asked for within the bounds of its token and of
\* its pack, for every set of packs, tokens and calls (authorize_pack_operation).
THEOREM GrantsJustified == Spec => []GrantsAreJustified
<1>1. TypeOK /\ EvidenceInv => GrantsAreJustified
  <2>. SUFFICES ASSUME TypeOK, EvidenceInv, NEW c \in Calls, Granted(c)
                PROVE  /\ frame[c].token.pack = frame[c].pack
                       /\ frame[c].at <= frame[c].token.expires
                       /\ frame[c].need \subseteq frame[c].token.caps
                       /\ BoundaryHolds(frame[c].op, frame[c].pack, frame[c].need,
                                        frame[c].connector)
    BY DEF GrantsAreJustified, BoundaryHolds, PackGrants
  <2>1. c \in DOMAIN frame /\ Placed(c) /\ Bounded(c)
    BY DEF EvidenceInv, Granted
  <2>. QED BY <2>1 DEF Placed, Bounded, Granted, GatedOps, AsyncOps
<1>. QED BY <1>1, EvidenceHolds, PTL

\* No token in circulation exceeds the grants of its pack (issue_scoped_token).
THEOREM TokensBounded == Spec => []TokensWithinPack
<1>1. EvidenceInv => TokensWithinPack
  BY DEF EvidenceInv, TokensWithinPack
<1>. QED BY <1>1, EvidenceHolds, PTL

\* A success or a denial is answered only with its events in the sink, whichever
\* record fails (kernel.rs: the ? after every record).
THEOREM AnswersRecorded == Spec => []AnswersHaveEvidence
<1>1. TypeOK /\ EvidenceInv => AnswersHaveEvidence
  BY DEF TypeOK, EvidenceInv, Told, AnswersHaveEvidence
<1>. QED BY <1>1, EvidenceHolds, PTL

\* No event claims an invocation or a denial that did not take place (kernel.rs: the
\* execute_* methods record after the await).
THEOREM EvidenceTrue == Spec => []EvidenceIsTruthful
<1>1. TypeOK /\ EvidenceInv => EvidenceIsTruthful
  <2>. SUFFICES ASSUME TypeOK, EvidenceInv, NEW e \in audit
                PROVE  /\ e.kind \in InvocationKinds =>
                             /\ e.call \in invoked \/ frame[e.call].op = "authorize"
                             /\ stage[e.call] \in {"closing", "ok", "unrecorded"}
                       /\ e.kind = "AuthorizationDenied" =>
                             e.call \notin invoked /\ stage[e.call] \in {"denied", "unrecorded"}
    BY DEF EvidenceIsTruthful, InvocationKinds
  <2>1. e = Event(e.call, e.kind)
    BY DEF TypeOK, Event
  <2>2. Told(e.call)
    BY DEF EvidenceInv
  <2>. QED BY <2>1, <2>2 DEF Told
<1>. QED BY <1>1, EvidenceHolds, PTL

-----------------------------------------------------------------------------
(* Fresh tokens *)

\* A threshold ahead of the counter is one that a revocation is still to fast-forward to.
CounterCatchesUp ==
    revokedBelow <= generation
    \/ \E d \in Calls : stage[d] = "raised" /\ frame[d].below = revokedBelow

\* A revocation that has raised the threshold stays where it is until it fast-forwards.
LEMMA RaisedStays ==
    ASSUME TypeOK, [Next]_vars, NEW d \in Calls, stage[d] = "raised", ~FastForward(d)
    PROVE  stage'[d] = "raised" /\ frame'[d].below = frame[d].below
<1>1. d \in DOMAIN frame /\ stage \in [Calls -> Stages]
  BY DEF TypeOK
<1>2. ASSUME NEW m \in Manifests, RegisterPack(m) PROVE stage' = stage /\ frame' = frame
  BY <1>2 DEF RegisterPack
<1>3. ASSUME NEW c \in Calls, NEW f, NEW s, Enter(c, f, s)
      PROVE  stage'[d] = "raised" /\ frame'[d].below = frame[d].below
  BY <1>1, <1>3 DEF Enter, Put
<1>4. ASSUME NEW c \in Calls, Request(c)
      PROVE  stage'[d] = "raised" /\ frame'[d].below = frame[d].below
  BY <1>3, <1>4 DEF Request, IssueToken, IssueRefused, BeginCall, RefuseCall
<1>5. ASSUME NEW c \in Calls, Administer(c)
      PROVE  stage'[d] = "raised" /\ frame'[d].below = frame[d].below
  BY <1>3, <1>5 DEF Administer, RevokeToken, RaiseThreshold
<1>6. ASSUME NEW c \in Calls, Proceed(c)
      PROVE  stage'[d] = "raised" /\ frame'[d].below = frame[d].below
  <2>1. frame' = frame
    BY <1>6 DEF Proceed, AnnounceToken, AnnounceRevocation, FastForward, CheckRevokedTokens,
       CheckPolicy, RecordDenial, AdapterReturns, DropCall, RecordDispatch,
       RecordPlaneInvocation
  <2>2. CASE c = d
    BY <1>6, <2>2 DEF Proceed, AnnounceToken, AnnounceRevocation, CheckRevokedTokens,
       CheckPolicy, RecordDenial, AdapterReturns, DropCall, RecordDispatch,
       RecordPlaneInvocation
  <2>3. CASE c # d
    BY <1>1, <1>6, <2>1, <2>3 DEF Proceed, AnnounceToken, AnnounceRevocation, FastForward,
       CheckRevokedTokens, CheckPolicy, RecordDenial, AdapterReturns, DropCall,
       RecordDispatch, RecordPlaneInvocation, RecordThen
  <2>. QED BY <2>1, <2>2, <2>3
<1>7. CASE UNCHANGED vars
  BY <1>7 DEF vars
<1>. QED BY <1>2, <1>4, <1>5, <1>6, <1>7 DEF Next

\* Every threshold is fast-forwarded to, unless a mint wraps the counter.
LEMMA CounterStep ==
    TypeOK /\ CounterCatchesUp /\ generation < MaxGeneration /\ [Next]_vars => CounterCatchesUp'
<1>. SUFFICES ASSUME TypeOK, CounterCatchesUp, generation < MaxGeneration, [Next]_vars
              PROVE  CounterCatchesUp'
  OBVIOUS
<1>. USE KernelAssumption
<1>1. /\ generation \in Nat /\ revokedBelow \in Nat /\ MaxGeneration \in Nat
      /\ Thresholds \subseteq Nat
  BY DEF TypeOK, Generations
<1>2. ASSUME NEW c \in Calls, FastForward(c) PROVE CounterCatchesUp'
  <2>1. /\ c \in DOMAIN frame /\ frame[c].below \in Nat
        /\ generation' = FastForwarded(frame[c].below) /\ revokedBelow' = revokedBelow
    BY <1>2 DEF FastForward, TypeOK, Frame, Generations
  <2>2. generation' \in Nat /\ generation' >= generation /\ generation' >= frame[c].below
    BY <1>1, <2>1 DEF FastForwarded
  <2>3. CASE revokedBelow <= generation
    BY <1>1, <2>1, <2>2, <2>3 DEF CounterCatchesUp
  <2>4. CASE ~(revokedBelow <= generation)
    <3>1. PICK d \in Calls : stage[d] = "raised" /\ frame[d].below = revokedBelow
      BY <2>4 DEF CounterCatchesUp
    <3>2. CASE d = c
      BY <1>1, <2>1, <2>2, <3>1, <3>2 DEF CounterCatchesUp
    <3>3. CASE d # c
      BY <1>2, <2>1, <3>1, <3>3 DEF FastForward, TypeOK, CounterCatchesUp
    <3>. QED BY <3>2, <3>3
  <2>. QED BY <2>3, <2>4
<1>3. ASSUME NEW c \in Calls, NEW k \in Connectors, NEW below \in Thresholds,
             NEW p \in PackIds, RaiseThreshold(c, below, p, k)
      PROVE  CounterCatchesUp'
  <2>1. generation' = generation /\ revokedBelow' = Raised(below) /\ below \in Nat
    BY <1>1, <1>3 DEF RaiseThreshold
  <2>2. CASE below > revokedBelow
    <3>1. PICK f : f = NewFrame("revoke_generation", p, {}, k, NoToken, 0, below)
      OBVIOUS
    <3>2. f.below = below
      BY <3>1 DEF NewFrame
    <3>3. stage'[c] = "raised" /\ frame'[c] = f
      BY <1>3, <3>1 DEF RaiseThreshold, Enter, Put, TypeOK
    <3>. QED BY <2>1, <2>2, <3>2, <3>3 DEF Raised, CounterCatchesUp
  <2>3. CASE ~(below > revokedBelow)
    <3>1. revokedBelow' = revokedBelow
      BY <2>1, <2>3 DEF Raised
    <3>2. \A d \in Calls : stage[d] = "raised" => ~FastForward(d)
      BY <1>3 DEF RaiseThreshold, FastForward, Enter, TypeOK
    <3>. QED BY <2>1, <3>1, <3>2, RaisedStays DEF CounterCatchesUp
  <2>. QED BY <2>2, <2>3
<1>4. ASSUME revokedBelow' = revokedBelow, generation' \in {generation, generation + 1},
             \A d \in Calls : ~FastForward(d)
      PROVE  CounterCatchesUp'
  BY <1>1, <1>4, RaisedStays DEF CounterCatchesUp
<1>5. CASE (\A d \in Calls : ~FastForward(d))
           /\ ~ (\E c \in Calls, k \in Connectors, below \in Thresholds, p \in PackIds :
                    RaiseThreshold(c, below, p, k))
  <2>1. NextGeneration = generation + 1
    BY <1>1 DEF NextGeneration
  <2>2. revokedBelow' = revokedBelow /\ generation' \in {generation, NextGeneration}
    BY <1>5 DEF Next, RegisterPack, Request, IssueToken, IssueRefused, BeginCall, RefuseCall,
       Administer, RevokeToken, Proceed, AnnounceToken, AnnounceRevocation,
       CheckRevokedTokens, CheckPolicy, RecordDenial, AdapterReturns, DropCall, RecordDispatch,
       RecordPlaneInvocation, policy, vars
  <2>. QED BY <1>4, <1>5, <2>1, <2>2
<1>. QED BY <1>2, <1>3, <1>5

\* A token minted while no revoke_generation is half done, under an id not revoked ahead
\* of time, is not born revoked, as long as the counter stays below u64::MAX: at the maximum, the next mint wraps (policy.rs:
\* revoke_generation raises the threshold before it fast-forwards the counter).
THEOREM FreshTokensLive == Spec /\ [](generation < MaxGeneration) => FreshTokensAreLive
<1>1. Init => CounterCatchesUp
  BY DEF Init, CounterCatchesUp
<1>2. TypeOK /\ CounterCatchesUp /\ generation < MaxGeneration /\ [Next]_vars
      => [\A c \in Calls : /\ stage[c] = "unused" /\ stage'[c] = "minted"
                           /\ \A d \in Calls : stage[d] # "raised"
                           /\ tokenSeq + 1 \notin revokedTokens
                           => ~Revoked(frame[c].token)']_vars
  <2>. SUFFICES ASSUME TypeOK, CounterCatchesUp, generation < MaxGeneration,
                       [Next]_vars, NEW c \in Calls, stage[c] = "unused", stage'[c] = "minted",
                       \A d \in Calls : stage[d] # "raised", tokenSeq + 1 \notin revokedTokens
                PROVE  ~Revoked(frame[c].token)'
    OBVIOUS
  <2>1. PICK p \in PackIds, need \in Demands, k \in Connectors : IssueToken(c, p, need, k)
    <3>1. ASSUME NEW e \in Calls, Proceed(e) PROVE stage'[c] # "minted"
      BY <3>1 DEF Proceed, AnnounceToken, AnnounceRevocation, FastForward,
         CheckRevokedTokens, CheckPolicy, RecordDenial, AdapterReturns, DropCall,
         RecordDispatch, RecordPlaneInvocation, RecordThen, FirstRecord, TypeOK
    <3>2. ASSUME NEW e \in Calls, NEW f, NEW s, Enter(e, f, s) PROVE e = c /\ s = "minted"
      BY <3>2 DEF Enter, TypeOK
    <3>3. ASSUME NEW e \in Calls, Administer(e) PROVE FALSE
      BY <3>2, <3>3 DEF Administer, RevokeToken, RaiseThreshold
    <3>4. ASSUME NEW e \in Calls, Request(e)
          PROVE  \E p \in PackIds, need \in Demands, k \in Connectors : IssueToken(c, p, need, k)
      BY <3>2, <3>4 DEF Request, IssueToken, IssueRefused, BeginCall, RefuseCall
    <3>5. ~ UNCHANGED stage
      OBVIOUS
    <3>. QED BY <3>1, <3>3, <3>4, <3>5 DEF Next, RegisterPack, vars
  <2>2. PICK now \in Times, ttl \in Ttls :
           Enter(c, NewFrame("issue", p, need, k, MintedToken(p, need, now, ttl), now, 0),
                 "minted")
    BY <2>1 DEF IssueToken
  <2>3. PICK t : t = MintedToken(p, need, now, ttl)
    OBVIOUS
  <2>4. frame'[c].token = t
    BY <2>2, <2>3, NewFrameFields DEF Enter, Put
  <2>5. /\ t.id = tokenSeq + 1 /\ t.generation = generation + 1
        /\ generation \in Nat /\ revokedBelow \in Nat /\ tokenSeq \in Nat
        /\ revokedTokens \subseteq Nat
    BY <2>3, KernelAssumption DEF MintedToken, NextGeneration, TypeOK, Generations
  <2>6. revokedTokens' = revokedTokens /\ revokedBelow' = revokedBelow
    BY <2>1 DEF IssueToken
  <2>7. revokedBelow <= generation
    BY DEF CounterCatchesUp
  <2>8. t.id \notin revokedTokens /\ ~(t.generation <= revokedBelow)
    BY <2>5, <2>7
  <2>. QED BY <2>4, <2>6, <2>8 DEF Revoked, ById, ByGeneration
<1>. QED BY <1>1, <1>2, CounterStep, TypeCorrect, PTL DEF Spec, FreshTokensAreLive
=============================================================================
