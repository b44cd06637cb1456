----------------------------- MODULE KernelGate -----------------------------
(***************************************************************************)
(* The governed execution gate of the kernel: LoongKernel (kernel.rs) over *)
(* StaticPolicyEngine (policy.rs), a policy extension chain and an audit   *)
(* sink.  Its methods take &self, so any number of threads run them at     *)
(* once; each Call below is one such method call, used once.  A step is    *)
(* the code between two accesses to state another call can change: the     *)
(* mutex of revoked_tokens, the two generation atomics, the audit sink and *)
(* the await on an adapter.                                                *)
(*                                                                         *)
(* Adapters, policy extensions and the sink are the environment: each      *)
(* answers either way.  The clock is a wall clock, so a call may read any  *)
(* time.  Times stop at MaxTime and generations wrap after MaxGeneration,  *)
(* as the u64 arithmetic of a release build does.                          *)
(***************************************************************************)
EXTENDS Naturals

CONSTANTS Calls,          \* method calls on the kernel, each made at most once
          Manifests,      \* pack manifests a builder may register
          PackIds,
          Capabilities,
          Connectors,
          Demands,        \* capability sets a request or a scoped token asks for
          Ttls,           \* lifetimes asked of issue_token
          Thresholds,     \* generations passed to revoke_generation
          RevocableIds,   \* token ids passed to revoke_token, of tokens or not
          MaxGeneration,  \* u64::MAX for generations
          MaxTime,        \* u64::MAX for epoch seconds
          NoToken

Times == 0 .. MaxTime
Generations == 0 .. MaxGeneration
Manifest == [id: PackIds, grants: SUBSET Capabilities, connectors: SUBSET Connectors]

ASSUME KernelAssumption ==
    /\ MaxGeneration \in Nat
    /\ MaxTime \in Nat
    /\ Manifests \subseteq Manifest
    /\ Demands \subseteq SUBSET Capabilities
    /\ Ttls \subseteq Nat
    /\ Thresholds \subseteq Generations
    /\ RevocableIds \subseteq Nat

Token == [id: Nat, pack: PackIds, caps: SUBSET Capabilities,
          expires: Times, generation: Generations]

ASSUME NoTokenAssumption == NoToken \notin Token

AsyncOps == {"task", "connector", "plane"}
GatedOps == AsyncOps \cup {"authorize"}
Ops == GatedOps \cup {"issue", "revoke", "revoke_generation"}

\* Where a call can be, and how it can have ended.
Ended == {"ok", "refused", "denied", "failed", "unrecorded", "cancelled"}
Stages == {"unused", "minted", "revoking", "raised", "screening", "weighing",
           "denying", "running", "recording", "closing"} \cup Ended

\* The stages of a call that holds no token.
Tokenless == {"refused", "revoking", "raised", "ok", "unrecorded"}

\* What a call was given and what it read on entry.  "barred" remembers, for the
\* properties only, whether the token was already revoked when the call was made.
Frame == [op: Ops, pack: PackIds, need: SUBSET Capabilities,
          connector: Connectors, token: Token \cup {NoToken}, at: Times,
          below: Generations, barred: BOOLEAN]

EventKinds == {"TokenIssued", "TokenRevoked", "AuthorizationDenied",
               "TaskDispatched", "ConnectorInvoked", "PlaneInvoked"}

VARIABLES packs,          \* registered manifests, by pack id
          generation,     \* StaticPolicyEngine.generation
          revokedBelow,   \* StaticPolicyEngine.revoked_below_generation
          revokedTokens,  \* StaticPolicyEngine.revoked_tokens
          tokenSeq,       \* StaticPolicyEngine.token_seq
          tokens,         \* tokens handed to callers
          audit,          \* events the sink holds
          invoked,        \* calls whose adapter was entered
          stage,          \* where each call is
          frame           \* the frame of each call that was made

policy == <<generation, revokedBelow, revokedTokens, tokenSeq>>
vars == <<packs, policy, tokens, audit, invoked, stage, frame>>

Init ==
    /\ packs = <<>>
    /\ generation = 0
    /\ revokedBelow = 0
    /\ revokedTokens = {}
    /\ tokenSeq = 0
    /\ tokens = {}
    /\ audit = {}
    /\ invoked = {}
    /\ stage = [c \in Calls |-> "unused"]
    /\ frame = <<>>

\* f with x mapped to v.
Put(f, x, v) == [y \in DOMAIN f \cup {x} |-> IF y = x THEN v ELSE f[y]]

-----------------------------------------------------------------------------
(* The policy engine *)

\* The two ways authorize answers RevokedToken.  Generation 0 is exempt.
ById(t) == t.id \in revokedTokens
ByGeneration(t) == t.generation > 0 /\ t.generation <= revokedBelow
Revoked(t) == ById(t) \/ ByGeneration(t)

\* Mutant: the token's pack is not compared with the pack of the call.
MutPolicyAllows(f) ==
    /\ ~ByGeneration(f.token)
    /\ f.at <= f.token.expires
    /\ f.need \subseteq f.token.caps

\* The checks of authorize that follow the look-up in revoked_tokens.
PolicyAllows(f) ==
    /\ ~ByGeneration(f.token)
    /\ f.token.pack = f.pack
    /\ f.at <= f.token.expires
    /\ f.need \subseteq f.token.caps

\* Mutant: a plain store instead of fetch_max.
MutRaised(below) == below

\* fetch_max on the threshold and on the generation counter.
Raised(below) == IF below > revokedBelow THEN below ELSE revokedBelow

\* Mutant: the counter is not fast-forwarded.
MutFastForwarded(below) == generation

FastForwarded(below) == IF below > generation THEN below ELSE generation

NextGeneration == IF generation = MaxGeneration THEN 0 ELSE generation + 1

\* Mutant: a plain addition.
MutExpiry(now, ttl) == now + ttl

Expiry(now, ttl) == IF now + ttl > MaxTime THEN MaxTime ELSE now + ttl

-----------------------------------------------------------------------------
(* The audit sink: a record that fails may still have left its event behind *)
(* (FanoutAuditSink wrote to a first child before the second one failed).   *)

Event(c, kind) == [call |-> c, kind |-> kind]

Recorded(c, kind) == audit' = audit \cup {Event(c, kind)}
SinkFailed(c, kind) == audit' \in {audit, audit \cup {Event(c, kind)}}

\* Mutant: the sink's error is ignored.
MutRecordThen(c, kind, next) ==
    \/ Recorded(c, kind) /\ stage' = [stage EXCEPT ![c] = next]
    \/ SinkFailed(c, kind) /\ stage' = [stage EXCEPT ![c] = next]

\* self.audit.record(..)?; next
RecordThen(c, kind, next) ==
    \/ Recorded(c, kind) /\ stage' = [stage EXCEPT ![c] = next]
    \/ SinkFailed(c, kind) /\ stage' = [stage EXCEPT ![c] = "unrecorded"]

-----------------------------------------------------------------------------
(* Packs: register_pack takes &mut self, so no call is in flight. *)

Quiet == \A c \in Calls : stage[c] \in Ended \cup {"unused"}

RegisterPack(m) ==
    /\ Quiet
    /\ m.grants # {}
    /\ m.id \notin DOMAIN packs
    /\ packs' = Put(packs, m.id, m)
    /\ UNCHANGED <<policy, tokens, audit, invoked, stage, frame>>

PackGrants(p, need) == p \in DOMAIN packs /\ need \subseteq packs[p].grants

-----------------------------------------------------------------------------
(* Entering a call *)

Enter(c, f, s) ==
    /\ stage[c] = "unused"
    /\ stage' = [stage EXCEPT ![c] = s]
    /\ frame' = Put(frame, c, f)

NewFrame(op, p, need, k, t, now, below) ==
    [op |-> op, pack |-> p, need |-> need, connector |-> k, token |-> t,
     at |-> now, below |-> below, barred |-> t # NoToken /\ Revoked(t)]

\* issue_token and issue_scoped_token: the engine mints, the sink is told next.
MintedToken(p, caps, now, ttl) ==
    [id |-> tokenSeq + 1, pack |-> p, caps |-> caps,
     expires |-> Expiry(now, ttl), generation |-> NextGeneration]

IssueToken(c, p, caps, k) ==
    /\ PackGrants(p, caps)
    /\ \E now \in Times, ttl \in Ttls :
          Enter(c, NewFrame("issue", p, caps, k, MintedToken(p, caps, now, ttl), now, 0),
                "minted")
    /\ generation' = NextGeneration
    /\ tokenSeq' = tokenSeq + 1
    /\ UNCHANGED <<packs, revokedBelow, revokedTokens, tokens, audit, invoked>>

IssueRefused(c, p, caps, k) ==
    /\ ~PackGrants(p, caps)
    /\ Enter(c, NewFrame("issue", p, caps, k, NoToken, 0, 0), "refused")
    /\ UNCHANGED <<packs, policy, tokens, audit, invoked>>

\* The caller gets the token only when TokenIssued was recorded.
AnnounceToken(c) ==
    /\ stage[c] = "minted"
    /\ RecordThen(c, "TokenIssued", "ok")
    /\ tokens' = IF stage'[c] = "ok" THEN tokens \cup {frame[c].token} ELSE tokens
    /\ UNCHANGED <<packs, policy, invoked, frame>>

\* revoke_token takes any id: also one that no token carries yet.
RevokeToken(c, id, p, k) ==
    /\ Enter(c, NewFrame("revoke", p, {}, k, NoToken, 0, 0), "revoking")
    /\ revokedTokens' = revokedTokens \cup {id}
    /\ UNCHANGED <<packs, generation, revokedBelow, tokenSeq, tokens, audit, invoked>>

AnnounceRevocation(c) ==
    /\ stage[c] = "revoking"
    /\ RecordThen(c, "TokenRevoked", "ok")
    /\ UNCHANGED <<packs, policy, tokens, invoked, frame>>

\* revoke_generation raises the threshold, then fast-forwards the counter: two
\* atomics, with room for another call between them.  It records nothing.
RaiseThreshold(c, below, p, k) ==
    /\ Enter(c, NewFrame("revoke_generation", p, {}, k, NoToken, 0, below), "raised")
    /\ revokedBelow' = Raised(below)
    /\ UNCHANGED <<packs, generation, revokedTokens, tokenSeq, tokens, audit, invoked>>

FastForward(c) ==
    /\ stage[c] = "raised"
    /\ generation' = FastForwarded(frame[c].below)
    /\ stage' = [stage EXCEPT ![c] = "ok"]
    /\ UNCHANGED <<packs, revokedBelow, revokedTokens, tokenSeq, tokens, audit,
                   invoked, frame>>

-----------------------------------------------------------------------------
(* A gated call: pack boundary, policy, extensions, adapter, evidence *)

\* get_pack, assert_connector_allowed and assert_pack_grants.
BoundaryHolds(op, p, need, k) ==
    /\ PackGrants(p, need)
    /\ op = "connector" => k \in packs[p].connectors

BeginCall(c, op, p, need, k, t) ==
    /\ BoundaryHolds(op, p, need, k)
    /\ \E now \in Times : Enter(c, NewFrame(op, p, need, k, t, now, 0), "screening")
    /\ UNCHANGED <<packs, policy, tokens, audit, invoked>>

\* A boundary error returns at once and records nothing.
RefuseCall(c, op, p, need, k, t) ==
    /\ ~BoundaryHolds(op, p, need, k)
    /\ Enter(c, NewFrame(op, p, need, k, t, 0, 0), "refused")
    /\ UNCHANGED <<packs, policy, tokens, audit, invoked>>

\* Mutant: only the generation tells whether a token is revoked.
MutCheckRevokedTokens(c) ==
    /\ stage[c] = "screening"
    /\ stage' = [stage EXCEPT ![c] = "weighing"]
    /\ UNCHANGED <<packs, policy, tokens, audit, invoked, frame>>

CheckRevokedTokens(c) ==
    /\ stage[c] = "screening"
    /\ stage' = [stage EXCEPT ![c] = IF ById(frame[c].token) THEN "denying" ELSE "weighing"]
    /\ UNCHANGED <<packs, policy, tokens, audit, invoked, frame>>

\* Mutant: the invocation is recorded on the way in.
MutCheckPolicy(c) ==
    /\ stage[c] = "weighing"
    /\ PolicyAllows(frame[c]) /\ frame[c].op \in AsyncOps
    /\ stage' = [stage EXCEPT ![c] = "running"]
    /\ invoked' = invoked \cup {c}
    /\ Recorded(c, "PlaneInvoked")
    /\ UNCHANGED <<packs, policy, tokens, frame>>

\* The rest of authorize and the extension chain, whose verdict is the environment's.
CheckPolicy(c) ==
    /\ stage[c] = "weighing"
    /\ \/ stage' = [stage EXCEPT ![c] = "denying"] /\ UNCHANGED invoked
       \/ /\ PolicyAllows(frame[c])
          /\ frame[c].op = "authorize"
          /\ stage' = [stage EXCEPT ![c] = "closing"]
          /\ UNCHANGED invoked
       \/ /\ PolicyAllows(frame[c])
          /\ frame[c].op \in AsyncOps
          /\ stage' = [stage EXCEPT ![c] = "running"]
          /\ invoked' = invoked \cup {c}
    /\ UNCHANGED <<packs, policy, tokens, audit, frame>>

RecordDenial(c) ==
    /\ stage[c] = "denying"
    /\ RecordThen(c, "AuthorizationDenied", "denied")
    /\ UNCHANGED <<packs, policy, tokens, invoked, frame>>

\* Which record comes first once the adapter has answered Ok.
FirstRecord(op) == IF op = "plane" THEN "closing" ELSE "recording"

AdapterReturns(c) ==
    /\ stage[c] = "running"
    /\ \E next \in {FirstRecord(frame[c].op), "failed"} :
          stage' = [stage EXCEPT ![c] = next]
    /\ UNCHANGED <<packs, policy, tokens, audit, invoked, frame>>

\* The caller drops the future while it awaits the adapter.
DropCall(c) ==
    /\ stage[c] = "running"
    /\ stage' = [stage EXCEPT ![c] = "cancelled"]
    /\ UNCHANGED <<packs, policy, tokens, audit, invoked, frame>>

\* TaskDispatched ends a task; ConnectorInvoked is followed by PlaneInvoked.
RecordDispatch(c) ==
    /\ stage[c] = "recording"
    /\ \/ frame[c].op = "task" /\ RecordThen(c, "TaskDispatched", "ok")
       \/ frame[c].op = "connector" /\ RecordThen(c, "ConnectorInvoked", "closing")
    /\ UNCHANGED <<packs, policy, tokens, invoked, frame>>

RecordPlaneInvocation(c) ==
    /\ stage[c] = "closing"
    /\ RecordThen(c, "PlaneInvoked", "ok")
    /\ UNCHANGED <<packs, policy, tokens, invoked, frame>>

-----------------------------------------------------------------------------

Request(c) ==
    \E p \in PackIds, need \in Demands, k \in Connectors :
        \/ IssueToken(c, p, need, k)
        \/ IssueRefused(c, p, need, k)
        \/ \E op \in GatedOps, t \in tokens :
              BeginCall(c, op, p, need, k, t) \/ RefuseCall(c, op, p, need, k, t)

Administer(c) ==
    \E p \in PackIds, k \in Connectors :
        \/ \E id \in RevocableIds : RevokeToken(c, id, p, k)
        \/ \E below \in Thresholds : RaiseThreshold(c, below, p, k)

Proceed(c) ==
    \/ AnnounceToken(c)
    \/ AnnounceRevocation(c)
    \/ FastForward(c)
    \/ CheckRevokedTokens(c)
    \/ CheckPolicy(c)
    \/ RecordDenial(c)
    \/ AdapterReturns(c)
    \/ DropCall(c)
    \/ RecordDispatch(c)
    \/ RecordPlaneInvocation(c)

Next ==
    \/ \E m \in Manifests : RegisterPack(m)
    \/ \E c \in Calls : Request(c) \/ Administer(c) \/ Proceed(c)

Spec == Init /\ [][Next]_vars

-----------------------------------------------------------------------------
(* Properties *)

\* Type correctness of the engine, the pack registry and every call's frame.
TypeOK ==
    /\ DOMAIN packs \subseteq PackIds
    /\ \A p \in DOMAIN packs : packs[p] \in Manifests
    /\ generation \in Generations
    /\ revokedBelow \in Generations
    /\ revokedTokens \subseteq Nat
    /\ tokenSeq \in Nat
    /\ tokens \subseteq Token
    /\ audit \subseteq [call: Calls, kind: EventKinds]
    /\ invoked \subseteq Calls
    /\ stage \in [Calls -> Stages]
    /\ DOMAIN frame = {c \in Calls : stage[c] # "unused"}
    /\ \A c \in DOMAIN frame :
          /\ frame[c] \in Frame
          /\ frame[c].token = NoToken => stage[c] \in Tokenless

\* A call the gate let through: its adapter was entered, or authorize_operation
\* went on to record its success.
Granted(c) ==
    \/ c \in invoked
    \/ c \in DOMAIN frame /\ frame[c].op = "authorize" /\ stage[c] \in {"closing", "ok"}

\* A call made after revoke_token or revoke_generation revoked its token is never
\* let through, however the two look-ups of authorize interleave with other
\* revocations, mints and fast-forwards (policy.rs authorize).
RevokedCallsNeverRun == \A c \in Calls : Granted(c) => ~frame[c].barred

\* What the gate lets through was asked under the token's own pack, before the
\* token's expiry, for capabilities both the token and the pack carry and, for a
\* connector call, for a connector of the pack (authorize_pack_operation).
GrantsAreJustified ==
    \A c \in Calls : Granted(c) =>
        /\ frame[c].token.pack = frame[c].pack
        /\ frame[c].at <= frame[c].token.expires
        /\ frame[c].need \subseteq frame[c].token.caps
        /\ frame[c].pack \in DOMAIN packs
        /\ frame[c].need \subseteq packs[frame[c].pack].grants
        /\ frame[c].op = "connector" => frame[c].connector \in packs[frame[c].pack].connectors

\* No token in circulation carries a capability its registered pack does not
\* grant, scoped tokens and later registrations included (issue_scoped_token,
\* register_pack).
TokensWithinPack == \A t \in tokens : PackGrants(t.pack, t.caps)

\* The events a successful call must have left in the sink.
Evidence(op) ==
    CASE op = "issue" -> {"TokenIssued"}
      [] op = "revoke" -> {"TokenRevoked"}
      [] op = "task" -> {"TaskDispatched"}
      [] op = "connector" -> {"ConnectorInvoked", "PlaneInvoked"}
      [] op \in {"plane", "authorize"} -> {"PlaneInvoked"}
      [] OTHER -> {}

\* Success and denial are answered only once the sink holds every event they
\* promise: a sink failure surfaces as an error instead (fail-closed audit).
AnswersHaveEvidence ==
    \A c \in Calls :
        /\ stage[c] = "ok" => \A kind \in Evidence(frame[c].op) : Event(c, kind) \in audit
        /\ stage[c] = "denied" => Event(c, "AuthorizationDenied") \in audit

\* No event claims what did not happen: an invocation event belongs to a call
\* that was let through and whose adapter answered Ok, a denial to a call whose
\* adapter was never entered (execute_* record after the await).
EvidenceIsTruthful ==
    \A e \in audit :
        /\ e.kind \in {"TaskDispatched", "ConnectorInvoked", "PlaneInvoked"} =>
              /\ e.call \in invoked \/ frame[e.call].op = "authorize"
              /\ stage[e.call] \in {"closing", "ok", "unrecorded"}
        /\ e.kind = "AuthorizationDenied" =>
              e.call \notin invoked /\ stage[e.call] \in {"denied", "unrecorded"}

\* Once revoked, a token stays revoked: no later revocation, mint or
\* fast-forward brings it back (revoke_generation's fetch_max).
RevocationIsFinal == [][\A t \in tokens : Revoked(t) => Revoked(t)']_vars

\* A token minted while no revoke_generation is half done, under an id nobody
\* revoked ahead of time, is not born revoked: "Fast-forward generation so newly
\* issued tokens won't be immediately revoked" (policy.rs revoke_generation).
FreshTokensAreLive ==
    [][\A c \in Calls :
          /\ stage[c] = "unused" /\ stage'[c] = "minted"
          /\ \A d \in Calls : stage[d] # "raised"
          /\ tokenSeq + 1 \notin revokedTokens
          => ~Revoked(frame[c].token)']_vars

\* Every adapter invocation that has come to an end, well or badly, left an event
\* ("module invocations all emit structured audit events", ARCHITECTURE.md).
InvocationsLeaveEvidence ==
    \A c \in invoked : stage[c] \in Ended => \E e \in audit : e.call = c
=============================================================================
