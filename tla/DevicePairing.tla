---------------------------- MODULE DevicePairing ----------------------------
(***************************************************************************)
(* Pairing of devices: ControlPlanePairingRegistry (app/control_plane.rs)  *)
(* over the tables control_plane_pairing_requests and                      *)
(* control_plane_device_tokens (app/session/repository/persistence.rs), as *)
(* the two processes that offer it use it.  The control-plane server loads *)
(* one registry when it starts and keeps it (control_plane_server/         *)
(* serve.rs); the gateway loads a registry of its own for every request    *)
(* (gateway/control.rs), so many registries live over one database.        *)
(*                                                                         *)
(* A connect call opens at most one request and a resolve call issues at   *)
(* most one token, so both are named after the call.  A hash stands for    *)
(* the token it is made of.  Every statement on the database may fail, the *)
(* ones that read a row back after it was written too.                     *)
(***************************************************************************)
EXTENDS Naturals, FiniteSets

CONSTANTS Connects,  \* calls of evaluate_connect
          Resolves,  \* calls of resolve_request
          Servers,   \* control-plane servers
          Devices,
          Wanted,    \* what each connect may ask: a device, a key, a role and scopes
          MaxFaults, \* bound: statements that fail and processes that end
          MaxBusy,   \* bound: calls under way at once
          None

Calls == Connects \cup Resolves
Asks == UNION {Wanted[c] : c \in Connects}
Registries == Calls \cup Servers  \* a gateway request is its own registry
Processes == {Calls} \cup {{s} : s \in Servers}
Statuses == {"Pending", "Approved", "Rejected"}

\* In the table token is issued_token_id; in memory it is device_token, which a
\* registry knows only of the approvals it made itself.
Request == [ask: Asks, status: Statuses, token: Resolves \cup {None}]
Device == [ask: Asks, token: Resolves]
Memory == [requests: [Connects -> Request \cup {None}],
           approved: [Devices -> Device \cup {None}] \cup {None}]

ASSUME PairingAssumption ==
    /\ Connects \cap Resolves = {}
    /\ Calls \cap Servers = {}
    /\ DOMAIN Wanted = Connects
    /\ \A a \in Asks : DOMAIN a = {"device", "key", "role", "scopes"} /\ a.device \in Devices
    /\ MaxFaults \in Nat /\ MaxBusy \in Nat
    /\ None \notin Registries \cup Statuses \cup {"authorized"}
    /\ None \notin Request
    /\ None \notin Device
    /\ None \notin Memory
    /\ None \notin [Devices -> Device \cup {None}]

VARIABLES rows,      \* control_plane_pairing_requests
          tokens,    \* control_plane_device_tokens, one row per device
          memory,    \* each registry's requests and approved_devices, once it is made
          faults,    \* faults so far
          at,        \* where each call is
          reg,       \* the registry it runs on
          ask,       \* what a connect asks,
          shown,     \* and the token it presents
          target,    \* the request a resolve is about,
          approve,   \* and its verdict
          answer,    \* what the call was answered
          told,      \* the token it was answered
          old        \* tokens already superseded when a connect began

disk == <<rows, tokens>>
input == <<reg, ask, shown, target, approve, old>>
vars == <<disk, memory, faults, at, input, answer, told>>

Unloaded == [id \in Connects |-> None]
NoDevices == [d \in Devices |-> None]

Init ==
    /\ rows = Unloaded
    /\ tokens = NoDevices
    /\ memory = [r \in Registries |-> None]
    /\ faults = 0
    /\ at = [c \in Calls |-> "idle"]
    /\ reg = [c \in Calls |-> None]
    /\ ask = [c \in Connects |-> None]
    /\ shown = [c \in Connects |-> None]
    /\ target = [c \in Resolves |-> None]
    /\ approve = [c \in Resolves |-> FALSE]
    /\ answer = [c \in Calls |-> None]
    /\ told = [c \in Calls |-> None]
    /\ old = [c \in Connects |-> {}]

-----------------------------------------------------------------------------
(* Calls and registries *)

\* with_memory_config is through.
IsOpen(r) == memory[r] # None /\ memory[r].approved # None

Opened == {id \in Connects : rows[id] # None}
Issued == {rows[id].token : id \in Opened} \ {None}
Current == {tokens[d].token : d \in {e \in Devices : tokens[e] # None}}

\* A device or an operator sends a request: to a server that is up, or to the gateway.
\* A device shows no token or one that an approval was answered with.
Begin(c) ==
    /\ at[c] = "idle"
    /\ Cardinality({b \in Calls : at[b] \in {"begun", "asking", "committed"}}) < MaxBusy
    /\ \E r \in {c} \cup {s \in Servers : IsOpen(s)} : reg' = [reg EXCEPT ![c] = r]
    /\ \/ /\ c \in Connects
          /\ \E a \in Wanted[c] : ask' = [ask EXCEPT ![c] = a]
          /\ \E t \in {told[d] : d \in Calls} : shown' = [shown EXCEPT ![c] = t]
          /\ old' = [old EXCEPT ![c] = Issued \ Current]
          /\ UNCHANGED <<target, approve>>
       \/ /\ c \in Resolves
          /\ \E id \in Opened : target' = [target EXCEPT ![c] = id]
          /\ \E verdict \in BOOLEAN : approve' = [approve EXCEPT ![c] = verdict]
          /\ UNCHANGED <<ask, shown, old>>
    /\ at' = [at EXCEPT ![c] = "begun"]
    /\ UNCHANGED <<faults, disk, memory, answer, told>>

\* with_memory_config reads the requests; a token that was issued is not among them.
LoadRequests(r) ==
    /\ memory[r] = None
    /\ r \in Calls => at[r] = "begun" /\ reg[r] = r
    /\ LET loaded == [id \in Connects |->
                        IF rows[id] = None THEN None ELSE [rows[id] EXCEPT !.token = None]]
       IN  memory' = [memory EXCEPT ![r] = [requests |-> loaded, approved |-> None]]
    /\ UNCHANGED <<disk, faults, at, input, answer, told>>

\* Then, by a statement of its own, the device tokens.
LoadTokens(r) ==
    /\ memory[r] # None /\ ~IsOpen(r)
    /\ memory' = [memory EXCEPT ![r].approved = tokens]
    /\ UNCHANGED <<disk, faults, at, input, answer, told>>

Fault == faults < MaxFaults /\ faults' = faults + 1

\* A process ends: its registries and the calls on them are gone, whatever they had done.
Crash(process) ==
    /\ Fault
    /\ \E r \in process : memory[r] # None
    /\ memory' = [r \in Registries |-> IF r \in process THEN None ELSE memory[r]]
    /\ at' = [c \in Calls |-> IF reg[c] \in process /\ at[c] # "done" THEN "lost" ELSE at[c]]
    /\ UNCHANGED <<disk, input, answer, told>>

\* A gateway's registry goes with the answer; a server's is left as mem.
Reply(c, what, token, mem) ==
    /\ at' = [at EXCEPT ![c] = "done"]
    /\ answer' = [answer EXCEPT ![c] = what]
    /\ told' = [told EXCEPT ![c] = token]
    /\ memory' = [memory EXCEPT ![reg[c]] = IF reg[c] = c THEN None ELSE mem]

Mine(c) == memory[reg[c]]

\* A statement fails before anything is written.
Fails(c) ==
    /\ at[c] \in {"begun", "asking"}
    /\ Reply(c, "error", None, Mine(c))
    /\ Fault
    /\ UNCHANGED <<disk, input>>

\* resolve_request holds the write lock of the requests from its first look to its end.
Locked(r) == \E c \in Calls : reg[c] = r /\ at[c] = "committed"
MayWrite(c) == IsOpen(reg[c]) /\ ~Locked(reg[c])

-----------------------------------------------------------------------------
(* evaluate_connect *)

\* Mutant: scopes beyond the approved ones need no new pairing.
MutCovers(device, a) == device.ask.role = a.role

\* approved_device_requires_pairing, negated.
Covers(device, a) == device.ask.role = a.role /\ a.scopes \subseteq device.ask.scopes

Paired(c) ==
    LET device == Mine(c).approved[ask[c].device]
    IN  device # None /\ device.ask.key = ask[c].key /\ Covers(device, ask[c])

\* Mutant: any token will do.
MutDecideByToken(c) ==
    /\ at[c] = "begun"
    /\ c \in Connects
    /\ IsOpen(reg[c])
    /\ Paired(c)
    /\ Reply(c, IF shown[c] = None THEN "token_required" ELSE "authorized", None, Mine(c))
    /\ UNCHANGED <<faults, disk, input>>

\* The device is approved for what it asks: its token decides.
DecideByToken(c) ==
    /\ at[c] = "begun"
    /\ c \in Connects
    /\ IsOpen(reg[c])
    /\ Paired(c)
    /\ Reply(c, IF shown[c] = None THEN "token_required"
                ELSE IF shown[c] = Mine(c).approved[ask[c].device].token THEN "authorized"
                ELSE "token_invalid", None, Mine(c))
    /\ UNCHANGED <<faults, disk, input>>

\* It is not: the lock of the approved devices is let go,
AskPairing(c) ==
    /\ at[c] = "begun"
    /\ c \in Connects
    /\ IsOpen(reg[c])
    /\ ~Paired(c)
    /\ at' = [at EXCEPT ![c] = "asking"]
    /\ UNCHANGED <<faults, disk, memory, input, answer, told>>

\* A request as this one, still pending as far as the registry knows.
SamePending(c) ==
    {id \in Connects : /\ Mine(c).requests[id] # None
                       /\ Mine(c).requests[id].status = "Pending"
                       /\ Mine(c).requests[id].ask = ask[c]}

\* and the requests are searched for the same one,
FindPending(c) ==
    /\ at[c] = "asking"
    /\ MayWrite(c)
    /\ SamePending(c) # {}
    /\ Reply(c, "pairing_required", None, Mine(c))
    /\ UNCHANGED <<faults, disk, input>>

NewRequest(c) == [ask |-> ask[c], status |-> "Pending", token |-> None]

\* Mutant: the request is remembered before it is persisted, and persisting it fails.
MutOpenRequest(c) ==
    /\ at[c] = "asking"
    /\ MayWrite(c)
    /\ SamePending(c) = {}
    /\ Reply(c, "pairing_required", None, [Mine(c) EXCEPT !.requests[c] = NewRequest(c)])
    /\ UNCHANGED <<faults, disk, input>>

\* which is persisted when there is none, and then remembered.
OpenRequest(c) ==
    /\ at[c] = "asking"
    /\ MayWrite(c)
    /\ SamePending(c) = {}
    /\ rows' = [rows EXCEPT ![c] = NewRequest(c)]
    /\ Reply(c, "pairing_required", None, [Mine(c) EXCEPT !.requests[c] = NewRequest(c)])
    /\ UNCHANGED <<faults, tokens, input>>

\* The row was written and could not be read back.
OpenUnconfirmed(c) ==
    /\ at[c] = "asking"
    /\ MayWrite(c)
    /\ SamePending(c) = {}
    /\ rows' = [rows EXCEPT ![c] = NewRequest(c)]
    /\ Reply(c, "error", None, Mine(c))
    /\ Fault
    /\ UNCHANGED <<tokens, input>>

-----------------------------------------------------------------------------
(* resolve_request *)

Known(c) == Mine(c).requests[target[c]]
IsPending(c) == Known(c) # None /\ Known(c).status = "Pending"
MayResolve(c) == at[c] = "begun" /\ c \in Resolves /\ MayWrite(c)

\* The registry knows no such request,
ResolveUnknown(c) ==
    /\ MayResolve(c)
    /\ Known(c) = None
    /\ Reply(c, "not_found", None, Mine(c))
    /\ UNCHANGED <<faults, disk, input>>

\* Mutant: the request's id is answered for its token.
MutResolveSettled(c) ==
    /\ MayResolve(c)
    /\ Known(c) # None /\ Known(c).status # "Pending"
    /\ Reply(c, Known(c).status, target[c], Mine(c))
    /\ UNCHANGED <<faults, disk, input>>

\* or answers it as it was resolved, whatever the verdict is now.
ResolveSettled(c) ==
    /\ MayResolve(c)
    /\ Known(c) # None /\ Known(c).status # "Pending"
    /\ Reply(c, Known(c).status, Known(c).token, Mine(c))
    /\ UNCHANGED <<faults, disk, input>>

\* WHERE status = 'pending': another registry may have resolved the row.
StillPending(c) == rows[target[c]].status = "Pending"

WriteApproval(c) ==
    /\ rows' = [rows EXCEPT ![target[c]].status = "Approved", ![target[c]].token = c]
    /\ tokens' = [tokens EXCEPT ![Known(c).ask.device] = [ask |-> Known(c).ask, token |-> c]]

\* approve_control_plane_pairing_request: one transaction resolves the row and replaces
\* the device's token.
Approve(c) ==
    /\ MayResolve(c) /\ IsPending(c)
    /\ approve[c]
    /\ StillPending(c)
    /\ WriteApproval(c)
    /\ at' = [at EXCEPT ![c] = "committed"]
    /\ UNCHANGED <<faults, memory, input, answer, told>>

\* The transaction is committed but the row could not be read back.
ApproveUnconfirmed(c) ==
    /\ MayResolve(c) /\ IsPending(c)
    /\ approve[c]
    /\ StillPending(c)
    /\ WriteApproval(c)
    /\ Reply(c, "error", None, Mine(c))
    /\ Fault
    /\ UNCHANGED input

ApproveRefused(c) ==
    /\ MayResolve(c) /\ IsPending(c)
    /\ approve[c]
    /\ ~StillPending(c)
    /\ Reply(c, "error", None, Mine(c))
    /\ UNCHANGED <<faults, disk, input>>

\* The device is approved in memory, the request resolved and the token answered.
RememberApproval(c) ==
    /\ at[c] = "committed"
    /\ Reply(c, "Approved", c,
             [Mine(c) EXCEPT !.approved[Known(c).ask.device] = [ask |-> Known(c).ask, token |-> c],
                             !.requests[target[c]].status = "Approved",
                             !.requests[target[c]].token = c])
    /\ UNCHANGED <<faults, disk, input>>

\* Mutant: the row is updated whatever its status is.
MutWriteRejection(c) ==
    rows' = [rows EXCEPT ![target[c]].status = "Rejected"]

\* transition_control_plane_pairing_request_if_current.
WriteRejection(c) ==
    rows' = [rows EXCEPT ![target[c]].status = IF StillPending(c) THEN "Rejected" ELSE @]

\* persist_request does not look at whether the row was still pending.
Reject(c) ==
    /\ MayResolve(c) /\ IsPending(c)
    /\ ~approve[c]
    /\ WriteRejection(c)
    /\ Reply(c, "Rejected", None, [Mine(c) EXCEPT !.requests[target[c]].status = "Rejected"])
    /\ UNCHANGED <<faults, tokens, input>>

RejectUnconfirmed(c) ==
    /\ MayResolve(c) /\ IsPending(c)
    /\ ~approve[c]
    /\ WriteRejection(c)
    /\ Reply(c, "error", None, Mine(c))
    /\ Fault
    /\ UNCHANGED <<tokens, input>>

-----------------------------------------------------------------------------

ConnectStep(c) ==
    \/ DecideByToken(c) \/ AskPairing(c)
    \/ FindPending(c) \/ OpenRequest(c) \/ OpenUnconfirmed(c)

ResolveStep(c) ==
    \/ ResolveUnknown(c) \/ ResolveSettled(c)
    \/ Approve(c) \/ ApproveUnconfirmed(c) \/ ApproveRefused(c) \/ RememberApproval(c)
    \/ Reject(c) \/ RejectUnconfirmed(c)

Next ==
    \/ \E c \in Calls : Begin(c) \/ Fails(c)
    \/ \E c \in Connects : ConnectStep(c)
    \/ \E c \in Resolves : ResolveStep(c)
    \/ \E r \in Registries : LoadRequests(r) \/ LoadTokens(r)
    \/ \E process \in Processes : Crash(process)

Spec == Init /\ [][Next]_vars

-----------------------------------------------------------------------------
(* What pairing promises *)

TypeOK ==
    /\ rows \in [Connects -> Request \cup {None}]
    /\ tokens \in [Devices -> Device \cup {None}]
    /\ memory \in [Registries -> Memory \cup {None}]
    /\ faults \in 0 .. MaxFaults
    /\ at \in [Calls -> {"idle", "begun", "asking", "committed", "done", "lost"}]
    /\ reg \in [Calls -> Registries \cup {None}]
    /\ ask \in [Connects -> Asks \cup {None}]
    /\ shown \in [Connects -> Resolves \cup {None}]
    /\ target \in [Resolves -> Connects \cup {None}]
    /\ approve \in [Resolves -> BOOLEAN]
    /\ answer \in [Calls -> {"authorized", "token_required", "token_invalid", "pairing_required",
                             "not_found", "Approved", "Rejected", "error", None}]
    /\ told \in [Calls -> Resolves \cup {None}]
    /\ old \in [Connects -> SUBSET Resolves]

\* However many registries work over it, crash, or lose an answer, the database is the
\* one pairing authority: a request is resolved once, its approval issues one token, and
\* a device's token is that of its latest approval (persistence.rs:921, control_plane.rs:1483).
Ledger == INSTANCE PairingLedger WITH
    Ids <- Connects,
    Tokens <- Resolves,
    status <- [id \in Connects |-> IF rows[id] = None THEN None ELSE rows[id].status],
    device <- [id \in Connects |-> IF rows[id] = None THEN None ELSE rows[id].ask.device],
    issued <- [id \in Connects |-> IF rows[id] = None THEN None ELSE rows[id].token],
    current <- [d \in Devices |-> IF tokens[d] = None THEN None ELSE tokens[d].token]
ImplementsLedger == Ledger!Spec

\* A registry never runs ahead of the database: what it takes for asked, approved or
\* resolved is so on disk and survives its process, through errors between the two
\* (control_plane.rs:1275, control_plane.rs:1391).
MemoryIsBacked ==
    \A r \in {s \in Registries : memory[s] # None} :
        /\ \A id \in Connects : memory[r].requests[id] # None =>
              /\ rows[id] # None
              /\ rows[id].ask = memory[r].requests[id].ask
              /\ memory[r].requests[id].status = "Approved" => rows[id].status = "Approved"
              /\ memory[r].requests[id].status = "Rejected" => rows[id].status # "Pending"
        /\ IsOpen(r) => \A d \in Devices : memory[r].approved[d] # None =>
              \E id \in Opened : /\ rows[id].token = memory[r].approved[d].token
                                 /\ rows[id].ask = memory[r].approved[d].ask

\* A device is let in only with the token of an approved request of its own, under the
\* same key and role and with scopes that request asked for, even by a registry that is
\* behind (control_plane.rs:1216).
AuthorizedAsApproved ==
    \A c \in Connects : answer[c] = "authorized" =>
        \E id \in Opened :
            /\ rows[id].status = "Approved"
            /\ rows[id].token = shown[c]
            /\ rows[id].ask.device = ask[c].device
            /\ rows[id].ask.key = ask[c].key
            /\ rows[id].ask.role = ask[c].role
            /\ ask[c].scopes \subseteq rows[id].ask.scopes

\* The gateway refuses a token once a later approval of the device has replaced it,
\* whichever registry made that approval (gateway/control.rs:731).
SupersededTokensRefused ==
    \A c \in Connects : answer[c] = "authorized" /\ reg[c] = c => shown[c] \notin old[c]

\* "pairing_registry_rejects_request_without_issuing_device_token"
\* (control_plane_tests.rs:546): a request that is answered rejected has no token.
RejectedWithoutToken ==
    \A c \in Resolves : answer[c] = "Rejected" => rows[target[c]].token = None
=============================================================================
